------------------------- MODULE LossFeedbackProofs -------------------------
(***************************************************************************)
(* What LossFeedback keeps, for every number of positions, capacity of the *)
(* queue, size of a flush and of a recovery page, and all budgets.         *)
(*                                                                         *)
(* The argument: evidence that was accepted stays with its item in the     *)
(* queue, and an item is only deleted when the copy the flush works on is  *)
(* as new as the item.  So when a case is concluded or analysed all its    *)
(* evidence is stored; and as evidence is only taken before a position     *)
(* ends, and cases are only analysed after, nothing late can change the    *)
(* analysis on record.                                                     *)
(***************************************************************************)
EXTENDS LossFeedback, TLAPS, FiniteSetTheorems, WellFoundedInduction

\* The types, by what changes together.
DealTyped ==
    /\ pos \in [Positions -> {"NONE", "OPENING", "OPEN", "CLOSED", "ENTRY_FAILED"}]
    /\ net \in [Positions -> {"UNKNOWN", "LOSS", "SMALL"}] /\ proved \in [Positions -> BOOLEAN]
CaseTyped == cases \in [Positions -> Case] /\ learned \in SUBSET (Positions \X Nat)
QueueTyped ==
    /\ queue \in Seq(Positions) /\ Len(queue) <= MaxPending
    /\ \A i, j \in DOMAIN queue : queue[i] = queue[j] => i = j
ItemTyped == item \in [Positions -> Item] /\ \A p \in Positions : Pending(p) \/ item[p] = NoItem
ItemsOfFlush == [id : Positions, patch : Patch, needs : BOOLEAN, failedOnly : BOOLEAN]
WorkTyped ==
    /\ work \in Seq(ItemsOfFlush) /\ Len(work) <= BatchSize
    /\ \A i \in DOMAIN work : Pending(work[i].id)
    /\ \A i, j \in DOMAIN work : work[i].id = work[j].id => i = j
MemoryTyped ==
    /\ tracked \in [Positions -> [entry : BOOLEAN, trigger : BOOLEAN]]
    /\ cursor \in 0 .. NumPositions /\ scanDue \in BOOLEAN
    /\ accepted \in SUBSET (Positions \X {"ENTRY", "TRIGGER"})
LifeTyped ==
    /\ halt \in {"RUNS", "WAITING", "FLUSHING", "FAILED", "SAVED", "DOWN"} /\ passes \in 0 .. MaxPending
    /\ left \in [entries : Nat, faults : Nat, stops : Nat]
StepTyped ==
    /\ step \in {"IDLE", "SCANNED", "SAVE", "SETTLE", "LEARN", "CONCLUDE", "LEAVES", "DEFERS"}
    /\ work = <<>> <=> step \in {"IDLE", "SCANNED"}
Typed == /\ DealTyped /\ CaseTyped /\ QueueTyped /\ ItemTyped /\ WorkTyped /\ MemoryTyped /\ LifeTyped
         /\ StepTyped

\* No more evidence is taken of a position that has ended.
Done(p) == pos[p] \in {"CLOSED", "ENTRY_FAILED"}
Backed(p, m) == /\ m.entry => <<p, "ENTRY">> \in accepted
                /\ m.trigger => <<p, "TRIGGER">> \in accepted
AllStored(p) == /\ <<p, "ENTRY">> \in accepted => cases[p].entry
                /\ <<p, "TRIGGER">> \in accepted => cases[p].trigger
AsNew(m, n) == (n.entry => m.entry) /\ (n.trigger => m.trigger)

\* A position: its settlement, and the evidence of it.
DealInv(p) ==
    /\ net[p] # "UNKNOWN" => pos[p] = "CLOSED"
    /\ <<p, "TRIGGER">> \in accepted => pos[p] \in {"OPEN", "CLOSED"}
    /\ Backed(p, tracked[p])

\* Its item in the queue: evidence is stored or there, and what only waits is stored.
ItemInv(p) ==
    /\ item[p].needs => Done(p)
    /\ item[p].failedOnly => pos[p] = "ENTRY_FAILED"
    /\ item[p].patch.status = "FINAL" => pos[p] = "ENTRY_FAILED"
    /\ Backed(p, item[p].patch)
    /\ <<p, "ENTRY">> \in accepted => cases[p].entry \/ item[p].patch.entry
    /\ <<p, "TRIGGER">> \in accepted => cases[p].trigger \/ item[p].patch.trigger
    /\ item[p].saved => AllStored(p)

\* Its case: nothing is missing when it is analysed or concluded.
CaseInv(p) ==
    /\ cases[p].status \in {"ANALYZED", "FINAL"} => Done(p) /\ AllStored(p)
    /\ cases[p].status = "ANALYZED" => /\ Verified(p) /\ net[p] = "LOSS" /\ cases[p].deadline = "NONE"
                                       /\ cases[p].class = "RUG" => cases[p].entry

\* A copy the flush works on: it is as new as its item, if that was not revised,
\* and always when the position had ended.
CopyInv(w) ==
    /\ w.needs => Done(w.id)
    /\ w.failedOnly => pos[w.id] = "ENTRY_FAILED"
    /\ w.patch.status = "FINAL" => pos[w.id] = "ENTRY_FAILED"
    /\ Backed(w.id, w.patch)
    /\ item[w.id].seen \/ w.needs \/ w.patch.status = "FINAL" => AsNew(w.patch, item[w.id].patch)

\* Where the flush is with the first.
AtStep ==
    /\ step \in {"SETTLE", "LEARN", "CONCLUDE", "DEFERS"} => Done(Id) /\ AllStored(Id)
    /\ step = "LEAVES" /\ item[Id].seen => AllStored(Id)
    /\ step = "SETTLE" /\ cases[Id].status = "FINAL" => pos[Id] = "ENTRY_FAILED"
    /\ step \in {"LEARN", "CONCLUDE"} => cases[Id].status = "ANALYZED"
    /\ step = "LEARN" => cases[Id].class = "RUG"

\* A process that may end, or has ended, has stored everything.
Ended == halt \in {"SAVED", "DOWN"} => step = "IDLE" /\ \A p \in Positions : AllStored(p)

IInv ==
    /\ Typed
    /\ \A p \in Positions : DealInv(p) /\ ItemInv(p) /\ CaseInv(p)
    /\ \A i \in DOMAIN work : CopyInv(work[i])
    /\ AtStep /\ Ended /\ LearnedIsOnRecord

-----------------------------------------------------------------------------
(* Listings, and the queue *)

LEMMA Constants ==
    /\ NumPositions \in Nat /\ Positions = 1 .. NumPositions /\ IsFiniteSet(Positions)
    /\ MaxPending \in Nat \ {0} /\ BatchSize \in Nat \ {0} /\ RecoveryBatch \in Nat \ {0}
<1>1. NumPositions \in Nat /\ MaxPending \in Nat \ {0} /\ BatchSize \in Nat \ {0} /\ RecoveryBatch \in Nat \ {0}
  BY FeedbackAssumption
<1>. QED BY <1>1, FS_Interval DEF Positions

LEMMA FiniteParts ==
    ASSUME NEW S \in SUBSET Positions
    PROVE  IsFiniteSet(S) /\ Cardinality(S) \in Nat
BY Constants, FS_Subset, FS_CardinalityType

LEMMA Listed ==
    ASSUME NEW S \in SUBSET Positions, NEW s \in InLine(S) \cup ById(S)
    PROVE  /\ s \in Seq(S) /\ Len(s) = Cardinality(S) /\ Len(s) \in Nat /\ DOMAIN s = 1 .. Len(s)
           /\ \A p \in S : \E i \in DOMAIN s : s[i] = p
           /\ \A i \in DOMAIN s : s[i] \in S
<1>1. Cardinality(S) \in Nat
  BY FiniteParts
<1>2. s \in [1 .. Cardinality(S) -> S] /\ \A p \in S : \E i \in DOMAIN s : s[i] = p
  BY DEF InLine, ById, Listings
<1>. QED BY <1>1, <1>2

LEMMA PlaceOfPending ==
    ASSUME NEW p, Pending(p)
    PROVE  Place(p) \in DOMAIN queue /\ queue[Place(p)] = p
BY DEF Pending, Place

LEMMA ListedOnce ==
    ASSUME QueueTyped, NEW S \in SUBSET Positions, NEW s,
           (s \in InLine(S) /\ S \subseteq Queued) \/ s \in ById(S)
    PROVE  \A i, j \in DOMAIN s : s[i] = s[j] => i = j
<1>1. s \in InLine(S) \cup ById(S)
  OBVIOUS
<1>2. DOMAIN s = 1 .. Len(s) /\ Len(s) \in Nat /\ \A i \in DOMAIN s : s[i] \in S
  BY <1>1, Listed
<1>3. CASE s \in ById(S)
  <2>1. \A i, j \in DOMAIN s : i < j => s[i] < s[j]
    BY <1>3 DEF ById
  <2>2. Positions \subseteq Int
    BY Constants
  <2>3. \A i \in DOMAIN s : s[i] \in Int
    BY <1>2, <2>2
  <2>. QED BY <1>2, <2>1, <2>3
<1>4. CASE s \in InLine(S) /\ S \subseteq Queued
  <2>1. \A i, j \in DOMAIN s : i < j => Place(s[i]) < Place(s[j])
    BY <1>4 DEF InLine
  <2>2. \A i \in DOMAIN s : Place(s[i]) \in Int
    BY <1>2, <1>4, PlaceOfPending DEF Queued, QueueTyped
  <2>. QED BY <1>2, <2>1, <2>2
<1>. QED BY <1>3, <1>4

\* The last of a listing has all the others before it.
LEMMA FewBefore ==
    ASSUME NEW n \in Nat, n # 0, NEW D \in SUBSET Positions, NEW s \in Seq(D), Len(s) = n,
           \A i, j \in 1 .. n : s[i] = s[j] => i = j,
           NEW B \in SUBSET D, \A i \in 1 .. n - 1 : s[i] \in B
    PROVE  n - 1 <= Cardinality(B)
<1>1. IsFiniteSet(B)
  BY FiniteParts
<1>. DEFINE f == [i \in 1 .. n - 1 |-> s[i]]
<1>2. f \in Injection(1 .. n - 1, B)
  <2>1. f \in [1 .. n - 1 -> B]
    OBVIOUS
  <2>2. \A i, j \in DOMAIN f : f[i] = f[j] => i = j
    OBVIOUS
  <2>. QED BY <2>1, <2>2 DEF Injection, IsInjective
<1>. HIDE DEF f
<1>3. Cardinality(1 .. n - 1) <= Cardinality(B)
  BY <1>1, <1>2, FS_Injection
<1>4. Cardinality(1 .. n - 1) = n - 1
  BY FS_Interval
<1>. QED BY <1>3, <1>4

LEMMA QueueSize ==
    ASSUME QueueTyped
    PROVE  Queued \subseteq Positions /\ Cardinality(Queued) = Len(queue)
<1>1. queue \in [1 .. Len(queue) -> Queued]
  BY DEF QueueTyped, Queued, Pending
<1>2. queue \in Surjection(1 .. Len(queue), Queued)
  BY <1>1 DEF Surjection, Queued, Pending
<1>3. queue \in Injection(1 .. Len(queue), Queued)
  BY <1>1 DEF Injection, IsInjective, QueueTyped
<1>4. Cardinality(1 .. Len(queue)) = Len(queue) /\ IsFiniteSet(1 .. Len(queue))
  BY FS_Interval DEF QueueTyped
<1>. QED BY <1>2, <1>3, <1>4, FS_Surjection DEF Queued

\* A new item, or a new revision of one.
LEMMA QueueGrows ==
    ASSUME Typed, NEW p \in Positions, Room(p), NEW it \in Item,
           queue' = IF Pending(p) THEN queue ELSE Append(queue, p),
           item' = [item EXCEPT ![p] = it]
    PROVE  /\ QueueTyped' /\ ItemTyped' /\ Pending(p)'
           /\ \A q \in Positions : Pending(q) => Pending(q)'
           /\ \A q \in Positions : item'[q] = IF q = p THEN it ELSE item[q]
<1>1. QueueTyped' /\ Pending(p)' /\ \A q \in Positions : Pending(q) => Pending(q)'
  <2>1. CASE Pending(p)
    BY <2>1 DEF Typed, QueueTyped, Pending
  <2>2. CASE ~Pending(p)
    <3>1. queue' = Append(queue, p) /\ Len(queue) < MaxPending /\ MaxPending \in Nat
      BY <2>2, Constants DEF Room
    <3>2. /\ queue' \in Seq(Positions) /\ Len(queue') = Len(queue) + 1
          /\ \A i \in DOMAIN queue : queue'[i] = queue[i]
          /\ queue'[Len(queue) + 1] = p
      BY <3>1 DEF Typed, QueueTyped
    <3>3. \A i \in DOMAIN queue : queue[i] # p
      BY <2>2 DEF Pending
    <3>4. QueueTyped'
      BY <3>1, <3>2, <3>3 DEF Typed, QueueTyped
    <3>5. Pending(p)' /\ \A q \in Positions : Pending(q) => Pending(q)'
      BY <3>2 DEF Typed, QueueTyped, Pending
    <3>. QED BY <3>4, <3>5
  <2>. QED BY <2>1, <2>2
<1>2. \A q \in Positions : item'[q] = IF q = p THEN it ELSE item[q]
  BY DEF Typed, ItemTyped
<1>3. item' \in [Positions -> Item]
  BY DEF Typed, ItemTyped
<1>. QED BY <1>1, <1>2, <1>3 DEF Typed, ItemTyped

\* Items are taken out.
LEMMA QueueShrinks ==
    ASSUME Typed, NEW S \in SUBSET Queued, NEW s \in InLine(S)
    PROVE  /\ s \in Seq(Positions) /\ Len(s) = Cardinality(S)
           /\ Len(s) <= Len(queue)
           /\ \A i, j \in DOMAIN s : s[i] = s[j] => i = j
           /\ \A q : (\E i \in DOMAIN s : s[i] = q) <=> q \in S
<1>1. S \subseteq Positions /\ Queued \subseteq Positions /\ Cardinality(Queued) = Len(queue)
  BY QueueSize DEF Typed
<1>2. Cardinality(S) <= Cardinality(Queued)
  BY <1>1, FiniteParts, FS_Subset
<1>3. /\ s \in Seq(S) /\ Len(s) = Cardinality(S) /\ DOMAIN s = 1 .. Len(s)
      /\ \A p \in S : \E i \in DOMAIN s : s[i] = p
      /\ \A i \in DOMAIN s : s[i] \in S
  BY <1>1, Listed
<1>4. \A i, j \in DOMAIN s : s[i] = s[j] => i = j
  BY <1>1, ListedOnce DEF Typed
<1>. QED BY <1>1, <1>2, <1>3, <1>4

\* A new revision: its evidence is that of the old and of the patch.
Revised(m, it, patch) ==
    /\ m \in Item
    /\ m.patch.entry <=> patch.entry \/ it.patch.entry
    /\ m.patch.trigger <=> patch.trigger \/ it.patch.trigger
    /\ m.patch.status = Or(patch.status, it.patch.status)
    /\ m.failedOnly <=> it.failedOnly
    /\ ~m.saved /\ ~m.seen

LEMMA MergedFacts ==
    ASSUME NEW it \in Item, NEW patch \in Patch
    PROVE  \A settles \in BOOLEAN : /\ Revised(Merged(it, patch, settles), it, patch)
                                    /\ Merged(it, patch, settles).needs <=> it.needs \/ settles
<1>. TAKE settles \in BOOLEAN
<1>. DEFINE entry == patch.entry \/ it.patch.entry
            trigger == patch.trigger \/ it.patch.trigger
            status == Or(patch.status, it.patch.status)
            needs == it.needs \/ settles
            m == Merged(it, patch, settles)
<1>1. entry \in BOOLEAN /\ trigger \in BOOLEAN /\ needs \in BOOLEAN
  OBVIOUS
<1>2. status \in {"NONE", "CAPTURED", "TRIGGERED", "FINAL"}
  BY DEF Item, Patch, Or
<1>3. m = [it EXCEPT !.patch = [entry |-> entry, trigger |-> trigger, status |-> status],
                     !.needs = needs, !.saved = FALSE, !.seen = FALSE]
  BY DEF Merged, Item
<1>. HIDE DEF entry, trigger, status, needs, m
<1>4. [entry |-> entry, trigger |-> trigger, status |-> status] \in Patch
  BY <1>1, <1>2 DEF Patch
<1>5. m \in Item
  BY <1>1, <1>3, <1>4 DEF Item
<1>6. /\ m.patch.entry = entry /\ m.patch.trigger = trigger /\ m.patch.status = status
      /\ m.needs = needs /\ m.failedOnly = it.failedOnly
      /\ m.saved = FALSE /\ m.seen = FALSE
  BY <1>3 DEF Item
<1>. QED BY <1>5, <1>6 DEF entry, trigger, status, needs, m, Revised

LEMMA NoPatchFacts == /\ NoPatch \in Patch /\ ~NoPatch.entry /\ ~NoPatch.trigger /\ NoPatch.status = "NONE"
                      /\ NoItem \in Item /\ ~NoItem.needs /\ ~NoItem.failedOnly /\ ~NoItem.saved /\ ~NoItem.seen
                      /\ NoItem.patch = NoPatch /\ NoItem.wait = "NOW"
BY DEF NoPatch, Patch, NoItem, Item

-----------------------------------------------------------------------------
(* Steps that are not the flush's *)

\* What such a step leaves as it is: an analysis, what is settled, and the
\* evidence of a position that has ended or whose item is not revised.
SameCase(p) ==
    /\ cases'[p].status = cases[p].status /\ cases'[p].class = cases[p].class
    /\ cases'[p].known = cases[p].known
    /\ cases'[p].entry = cases[p].entry /\ cases'[p].trigger = cases[p].trigger
    /\ cases[p].status = "ANALYZED" => cases'[p] = cases[p]
SameEvidence(p) ==
    /\ item'[p].patch.entry <=> item[p].patch.entry
    /\ item'[p].patch.trigger <=> item[p].patch.trigger
    /\ \A x \in {"ENTRY", "TRIGGER"} : (<<p, x>> \in accepted') <=> (<<p, x>> \in accepted)
Keeps(p) ==
    /\ SameCase(p)
    /\ Done(p) => pos'[p] = pos[p] /\ SameEvidence(p)
    /\ net[p] # "UNKNOWN" => net'[p] = net[p] /\ (proved[p] => proved'[p])
    /\ item'[p].seen => item[p].seen /\ SameEvidence(p)
    /\ \A x \in {"ENTRY", "TRIGGER"} : <<p, x>> \in accepted => <<p, x>> \in accepted'
NoFlush == \/ work' = work /\ step' = step
           \/ work' = <<>> /\ step' \in {"IDLE", "SCANNED"}
Frozen == \A p \in Positions : cases[p].status = "ANALYZED" =>
             cases'[p] \in {cases[p], [cases[p] EXCEPT !.status = "FINAL"]}

\* The first copy.
LEMMA First ==
    ASSUME Typed, step \notin {"IDLE", "SCANNED"}
    PROVE  /\ work # <<>> /\ 1 \in DOMAIN work /\ Now = work[1] /\ Id = work[1].id
           /\ Id \in Positions /\ Pending(Id) /\ Now \in ItemsOfFlush /\ Len(work) \in Nat /\ Len(work) > 0
           /\ DOMAIN work = 1 .. Len(work)
           /\ Tail(work) \in Seq(ItemsOfFlush) /\ Len(Tail(work)) = Len(work) - 1
           /\ \A i \in DOMAIN Tail(work) : i + 1 \in DOMAIN work /\ Tail(work)[i] = work[i + 1]
<1>1. work # <<>> /\ work \in Seq(ItemsOfFlush)
  BY DEF Typed, StepTyped, WorkTyped
<1>2. 1 \in DOMAIN work /\ Now = work[1] /\ work[1] \in ItemsOfFlush
  BY <1>1 DEF Now
<1>3. /\ Tail(work) \in Seq(ItemsOfFlush) /\ Len(Tail(work)) = Len(work) - 1 /\ Len(work) \in Nat
      /\ Len(work) > 0 /\ DOMAIN work = 1 .. Len(work)
      /\ \A i \in DOMAIN Tail(work) : i + 1 \in DOMAIN work /\ Tail(work)[i] = work[i + 1]
  BY <1>1
<1>. QED BY <1>1, <1>2, <1>3 DEF Id, ItemsOfFlush, Typed, WorkTyped

LEMMA CopyTyped ==
    ASSUME Typed, NEW i \in DOMAIN work
    PROVE  work[i] \in ItemsOfFlush /\ work[i].id \in Positions
<1>1. work \in Seq(ItemsOfFlush)
  BY DEF Typed, WorkTyped
<1>2. work[i] \in ItemsOfFlush
  BY <1>1
<1>. QED BY <1>2 DEF ItemsOfFlush

LEMMA Kept ==
    ASSUME IInv, \A p \in Positions : Keeps(p), learned' = learned, NoFlush
    PROVE  /\ \A p \in Positions : CaseInv(p)'
           /\ (\A i \in DOMAIN work : CopyInv(work[i]))'
           /\ AtStep' /\ LearnedIsOnRecord' /\ Frozen
<1>1. ASSUME NEW p \in Positions PROVE CaseInv(p)'
  <2>1. Keeps(p) /\ CaseInv(p) /\ (net[p] # "UNKNOWN" => pos[p] = "CLOSED")
    BY DEF IInv, DealInv
  <2>. QED BY <2>1 DEF Keeps, SameCase, SameEvidence, CaseInv, Done, AllStored, Verified
<1>2. ASSUME NEW i \in DOMAIN work' PROVE CopyInv(work[i])'
  <2>1. work' = work
    BY <1>2 DEF NoFlush
  <2>2. work[i].id \in Positions /\ CopyInv(work[i])
    BY <1>2, <2>1, CopyTyped DEF IInv
  <2>3. Keeps(work[i].id)
    BY <2>2
  <2>. QED BY <2>1, <2>2, <2>3 DEF Keeps, SameEvidence, CopyInv, Done, Backed, AsNew
<1>3. AtStep'
  <2>1. CASE step' \in {"IDLE", "SCANNED"}
    BY <2>1 DEF AtStep
  <2>2. CASE step' \notin {"IDLE", "SCANNED"}
    <3>1. step' = step /\ work' = work /\ Id' = Id /\ Id \in Positions
      BY <2>2, First DEF NoFlush, IInv, Id, Now
    <3>2. Keeps(Id) /\ AtStep
      BY <3>1 DEF IInv
    <3>. QED BY <3>1, <3>2 DEF Keeps, SameCase, SameEvidence, AtStep, Done, AllStored
  <2>. QED BY <2>1, <2>2
<1>4. LearnedIsOnRecord'
  <2>. SUFFICES ASSUME NEW l \in learned
                PROVE  /\ cases'[l[1]].status \in {"ANALYZED", "FINAL"} /\ cases'[l[1]].class = "RUG"
                       /\ cases'[l[1]].known = l[2] /\ cases'[l[1]].entry
                       /\ net'[l[1]] = "LOSS" /\ proved'[l[1]]
    BY DEF LearnedIsOnRecord
  <2>1. l[1] \in Positions
    BY DEF IInv, Typed, CaseTyped
  <2>2. Keeps(l[1])
    BY <2>1
  <2>. QED BY <2>2 DEF Keeps, SameCase, IInv, LearnedIsOnRecord
<1>5. Frozen
  BY DEF Frozen, Keeps, SameCase
<1>. QED BY <1>1, <1>2, <1>3, <1>4, <1>5

\* Items may be revised and added, not taken away.
LEMMA WorkKept ==
    ASSUME Typed, work' = work, \A q \in Positions : Pending(q) => Pending(q)'
    PROVE  WorkTyped'
<1>1. \A i \in DOMAIN work : Pending(work[i].id)'
  BY CopyTyped DEF Typed, WorkTyped
<1>. QED BY <1>1 DEF Typed, WorkTyped

LEMMA Revises ==
    ASSUME Typed, NEW p \in Positions, NEW it \in Item, work' = work,
           \/ UNCHANGED <<queue, item>>
           \/ /\ Room(p) /\ queue' = IF Pending(p) THEN queue ELSE Append(queue, p)
              /\ item' = [item EXCEPT ![p] = it]
    PROVE  /\ QueueTyped' /\ ItemTyped' /\ WorkTyped'
           /\ \A q \in Positions : item'[q] = item[q] \/ (q = p /\ item'[q] = it)
<1>1. CASE UNCHANGED <<queue, item>>
  <2>1. \A q : Pending(q)' <=> Pending(q)
    BY <1>1 DEF Pending
  <2>. QED BY <1>1, <2>1, WorkKept DEF Typed, QueueTyped, ItemTyped
<1>2. CASE /\ Room(p) /\ queue' = IF Pending(p) THEN queue ELSE Append(queue, p)
           /\ item' = [item EXCEPT ![p] = it]
  <2>1. /\ QueueTyped' /\ ItemTyped' /\ \A q \in Positions : Pending(q) => Pending(q)'
        /\ \A q \in Positions : item'[q] = IF q = p THEN it ELSE item[q]
    BY <1>2, QueueGrows
  <2>. QED BY <2>1, WorkKept
<1>. QED BY <1>1, <1>2

LEMMA Spent ==
    ASSUME Typed, NEW what \in {"entries", "faults", "stops"}, Spend(what)
    PROVE  left' \in [entries : Nat, faults : Nat, stops : Nat]
BY DEF Typed, LifeTyped, Spend

LEMMA EntersStep == ASSUME IInv, NEW p \in Positions, Enters(p) PROVE IInv' /\ Frozen
<1>. DEFINE patch == [NoPatch EXCEPT !.entry = TRUE, !.status = "CAPTURED"]
            it == Merged(item[p], patch, FALSE)
<1>1. /\ halt = "RUNS" /\ pos[p] = "NONE" /\ pos' = [pos EXCEPT ![p] = "OPENING"] /\ Spend("entries")
      /\ UNCHANGED <<net, proved, cases, learned, cursor, scanDue, work, step, halt, passes>>
  BY DEF Enters, flushVars
<1>2. \/ /\ Room(p) /\ tracked' = [tracked EXCEPT ![p].entry = TRUE]
         /\ queue' = IF Pending(p) THEN queue ELSE Append(queue, p)
         /\ item' = [item EXCEPT ![p] = it]
         /\ accepted' = accepted \cup {<<p, "ENTRY">>}
      \/ UNCHANGED <<tracked, queue, item, accepted>>
  BY DEF Enters, Enqueue
<1>3. patch \in Patch /\ patch.entry /\ ~patch.trigger /\ patch.status = "CAPTURED" /\ item[p] \in Item
  BY DEF NoPatch, Patch, IInv, Typed, ItemTyped
<1>. HIDE DEF patch
<1>4. /\ it \in Item /\ it.patch.entry /\ (it.patch.trigger <=> item[p].patch.trigger)
      /\ it.patch.status = "CAPTURED"
      /\ (it.needs <=> item[p].needs) /\ (it.failedOnly <=> item[p].failedOnly)
      /\ ~it.saved /\ ~it.seen
  <2>1. Revised(it, item[p], patch) /\ (it.needs <=> item[p].needs)
    BY <1>3, MergedFacts
  <2>. QED BY <1>3, <2>1 DEF Revised, Or
<1>. HIDE DEF it
<1>5. /\ QueueTyped' /\ ItemTyped' /\ WorkTyped'
      /\ \A q \in Positions : item'[q] = item[q] \/ (q = p /\ item'[q] = it)
  BY <1>1, <1>2, <1>4, Revises DEF IInv
<1>6. Typed'
  <2>1. DealTyped' /\ CaseTyped' /\ StepTyped'
    BY <1>1 DEF IInv, Typed, DealTyped, CaseTyped, StepTyped
  <2>2. MemoryTyped'
    <3>1. accepted' \in SUBSET (Positions \X {"ENTRY", "TRIGGER"})
      BY <1>2 DEF IInv, Typed, MemoryTyped
    <3>2. tracked' \in [Positions -> [entry : BOOLEAN, trigger : BOOLEAN]]
      BY <1>2 DEF IInv, Typed, MemoryTyped
    <3>. QED BY <1>1, <3>1, <3>2 DEF IInv, Typed, MemoryTyped
  <2>3. LifeTyped'
    BY <1>1, Spent DEF IInv, Typed, LifeTyped
  <2>. QED BY <1>5, <2>1, <2>2, <2>3 DEF Typed
<1>7. ASSUME NEW q \in Positions PROVE Keeps(q) /\ DealInv(q)' /\ ItemInv(q)'
  <2>1. DealInv(q) /\ ItemInv(q) /\ ItemInv(p)
    BY DEF IInv
  <2>2. pos'[q] = IF q = p THEN "OPENING" ELSE pos[q]
    BY <1>1 DEF IInv, Typed, DealTyped
  <2>3. /\ <<q, "ENTRY">> \in accepted => <<q, "ENTRY">> \in accepted'
        /\ <<q, "TRIGGER">> \in accepted' <=> <<q, "TRIGGER">> \in accepted
        /\ q # p => (<<q, "ENTRY">> \in accepted' <=> <<q, "ENTRY">> \in accepted)
    BY <1>2
  <2>4. \/ /\ item'[q] = item[q] /\ tracked'[q] = tracked[q]
           /\ <<q, "ENTRY">> \in accepted' => <<q, "ENTRY">> \in accepted
        \/ /\ q = p /\ item'[q] = it /\ <<q, "ENTRY">> \in accepted'
           /\ (tracked'[q].trigger <=> tracked[q].trigger)
    <3>1. CASE UNCHANGED <<tracked, queue, item, accepted>>
      BY <3>1
    <3>2. CASE /\ tracked' = [tracked EXCEPT ![p].entry = TRUE] /\ item' = [item EXCEPT ![p] = it]
               /\ accepted' = accepted \cup {<<p, "ENTRY">>}
      <4>1. CASE q = p
        BY <3>2, <4>1 DEF IInv, Typed, ItemTyped, MemoryTyped
      <4>2. CASE q # p
        BY <3>2, <4>2 DEF IInv, Typed, ItemTyped, MemoryTyped
      <4>. QED BY <4>1, <4>2
    <3>. QED BY <1>2, <3>1, <3>2
  <2>5. Keeps(q)
    <3>1. SameCase(q)
      BY <1>1 DEF SameCase
    <3>2. Done(q) => pos'[q] = pos[q] /\ q # p
      BY <1>1, <2>2 DEF Done
    <3>3. q # p => SameEvidence(q) /\ item'[q] = item[q]
      BY <2>3, <2>4 DEF SameEvidence
    <3>4. item'[q].seen => item[q].seen /\ SameEvidence(q)
      BY <1>4, <2>3, <2>4 DEF SameEvidence
    <3>5. \A x \in {"ENTRY", "TRIGGER"} : <<q, x>> \in accepted => <<q, x>> \in accepted'
      BY <1>2
    <3>. QED BY <1>1, <3>1, <3>2, <3>3, <3>4, <3>5 DEF Keeps
  <2>6. DealInv(q)'
    BY <1>1, <2>1, <2>2, <2>3, <2>4 DEF DealInv, Backed
  <2>7. ItemInv(q)'
    BY <1>1, <1>4, <2>1, <2>2, <2>3, <2>4 DEF ItemInv, Backed, Done, AllStored
  <2>. QED BY <2>5, <2>6, <2>7
<1>8. Ended'
  BY <1>1 DEF Ended
<1>. QED BY <1>1, <1>6, <1>7, <1>8, Kept DEF IInv, NoFlush

LEMMA EntryFailsStep == ASSUME IInv, NEW p \in Positions, EntryFails(p) PROVE IInv' /\ Frozen
<1>. DEFINE patch == [NoPatch EXCEPT !.status = "FINAL"]
            m == Merged(item[p], patch, FALSE)
            it == [m EXCEPT !.failedOnly = TRUE]
<1>1. /\ pos[p] = "OPENING" /\ pos' = [pos EXCEPT ![p] = "ENTRY_FAILED"] /\ halt = "RUNS"
      /\ UNCHANGED <<net, proved, cases, learned, cursor, scanDue, work, step, halt, passes, left, accepted>>
  BY DEF EntryFails, flushVars, lifeVars
<1>2. \/ /\ Room(p) /\ tracked' = [tracked EXCEPT ![p] = Nothing]
         /\ queue' = IF Pending(p) THEN queue ELSE Append(queue, p)
         /\ item' = [item EXCEPT ![p] = it]
      \/ UNCHANGED <<tracked, queue, item>>
  BY DEF EntryFails, Release
<1>3. patch \in Patch /\ ~patch.entry /\ ~patch.trigger /\ patch.status = "FINAL" /\ item[p] \in Item
  BY DEF NoPatch, Patch, IInv, Typed, ItemTyped
<1>. HIDE DEF patch
<1>4. /\ it \in Item /\ (it.patch.entry <=> item[p].patch.entry) /\ (it.patch.trigger <=> item[p].patch.trigger)
      /\ ~it.saved /\ ~it.seen
  <2>1. Revised(m, item[p], patch)
    BY <1>3, MergedFacts
  <2>. HIDE DEF m
  <2>2. it \in Item /\ it.patch = m.patch /\ it.saved = m.saved /\ it.seen = m.seen
    BY <2>1 DEF Revised, Item
  <2>. QED BY <1>3, <2>1, <2>2 DEF Revised
<1>. HIDE DEF it
<1>5. /\ QueueTyped' /\ ItemTyped' /\ WorkTyped'
      /\ \A q \in Positions : item'[q] = item[q] \/ (q = p /\ item'[q] = it)
  BY <1>1, <1>2, <1>4, Revises DEF IInv
<1>6. \A q \in Positions : tracked'[q] = tracked[q] \/ tracked'[q] = Nothing
  BY <1>2 DEF IInv, Typed, MemoryTyped
<1>7. Typed'
  <2>1. DealTyped' /\ CaseTyped' /\ StepTyped' /\ LifeTyped'
    BY <1>1 DEF IInv, Typed, DealTyped, CaseTyped, StepTyped, LifeTyped
  <2>2. tracked' \in [Positions -> [entry : BOOLEAN, trigger : BOOLEAN]]
    <3>1. Nothing \in [entry : BOOLEAN, trigger : BOOLEAN]
      BY DEF Nothing
    <3>. QED BY <1>2, <3>1 DEF IInv, Typed, MemoryTyped
  <2>3. MemoryTyped'
    BY <1>1, <2>2 DEF IInv, Typed, MemoryTyped
  <2>. QED BY <1>5, <2>1, <2>3 DEF Typed
<1>8. ASSUME NEW q \in Positions PROVE Keeps(q) /\ DealInv(q)' /\ ItemInv(q)'
  <2>1. DealInv(q) /\ ItemInv(q) /\ DealInv(p)
    BY DEF IInv
  <2>2. pos'[q] = IF q = p THEN "ENTRY_FAILED" ELSE pos[q]
    BY <1>1 DEF IInv, Typed, DealTyped
  <2>3. SameEvidence(q) /\ (item'[q].seen => item[q].seen) /\ (item'[q].saved => item[q].saved)
    BY <1>1, <1>4, <1>5 DEF SameEvidence
  <2>4. SameCase(q) /\ (Done(q) => q # p)
    BY <1>1 DEF SameCase, Done
  <2>5. Keeps(q)
    BY <1>1, <2>2, <2>3, <2>4 DEF Keeps
  <2>6. DealInv(q)'
    BY <1>1, <1>6, <2>1, <2>2 DEF DealInv, Backed, Nothing
  <2>7. ItemInv(q)'
    <3>1. q # p => item'[q] = item[q]
      BY <1>5
    <3>2. q = p => pos'[q] = "ENTRY_FAILED"
      BY <2>2
    <3>3. /\ item'[q].needs => Done(q)'
          /\ item'[q].failedOnly => pos'[q] = "ENTRY_FAILED"
          /\ item'[q].patch.status = "FINAL" => pos'[q] = "ENTRY_FAILED"
      BY <2>1, <2>2, <3>1, <3>2 DEF ItemInv, Done
    <3>4. Backed(q, item[q].patch)'
      BY <1>1, <2>1, <2>3 DEF ItemInv, SameEvidence, Backed
    <3>. QED BY <1>1, <2>1, <2>3, <3>3, <3>4 DEF ItemInv, SameEvidence, AllStored
  <2>. QED BY <2>5, <2>6, <2>7
<1>9. Ended'
  BY <1>1 DEF Ended
<1>. QED BY <1>1, <1>7, <1>8, <1>9, Kept DEF IInv, NoFlush

\* The queue and the types of what only other steps change.
LEMMA SameQueue ==
    ASSUME Typed, UNCHANGED <<queue, item, work>>
    PROVE  QueueTyped' /\ ItemTyped' /\ WorkTyped'
<1>1. \A q : Pending(q)' <=> Pending(q)
  BY DEF Pending
<1>. QED BY <1>1 DEF Typed, QueueTyped, ItemTyped, WorkTyped

LEMMA OpensClosesStep == ASSUME IInv, NEW p \in Positions, Opens(p) \/ Closes(p) PROVE IInv' /\ Frozen
<1>1. /\ \/ pos[p] = "OPENING" /\ pos' = [pos EXCEPT ![p] = "OPEN"]
         \/ pos[p] = "OPEN" /\ pos' = [pos EXCEPT ![p] = "CLOSED"]
      /\ halt = "RUNS"
      /\ UNCHANGED <<net, proved, cases, learned, queue, item, tracked, cursor, scanDue, work, step, halt,
                     passes, left, accepted>>
  BY DEF Opens, Closes, memVars, flushVars, lifeVars
<1>2. Typed'
  <2>1. DealTyped' /\ CaseTyped' /\ StepTyped' /\ LifeTyped' /\ MemoryTyped'
    BY <1>1 DEF IInv, Typed, DealTyped, CaseTyped, StepTyped, LifeTyped, MemoryTyped
  <2>. QED BY <1>1, <2>1, SameQueue DEF Typed, IInv
<1>3. ASSUME NEW q \in Positions PROVE Keeps(q) /\ DealInv(q)' /\ ItemInv(q)'
  <2>1. DealInv(q) /\ ItemInv(q)
    BY DEF IInv
  <2>2. \/ pos'[q] = pos[q]
        \/ pos[q] = "OPENING" /\ pos'[q] = "OPEN"
        \/ pos[q] = "OPEN" /\ pos'[q] = "CLOSED"
    BY <1>1 DEF IInv, Typed, DealTyped
  <2>3. Keeps(q)
    BY <1>1, <2>2 DEF Keeps, SameCase, SameEvidence, Done
  <2>. QED BY <1>1, <2>1, <2>2, <2>3 DEF DealInv, ItemInv, Backed, Done, AllStored
<1>4. Ended'
  BY <1>1 DEF Ended
<1>. QED BY <1>1, <1>2, <1>3, <1>4, Kept DEF IInv, NoFlush

LEMMA DropsStep == ASSUME IInv, NEW p \in Positions, Drops(p) PROVE IInv' /\ Frozen
<1>. DEFINE patch == [NoPatch EXCEPT !.trigger = TRUE, !.status = "TRIGGERED"]
            it == Merged(item[p], patch, FALSE)
<1>1. /\ halt = "RUNS" /\ pos[p] = "OPEN" /\ Room(p)
      /\ tracked' = [tracked EXCEPT ![p].trigger = TRUE]
      /\ queue' = IF Pending(p) THEN queue ELSE Append(queue, p)
      /\ item' = [item EXCEPT ![p] = it]
      /\ accepted' = accepted \cup {<<p, "TRIGGER">>}
      /\ UNCHANGED <<pos, net, proved, cases, learned, cursor, scanDue, work, step, halt, passes, left>>
  BY DEF Drops, Enqueue, dealVars, flushVars, lifeVars
<1>2. patch \in Patch /\ ~patch.entry /\ patch.trigger /\ patch.status = "TRIGGERED" /\ item[p] \in Item
  BY DEF NoPatch, Patch, IInv, Typed, ItemTyped
<1>. HIDE DEF patch
<1>3. /\ it \in Item /\ (it.patch.entry <=> item[p].patch.entry) /\ it.patch.trigger
      /\ it.patch.status = "TRIGGERED"
      /\ (it.needs <=> item[p].needs) /\ (it.failedOnly <=> item[p].failedOnly)
      /\ ~it.saved /\ ~it.seen
  <2>1. Revised(it, item[p], patch) /\ (it.needs <=> item[p].needs)
    BY <1>2, MergedFacts
  <2>. QED BY <1>2, <2>1 DEF Revised, Or
<1>. HIDE DEF it
<1>4. QueueTyped' /\ ItemTyped' /\ WorkTyped'
  BY <1>1, <1>3, Revises DEF IInv
<1>5. Typed'
  <2>1. DealTyped' /\ CaseTyped' /\ StepTyped' /\ LifeTyped'
    BY <1>1 DEF IInv, Typed, DealTyped, CaseTyped, StepTyped, LifeTyped
  <2>2. accepted' \in SUBSET (Positions \X {"ENTRY", "TRIGGER"})
    BY <1>1 DEF IInv, Typed, MemoryTyped
  <2>3. tracked' \in [Positions -> [entry : BOOLEAN, trigger : BOOLEAN]]
    BY <1>1 DEF IInv, Typed, MemoryTyped
  <2>4. MemoryTyped'
    BY <1>1, <2>2, <2>3 DEF IInv, Typed, MemoryTyped
  <2>. QED BY <1>4, <2>1, <2>4 DEF Typed
<1>6. ASSUME NEW q \in Positions PROVE Keeps(q) /\ DealInv(q)' /\ ItemInv(q)'
  <2>1. DealInv(q) /\ ItemInv(q)
    BY DEF IInv
  <2>2. /\ <<q, "TRIGGER">> \in accepted => <<q, "TRIGGER">> \in accepted'
        /\ (<<q, "ENTRY">> \in accepted') <=> (<<q, "ENTRY">> \in accepted)
        /\ q # p => ((<<q, "TRIGGER">> \in accepted') <=> (<<q, "TRIGGER">> \in accepted))
        /\ <<p, "TRIGGER">> \in accepted'
    BY <1>1
  <2>3. CASE q = p
    <3>1. item'[q] = it /\ (tracked'[q].entry <=> tracked[q].entry)
      BY <1>1, <2>3 DEF IInv, Typed, ItemTyped, MemoryTyped
    <3>2. Keeps(q)
      BY <1>1, <1>3, <2>2, <2>3, <3>1 DEF Keeps, SameCase, Done
    <3>3. DealInv(q)'
      BY <1>1, <2>1, <2>2, <2>3, <3>1 DEF DealInv, Backed
    <3>. QED BY <1>1, <1>3, <2>1, <2>2, <2>3, <3>1, <3>2, <3>3 DEF ItemInv, Backed, Done, AllStored
  <2>4. CASE q # p
    <3>1. item'[q] = item[q] /\ tracked'[q] = tracked[q]
      BY <1>1, <2>4 DEF IInv, Typed, ItemTyped, MemoryTyped
    <3>2. SameEvidence(q)
      BY <2>2, <2>4, <3>1 DEF SameEvidence
    <3>3. Keeps(q)
      BY <1>1, <2>2, <3>1, <3>2 DEF Keeps, SameCase
    <3>. QED BY <1>1, <2>1, <2>2, <2>4, <3>1, <3>3 DEF DealInv, ItemInv, Backed, Done, AllStored
  <2>. QED BY <2>3, <2>4
<1>7. Ended'
  BY <1>1 DEF Ended
<1>. QED BY <1>1, <1>5, <1>6, <1>7, Kept DEF IInv, NoFlush

LEMMA SettlesStep == ASSUME IInv, NEW p \in Positions, Settles(p) PROVE IInv' /\ Frozen
<1>. DEFINE it == Merged(item[p], NoPatch, TRUE)
<1>1. /\ pos[p] = "CLOSED" /\ net[p] = "UNKNOWN"
      /\ \E n \in {"LOSS", "SMALL"} : net' = [net EXCEPT ![p] = n]
      /\ \E b \in BOOLEAN : proved' = [proved EXCEPT ![p] = b]
      /\ \/ /\ Room(p)
            /\ queue' = IF Pending(p) THEN queue ELSE Append(queue, p)
            /\ item' = [item EXCEPT ![p] = it]
         \/ UNCHANGED <<queue, item>>
      /\ UNCHANGED <<pos, cases, learned, tracked, cursor, scanDue, work, step, halt, passes, left, accepted>>
  BY DEF Settles, Enqueue, flushVars, lifeVars
<1>2. item[p] \in Item
  BY DEF IInv, Typed, ItemTyped
<1>3. /\ it \in Item /\ (it.patch.entry <=> item[p].patch.entry) /\ (it.patch.trigger <=> item[p].patch.trigger)
      /\ it.patch.status = item[p].patch.status
      /\ (it.failedOnly <=> item[p].failedOnly)
      /\ ~it.saved /\ ~it.seen
  <2>1. Revised(it, item[p], NoPatch)
    BY <1>2, NoPatchFacts, MergedFacts
  <2>. QED BY <1>2, <2>1, NoPatchFacts DEF Revised, Or
<1>. HIDE DEF it
<1>4. /\ QueueTyped' /\ ItemTyped' /\ WorkTyped'
      /\ \A q \in Positions : item'[q] = item[q] \/ (q = p /\ item'[q] = it)
  BY <1>1, <1>3, Revises DEF IInv
<1>5. Typed'
  <2>1. CaseTyped' /\ StepTyped' /\ LifeTyped' /\ MemoryTyped'
    BY <1>1 DEF IInv, Typed, CaseTyped, StepTyped, LifeTyped, MemoryTyped
  <2>2. DealTyped'
    BY <1>1 DEF IInv, Typed, DealTyped
  <2>. QED BY <1>4, <2>1, <2>2 DEF Typed
<1>6. ASSUME NEW q \in Positions PROVE Keeps(q) /\ DealInv(q)' /\ ItemInv(q)'
  <2>1. DealInv(q) /\ ItemInv(q)
    BY DEF IInv
  <2>2. q # p => net'[q] = net[q] /\ proved'[q] = proved[q]
    BY <1>1 DEF IInv, Typed, DealTyped
  <2>3. SameEvidence(q) /\ (item'[q].seen => item[q].seen) /\ (item'[q].saved => item[q].saved)
    BY <1>1, <1>3, <1>4 DEF SameEvidence
  <2>4. Keeps(q)
    BY <1>1, <2>2, <2>3 DEF Keeps, SameCase
  <2>5. DealInv(q)'
    BY <1>1, <2>1, <2>2 DEF DealInv, Backed
  <2>6. ItemInv(q)'
    <3>1. item'[q].needs => item[q].needs \/ pos[q] = "CLOSED"
      BY <1>1, <1>4
    <3>2. item'[q].patch.status = item[q].patch.status /\ (item'[q].failedOnly <=> item[q].failedOnly)
      BY <1>3, <1>4
    <3>. QED BY <1>1, <2>1, <2>3, <3>1, <3>2 DEF ItemInv, SameEvidence, Backed, Done, AllStored
  <2>. QED BY <2>4, <2>5, <2>6
<1>7. Ended'
  BY <1>1 DEF IInv, Ended, AllStored
<1>. QED BY <1>1, <1>5, <1>6, <1>7, Kept DEF IInv, NoFlush

LEMMA ResolvesStep == ASSUME IInv, NEW p \in Positions, Resolves(p) PROVE IInv' /\ Frozen
<1>1. /\ proved' = [proved EXCEPT ![p] = TRUE]
      /\ UNCHANGED <<pos, net, cases, learned, queue, item, tracked, cursor, scanDue, work, step, halt,
                     passes, left, accepted>>
  BY DEF Resolves, memVars, flushVars, lifeVars
<1>2. Typed'
  <2>1. DealTyped' /\ CaseTyped' /\ StepTyped' /\ LifeTyped' /\ MemoryTyped'
    BY <1>1 DEF IInv, Typed, DealTyped, CaseTyped, StepTyped, LifeTyped, MemoryTyped
  <2>. QED BY <1>1, <2>1, SameQueue DEF Typed, IInv
<1>3. ASSUME NEW q \in Positions PROVE Keeps(q) /\ DealInv(q)' /\ ItemInv(q)'
  <2>1. DealInv(q) /\ ItemInv(q) /\ (proved[q] => proved'[q])
    BY <1>1 DEF IInv, Typed, DealTyped
  <2>2. Keeps(q)
    BY <1>1, <2>1 DEF Keeps, SameCase, SameEvidence
  <2>. QED BY <1>1, <2>1, <2>2 DEF DealInv, ItemInv, Backed, Done, AllStored
<1>4. Ended'
  BY <1>1 DEF IInv, Ended, AllStored
<1>. QED BY <1>1, <1>2, <1>3, <1>4, Kept DEF IInv, NoFlush

LEMMA TimeStep1 == ASSUME IInv, NEW p \in Positions, RetryDue(p) \/ DeadlinePasses(p) PROVE IInv' /\ Frozen
<1>1. /\ \/ item' = [item EXCEPT ![p].wait = "NOW"] /\ item[p].wait = "RETRY"
         \/ item' = [item EXCEPT ![p].wait = IF @ = "DEADLINE" THEN "NOW" ELSE @]
      /\ \/ UNCHANGED cases
         \/ cases[p].deadline = "AHEAD" /\ cases' = [cases EXCEPT ![p].deadline = "PASSED"]
      /\ UNCHANGED <<pos, net, proved, learned, queue, tracked, cursor, scanDue, work, step, halt,
                     passes, left, accepted>>
  BY DEF RetryDue, DeadlinePasses, dealVars, flushVars, lifeVars
<1>2. ASSUME NEW q \in Positions
      PROVE  /\ item'[q] \in Item /\ item'[q].patch = item[q].patch /\ item'[q].needs = item[q].needs
             /\ item'[q].failedOnly = item[q].failedOnly /\ item'[q].saved = item[q].saved
             /\ item'[q].seen = item[q].seen
             /\ item[q] = NoItem => item'[q] = NoItem
  <2>1. item[q] \in Item /\ item \in [Positions -> Item]
    BY DEF IInv, Typed, ItemTyped
  <2>2. CASE q # p
    BY <1>1, <2>1, <2>2
  <2>3. CASE q = p
    <3>1. CASE item' = [item EXCEPT ![p].wait = "NOW"] /\ item[p].wait = "RETRY"
      <4>1. item'[q] = [item[q] EXCEPT !.wait = "NOW"]
        BY <2>1, <2>3, <3>1
      <4>. QED BY <2>1, <2>3, <3>1, <4>1, NoPatchFacts DEF Item
    <3>2. CASE item' = [item EXCEPT ![p].wait = IF @ = "DEADLINE" THEN "NOW" ELSE @]
      <4>1. item'[q] = [item[q] EXCEPT !.wait = IF item[q].wait = "DEADLINE" THEN "NOW" ELSE item[q].wait]
        BY <2>1, <2>3, <3>2
      <4>2. item[q].wait # "DEADLINE" => item'[q] = item[q]
        BY <2>1, <4>1 DEF Item
      <4>. QED BY <2>1, <4>1, <4>2, NoPatchFacts DEF Item
    <3>. QED BY <1>1, <3>1, <3>2
  <2>. QED BY <2>2, <2>3
<1>3. ASSUME NEW q \in Positions PROVE cases'[q] \in Case /\ SameCase(q)
  <2>1. cases[q] \in Case /\ cases \in [Positions -> Case] /\ CaseInv(q)
    BY DEF IInv, Typed, CaseTyped
  <2>2. CASE cases' = cases
    BY <2>1, <2>2 DEF SameCase
  <2>3. CASE q # p
    BY <1>1, <2>1, <2>3 DEF SameCase
  <2>4. CASE q = p /\ cases[p].deadline = "AHEAD" /\ cases' = [cases EXCEPT ![p].deadline = "PASSED"]
    <3>1. cases'[q] = [cases[q] EXCEPT !.deadline = "PASSED"]
      BY <2>1, <2>4
    <3>2. cases[q].status # "ANALYZED"
      BY <2>1, <2>4 DEF CaseInv
    <3>. QED BY <2>1, <3>1, <3>2 DEF SameCase, Case, Deadlines
  <2>. QED BY <1>1, <2>2, <2>3, <2>4
<1>4. Typed'
  <2>1. DealTyped' /\ StepTyped' /\ LifeTyped' /\ MemoryTyped'
    BY <1>1 DEF IInv, Typed, DealTyped, StepTyped, LifeTyped, MemoryTyped
  <2>2. CaseTyped'
    <3>1. DOMAIN cases' = Positions /\ cases' = [q \in Positions |-> cases'[q]]
      BY <1>1 DEF IInv, Typed, CaseTyped
    <3>. QED BY <1>1, <1>3, <3>1 DEF IInv, Typed, CaseTyped
  <2>3. \A q : Pending(q)' <=> Pending(q)
    BY <1>1 DEF Pending
  <2>4. QueueTyped' /\ WorkTyped'
    BY <1>1, <2>3 DEF IInv, Typed, QueueTyped, WorkTyped
  <2>5. ItemTyped'
    <3>1. item' = [q \in Positions |-> item'[q]]
      BY <1>1 DEF IInv, Typed, ItemTyped
    <3>2. item' \in [Positions -> Item]
      BY <1>2, <3>1
    <3>. QED BY <1>2, <2>3, <3>2 DEF IInv, Typed, ItemTyped
  <2>. QED BY <2>1, <2>2, <2>4, <2>5 DEF Typed
<1>5. ASSUME NEW q \in Positions PROVE Keeps(q) /\ DealInv(q)' /\ ItemInv(q)'
  <2>1. DealInv(q) /\ ItemInv(q)
    BY DEF IInv
  <2>2. SameEvidence(q)
    BY <1>1, <1>2 DEF SameEvidence
  <2>3. Keeps(q)
    BY <1>1, <1>2, <1>3, <2>2 DEF Keeps
  <2>4. DealInv(q)'
    BY <1>1, <2>1 DEF DealInv, Backed
  <2>5. ItemInv(q)'
    BY <1>1, <1>2, <1>3, <2>1 DEF ItemInv, SameCase, Backed, Done, AllStored
  <2>. QED BY <2>3, <2>4, <2>5
<1>6. Ended'
  <2>. SUFFICES ASSUME halt' \in {"SAVED", "DOWN"}, NEW q \in Positions PROVE step' = "IDLE" /\ AllStored(q)'
    BY DEF Ended
  <2>. QED BY <1>1, <1>3 DEF IInv, Ended, AllStored, SameCase
<1>. QED BY <1>1, <1>4, <1>5, <1>6, Kept DEF IInv, NoFlush

LEMMA PassesBound ==
    ASSUME NEW n \in Nat, NEW b \in Nat \ {0}
    PROVE  (n + b - 1) \div b \in 0 .. n
<1>. DEFINE k == (n + b - 1) \div b
<1>1. k \in Int /\ b * k <= n + b - 1 /\ n + b - 1 < b * k + b
  OBVIOUS
<1>. HIDE DEF k
<1>2. k >= 0
  <2>. SUFFICES ASSUME k <= -1 PROVE FALSE
    BY <1>1
  <2>. DEFINE m == -1 - k
  <2>0. m \in Nat
    BY <1>1
  <2>. HIDE DEF m
  <2>2. b * m >= 0
    BY <2>0
  <2>1. b * k <= -b
    BY <1>1, <2>2 DEF m
  <2>. QED BY <1>1, <2>1
<1>3. k <= n
  <2>. SUFFICES ASSUME n + 1 <= k PROVE FALSE
    BY <1>1
  <2>1. b * (n + 1) <= b * k
    BY <1>1
  <2>2. b * (n + 1) = b * n + b /\ b * n >= n
    OBVIOUS
  <2>. QED BY <1>1, <2>1, <2>2
<1>4. k \in 0 .. n
  BY <1>1, <1>2, <1>3
<1>. QED BY <1>4 DEF k

LEMMA WaitingStep == ASSUME IInv, ScanDue \/ Stop \/ StopCounts \/ Start PROVE IInv' /\ Frozen
<1>1. /\ UNCHANGED <<pos, net, proved, cases, learned, queue, item, tracked, cursor, work, step, accepted>>
      /\ scanDue' \in BOOLEAN
      /\ left' \in [entries : Nat, faults : Nat, stops : Nat]
      /\ \/ UNCHANGED <<halt, passes>>
         \/ halt' = "WAITING" /\ UNCHANGED passes
         \/ halt' = "FLUSHING" /\ passes' = (Len(queue) + BatchSize - 1) \div BatchSize
         \/ halt' = "RUNS" /\ UNCHANGED passes
  <2>1. CASE ScanDue
    BY <2>1 DEF ScanDue, dealVars, flushVars, lifeVars, IInv, Typed, LifeTyped
  <2>2. CASE Stop
    BY <2>2, Spent DEF Stop, dealVars, memVars, flushVars, lifeVars, IInv, Typed, MemoryTyped
  <2>3. CASE StopCounts \/ Start
    BY <2>3 DEF StopCounts, Start, dealVars, memVars, flushVars, lifeVars, IInv, Typed, MemoryTyped, LifeTyped
  <2>. QED BY <2>1, <2>2, <2>3
<1>2. Typed'
  <2>1. DealTyped' /\ CaseTyped' /\ StepTyped' /\ MemoryTyped'
    BY <1>1 DEF IInv, Typed, DealTyped, CaseTyped, StepTyped, MemoryTyped
  <2>2. passes' \in 0 .. MaxPending
    <3>1. Len(queue) \in Nat /\ Len(queue) <= MaxPending /\ passes \in 0 .. MaxPending
      BY DEF IInv, Typed, QueueTyped, LifeTyped
    <3>2. (Len(queue) + BatchSize - 1) \div BatchSize \in 0 .. Len(queue)
      BY <3>1, Constants, PassesBound
    <3>. QED BY <1>1, <3>1, <3>2, Constants
  <2>3. LifeTyped'
    BY <1>1, <2>2 DEF IInv, Typed, LifeTyped
  <2>. QED BY <1>1, <2>1, <2>3, SameQueue DEF IInv, Typed
<1>3. ASSUME NEW q \in Positions PROVE Keeps(q) /\ DealInv(q)' /\ ItemInv(q)'
  <2>1. DealInv(q) /\ ItemInv(q)
    BY DEF IInv
  <2>. QED BY <1>1, <2>1 DEF Keeps, SameCase, SameEvidence, DealInv, ItemInv, Backed, Done, AllStored
<1>4. Ended'
  BY <1>1 DEF IInv, Ended, AllStored
<1>. QED BY <1>1, <1>2, <1>3, <1>4, Kept DEF IInv, NoFlush

\* The memory is gone: a process that exits, or is killed.
LEMMA GoneStep == ASSUME IInv, Exits \/ Crash PROVE IInv' /\ Frozen
<1>1. /\ UNCHANGED <<pos, net, proved, cases, learned>>
      /\ queue' = <<>> /\ item' = [p \in Positions |-> NoItem] /\ tracked' = [p \in Positions |-> Nothing]
      /\ cursor' = 0 /\ scanDue' = TRUE /\ work' = <<>> /\ step' = "IDLE" /\ halt' = "DOWN" /\ passes' = 0
  BY DEF Exits, Crash, Gone, dealVars
<1>2. left' \in [entries : Nat, faults : Nat, stops : Nat]
  BY Spent DEF Exits, Crash, IInv, Typed, LifeTyped
<1>3. accepted' \subseteq accepted /\ \A p \in Positions : AllStored(p)'
  <2>1. CASE Exits
    BY <1>1, <2>1 DEF Exits, IInv, Ended, AllStored
  <2>2. CASE Crash
    <3>1. accepted' = {e \in accepted : Stored(e)}
      BY <2>2 DEF Crash
    <3>2. ASSUME NEW p \in Positions PROVE AllStored(p)'
      <4>1. <<p, "ENTRY">> \in accepted' => cases[p].entry
        BY <3>1 DEF Stored
      <4>2. <<p, "TRIGGER">> \in accepted' => cases[p].trigger
        BY <3>1 DEF Stored
      <4>. QED BY <1>1, <4>1, <4>2 DEF AllStored
    <3>. QED BY <3>1, <3>2
  <2>. QED BY <2>1, <2>2
<1>4. Typed'
  <2>1. DealTyped' /\ CaseTyped' /\ StepTyped'
    BY <1>1 DEF IInv, Typed, DealTyped, CaseTyped, StepTyped
  <2>2. MemoryTyped'
    BY <1>1, <1>3, Constants DEF IInv, Typed, MemoryTyped, Nothing
  <2>3. QueueTyped' /\ WorkTyped' /\ LifeTyped'
    BY <1>1, <1>2, Constants DEF QueueTyped, WorkTyped, LifeTyped
  <2>4. ItemTyped'
    BY <1>1, NoPatchFacts DEF ItemTyped
  <2>. QED BY <2>1, <2>2, <2>3, <2>4 DEF Typed
<1>5. ASSUME NEW q \in Positions PROVE DealInv(q)' /\ ItemInv(q)' /\ CaseInv(q)'
  <2>1. DealInv(q) /\ CaseInv(q) /\ AllStored(q)'
    BY <1>3 DEF IInv
  <2>2. item'[q] = NoItem /\ tracked'[q] = Nothing
    BY <1>1
  <2>3. DealInv(q)'
    BY <1>1, <1>3, <2>1, <2>2 DEF DealInv, Backed, Nothing
  <2>4. ItemInv(q)'
    BY <1>1, <2>1, <2>2, NoPatchFacts DEF ItemInv, Backed, AllStored
  <2>5. CaseInv(q)'
    BY <1>1, <2>1 DEF CaseInv, Done, Verified
  <2>. QED BY <2>3, <2>4, <2>5
<1>6. AtStep' /\ Ended' /\ LearnedIsOnRecord' /\ Frozen
  BY <1>1, <1>3 DEF AtStep, Ended, LearnedIsOnRecord, IInv, Frozen
<1>7. (\A i \in DOMAIN work : CopyInv(work[i]))'
  BY <1>1
<1>. QED BY <1>4, <1>5, <1>6, <1>7 DEF IInv

-----------------------------------------------------------------------------
(* The recovery scan, and the copies of a flush *)

LEMMA LastExists ==
    ASSUME NEW S \in SUBSET Positions, S # {}
    PROVE  \E p \in S : \A q \in S : q <= p
<1>1. NumPositions \in Nat /\ Positions = 1 .. NumPositions
  BY Constants
<1>. DEFINE T == {NumPositions - p : p \in S}
<1>2. T \subseteq Nat /\ T # {}
  <2>1. \A p \in S : NumPositions - p \in Nat
    BY <1>1
  <2>. QED BY <2>1
<1>3. PICK k \in T : \A j \in T : ~(<<j, k>> \in OpToRel(<, Nat))
  BY <1>2, WFMin, NatLessThanWellFounded
<1>4. PICK p \in S : k = NumPositions - p
  BY <1>3
<1>5. ASSUME NEW q \in S PROVE q <= p
  <2>1. NumPositions - q \in T /\ k \in T /\ NumPositions - q \in Nat /\ k \in Nat
    BY <1>2, <1>3
  <2>2. ~(NumPositions - q < k)
    BY <1>3, <2>1 DEF OpToRel
  <2>. QED BY <1>1, <1>4, <2>1, <2>2
<1>. QED BY <1>4, <1>5

LEMMA PageFacts ==
    ASSUME Typed, Len(queue) < MaxPending
    PROVE  /\ Limit \in Nat \ {0} /\ Limit <= MaxPending - Len(queue)
           /\ Candidates \subseteq Positions /\ Page \subseteq Candidates
           /\ PageIsFull => Page # {}
<1>1. Limit \in Nat \ {0} /\ Limit <= MaxPending - Len(queue)
  BY Constants DEF Limit, Typed, QueueTyped
<1>2. Candidates \subseteq Positions /\ Page \subseteq Candidates
  BY DEF Candidates, Page
<1>3. PageIsFull => Page # {}
  BY <1>1, FS_EmptySet DEF PageIsFull
<1>. QED BY <1>1, <1>2, <1>3

LEMMA RecoveredFits ==
    ASSUME Typed, Len(queue) < MaxPending, NEW new \in ById(Recovered)
    PROVE  /\ new \in Seq(Recovered) /\ Len(new) \in Nat /\ DOMAIN new = 1 .. Len(new)
           /\ Len(queue) + Len(new) <= MaxPending
           /\ \A i, j \in DOMAIN new : new[i] = new[j] => i = j
           /\ \A p \in Recovered : \E i \in DOMAIN new : new[i] = p
           /\ \A i \in DOMAIN new : new[i] \in Recovered
<1>1. Recovered \in SUBSET Positions /\ Recovered \subseteq Candidates /\ Recovered \subseteq Page
  BY PageFacts DEF Recovered
<1>2. /\ new \in Seq(Recovered) /\ Len(new) \in Nat /\ DOMAIN new = 1 .. Len(new)
      /\ \A p \in Recovered : \E i \in DOMAIN new : new[i] = p
      /\ \A i \in DOMAIN new : new[i] \in Recovered
  BY <1>1, Listed
<1>3. \A i, j \in DOMAIN new : new[i] = new[j] => i = j
  BY <1>1, ListedOnce DEF Typed
<1>4. Len(new) <= Limit
  <2>. SUFFICES ASSUME Len(new) # 0 PROVE Len(new) <= Limit
    BY <1>2, PageFacts
  <2>. DEFINE last == new[Len(new)]
              B == {q \in Candidates : q < last}
  <2>1. last \in Recovered /\ last \in Page
    BY <1>1, <1>2
  <2>2. \A i \in 1 .. Len(new) - 1 : new[i] \in B
    <3>1. \A i, j \in DOMAIN new : i < j => new[i] < new[j]
      BY DEF ById
    <3>2. \A i \in 1 .. Len(new) - 1 : i \in DOMAIN new /\ i < Len(new) /\ Len(new) \in DOMAIN new
      BY <1>2
    <3>. QED BY <1>1, <1>2, <3>1, <3>2
  <2>3. Cardinality(B) < Limit
    BY <2>1 DEF Page
  <2>4. B \in SUBSET Candidates /\ Candidates \in SUBSET Positions /\ new \in Seq(Candidates)
    <3>1. new \in [1 .. Len(new) -> Candidates]
      BY <1>1, <1>2
    <3>. QED BY <1>2, <3>1, PageFacts
  <2>. HIDE DEF B, last
  <2>5. Len(new) - 1 <= Cardinality(B)
    BY <1>2, <1>3, <2>2, <2>4, FewBefore
  <2>6. Cardinality(B) \in Nat
    BY <2>4, FiniteParts
  <2>. QED BY <1>2, <2>3, <2>5, <2>6, PageFacts
<1>5. Len(queue) \in Nat
  BY DEF Typed, QueueTyped
<1>. QED BY <1>2, <1>3, <1>4, <1>5, PageFacts, Constants

LEMMA BatchFacts ==
    ASSUME Typed, NEW forced, NEW b \in InLine(Batch(forced))
    PROVE  /\ Batch(forced) \subseteq Queued
           /\ Len(b) \in Nat /\ DOMAIN b = 1 .. Len(b) /\ Len(b) <= BatchSize
           /\ \A i, j \in DOMAIN b : b[i] = b[j] => i = j
           /\ \A p \in Batch(forced) : \E i \in DOMAIN b : b[i] = p
           /\ \A i \in DOMAIN b : b[i] \in Batch(forced)
           /\ (b = <<>>) <=> (Batch(forced) = {})
<1>1. Batch(forced) \subseteq Due(forced) /\ Due(forced) \subseteq Queued /\ Queued \subseteq Positions
  BY DEF Batch, Due, Queued
<1>2. /\ b \in Seq(Batch(forced)) /\ Len(b) \in Nat /\ DOMAIN b = 1 .. Len(b)
      /\ \A p \in Batch(forced) : \E i \in DOMAIN b : b[i] = p
      /\ \A i \in DOMAIN b : b[i] \in Batch(forced)
  BY <1>1, Listed
<1>3. \A i, j \in DOMAIN b : b[i] = b[j] => i = j
  BY <1>1, ListedOnce DEF Typed
<1>4. Len(b) <= BatchSize
  <2>. SUFFICES ASSUME Len(b) # 0 PROVE Len(b) <= BatchSize
    BY <1>2, Constants
  <2>. DEFINE last == b[Len(b)]
              B == {q \in Due(forced) : Place(q) < Place(last)}
  <2>1. last \in Batch(forced)
    BY <1>2
  <2>2. \A i \in 1 .. Len(b) - 1 : b[i] \in B
    <3>1. \A i, j \in DOMAIN b : i < j => Place(b[i]) < Place(b[j])
      BY DEF InLine
    <3>2. \A i \in 1 .. Len(b) - 1 : i \in DOMAIN b /\ i < Len(b) /\ Len(b) \in DOMAIN b
      BY <1>2
    <3>. QED BY <1>1, <1>2, <3>1, <3>2
  <2>3. Cardinality(B) < BatchSize
    BY <2>1 DEF Batch
  <2>4. B \in SUBSET Due(forced) /\ Due(forced) \in SUBSET Positions /\ b \in Seq(Due(forced))
    <3>1. b \in [1 .. Len(b) -> Due(forced)]
      BY <1>1, <1>2
    <3>. QED BY <1>1, <1>2, <3>1
  <2>. HIDE DEF B, last
  <2>5. Len(b) - 1 <= Cardinality(B)
    BY <1>2, <1>3, <2>2, <2>4, FewBefore
  <2>6. Cardinality(B) \in Nat
    BY <1>1, <2>4, FiniteParts
  <2>. QED BY <1>2, <2>3, <2>5, <2>6, Constants
<1>5. (b = <<>>) <=> (Batch(forced) = {})
  BY <1>2
<1>. QED BY <1>1, <1>2, <1>3, <1>4, <1>5

LEMMA RecoveredIsDone == ASSUME IInv, NEW p \in Recovered PROVE p \in Positions /\ Done(p) /\ ~Pending(p) /\ item[p] = NoItem
<1>1. p \in Positions /\ Unfinished(p) /\ ~Pending(p)
  BY DEF Recovered, Page, Candidates
<1>2. DealInv(p) /\ item[p] = NoItem
  BY <1>1 DEF IInv, Typed, ItemTyped
<1>. QED BY <1>1, <1>2 DEF Unfinished, Done, DealInv

LEMMA Appended ==
    ASSUME Typed, Len(queue) < MaxPending, NEW new \in ById(Recovered), queue' = queue \o new
    PROVE  /\ QueueTyped' /\ \A q \in Positions : Pending(q) => Pending(q)'
           /\ \A q \in Recovered : Pending(q)'
<1>. DEFINE n == Len(queue)
<1>1. /\ queue \in Seq(Positions) /\ n \in Nat /\ DOMAIN queue = 1 .. n
      /\ \A i, j \in DOMAIN queue : queue[i] = queue[j] => i = j
  BY DEF Typed, QueueTyped
<1>2. /\ new \in Seq(Recovered) /\ Len(new) \in Nat /\ DOMAIN new = 1 .. Len(new) /\ n + Len(new) <= MaxPending
      /\ \A i, j \in DOMAIN new : new[i] = new[j] => i = j
      /\ \A p \in Recovered : \E i \in DOMAIN new : new[i] = p
      /\ \A i \in DOMAIN new : new[i] \in Recovered
  BY RecoveredFits
<1>3. Recovered \subseteq Positions /\ \A p \in Recovered : \A i \in DOMAIN queue : queue[i] # p
  BY DEF Recovered, Page, Candidates, Pending
<1>4. new \in Seq(Positions)
  <2>1. new \in [1 .. Len(new) -> Positions]
    BY <1>2, <1>3
  <2>. QED BY <1>2, <2>1
<1>5. /\ queue' \in Seq(Positions) /\ Len(queue') = n + Len(new) /\ DOMAIN queue' = 1 .. n + Len(new)
      /\ \A i \in 1 .. n : queue'[i] = queue[i]
      /\ \A i \in 1 .. Len(new) : queue'[n + i] = new[i]
  BY <1>1, <1>2, <1>4
<1>. HIDE DEF n
<1>6. \A i \in n + 1 .. n + Len(new) : i - n \in DOMAIN new /\ queue'[i] = new[i - n]
  <2>. SUFFICES ASSUME NEW i \in n + 1 .. n + Len(new) PROVE i - n \in DOMAIN new /\ queue'[i] = new[i - n]
    OBVIOUS
  <2>1. i - n \in 1 .. Len(new) /\ n + (i - n) = i
    BY <1>1, <1>2
  <2>. QED BY <1>2, <1>5, <2>1
<1>7. ASSUME NEW i \in DOMAIN queue', NEW j \in DOMAIN queue', queue'[i] = queue'[j] PROVE i = j
  <2>1. (i \in 1 .. n \/ i \in n + 1 .. n + Len(new)) /\ (j \in 1 .. n \/ j \in n + 1 .. n + Len(new))
    BY <1>1, <1>2, <1>5
  <2>2. CASE i \in 1 .. n /\ j \in 1 .. n
    BY <1>1, <1>5, <1>7, <2>2
  <2>3. CASE i \in 1 .. n /\ j \in n + 1 .. n + Len(new)
    BY <1>1, <1>2, <1>3, <1>5, <1>6, <1>7, <2>3
  <2>4. CASE i \in n + 1 .. n + Len(new) /\ j \in 1 .. n
    BY <1>1, <1>2, <1>3, <1>5, <1>6, <1>7, <2>4
  <2>5. CASE i \in n + 1 .. n + Len(new) /\ j \in n + 1 .. n + Len(new)
    <3>1. i - n = j - n
      BY <1>2, <1>6, <1>7, <2>5
    <3>. QED BY <1>1, <1>2, <2>5, <3>1
  <2>. QED BY <2>1, <2>2, <2>3, <2>4, <2>5
<1>8. QueueTyped'
  BY <1>2, <1>5, <1>7 DEF QueueTyped
<1>9. \A q \in Positions : Pending(q) => Pending(q)'
  BY <1>1, <1>2, <1>5 DEF Pending
<1>10. \A q \in Recovered : Pending(q)'
  <2>. SUFFICES ASSUME NEW q \in Recovered PROVE \E i \in DOMAIN queue' : queue'[i] = q
    BY DEF Pending
  <2>1. PICK i \in DOMAIN new : new[i] = q
    BY <1>2
  <2>2. n + i \in DOMAIN queue' /\ queue'[n + i] = q
    BY <1>1, <1>2, <1>5, <2>1
  <2>. QED BY <2>2
<1>. QED BY <1>8, <1>9, <1>10

LEMMA ScanStep == ASSUME IInv, Scan PROVE IInv' /\ Frozen
<1>1. /\ step = "IDLE" /\ halt = "RUNS" /\ Len(queue) < MaxPending
      /\ step' = "SCANNED" /\ scanDue' = FALSE
      /\ UNCHANGED <<pos, net, proved, cases, learned, tracked, work, halt, passes, accepted>>
  BY DEF Scan, ScanBegins, dealVars
<1>2. left' \in [entries : Nat, faults : Nat, stops : Nat]
  BY Spent DEF Scan, IInv, Typed, LifeTyped
<1>3. \/ /\ \E new \in ById(Recovered) : queue' = queue \o new
         /\ item' = [p \in Positions |-> IF p \in Recovered THEN Merged(item[p], NoPatch, TRUE) ELSE item[p]]
         /\ cursor' = IF PageIsFull THEN CHOOSE p \in Page : \A q \in Page : q <= p ELSE 0
      \/ UNCHANGED <<queue, item, cursor>>
  BY DEF Scan
<1>4. work = <<>> /\ work' = <<>>
  BY <1>1 DEF IInv, Typed, StepTyped
<1>5. cursor' \in 0 .. NumPositions
  <2>1. CASE cursor' = IF PageIsFull THEN CHOOSE p \in Page : \A q \in Page : q <= p ELSE 0
    <3>1. CASE PageIsFull
      <4>1. Page \in SUBSET Positions /\ Page # {}
        BY <1>1, <3>1, PageFacts DEF IInv
      <4>2. cursor' \in Page
        BY <2>1, <3>1, <4>1, LastExists
      <4>. QED BY <4>1, <4>2, Constants
    <3>. QED BY <2>1, <3>1, Constants
  <2>. QED BY <1>3, <2>1 DEF IInv, Typed, MemoryTyped
<1>6. ASSUME NEW q \in Positions
      PROVE  \/ item'[q] = item[q]
             \/ /\ q \in Recovered /\ item'[q] \in Item /\ SameEvidence(q)
                /\ item'[q].patch.status = item[q].patch.status /\ (item'[q].failedOnly <=> item[q].failedOnly)
                /\ ~item'[q].saved /\ ~item'[q].seen
  <2>1. CASE item' = [p \in Positions |-> IF p \in Recovered THEN Merged(item[p], NoPatch, TRUE) ELSE item[p]]
    <3>1. CASE q \in Recovered
      <4>1. item[q] \in Item /\ item'[q] = Merged(item[q], NoPatch, TRUE)
        BY <2>1, <3>1 DEF IInv, Typed, ItemTyped
      <4>2. Revised(item'[q], item[q], NoPatch)
        <5>1. NoPatch \in Patch
          BY NoPatchFacts
        <5>. QED BY <4>1, <5>1, MergedFacts
      <4>. QED BY <1>1, <3>1, <4>2, NoPatchFacts DEF Revised, SameEvidence, Or
    <3>. QED BY <2>1, <3>1
  <2>. QED BY <1>3, <2>1
<1>7. /\ QueueTyped'
      /\ \A q \in Positions : Pending(q) => Pending(q)'
      /\ \A q \in Positions : item'[q] # item[q] => Pending(q)'
  <2>1. CASE UNCHANGED <<queue, item>>
    BY <2>1 DEF IInv, Typed, QueueTyped, Pending
  <2>2. ASSUME NEW new \in ById(Recovered), queue' = queue \o new
        PROVE  /\ QueueTyped' /\ \A q \in Positions : Pending(q) => Pending(q)'
               /\ \A q \in Recovered : Pending(q)'
    BY <1>1, <2>2, Appended DEF IInv
  <2>. QED BY <1>3, <1>6, <2>1, <2>2
<1>8. Typed'
  <2>1. DealTyped' /\ CaseTyped' /\ StepTyped' /\ LifeTyped'
    BY <1>1, <1>2, <1>4 DEF IInv, Typed, DealTyped, CaseTyped, StepTyped, LifeTyped
  <2>2. MemoryTyped'
    BY <1>1, <1>5 DEF IInv, Typed, MemoryTyped
  <2>3. WorkTyped'
    BY <1>1, <1>7, WorkKept DEF IInv
  <2>4. item' \in [Positions -> Item]
    <3>1. item' = [q \in Positions |-> item'[q]]
      BY <1>3 DEF IInv, Typed, ItemTyped
    <3>2. \A q \in Positions : item'[q] \in Item
      BY <1>6 DEF IInv, Typed, ItemTyped
    <3>. QED BY <3>1, <3>2
  <2>5. ItemTyped'
    BY <1>7, <2>4 DEF IInv, Typed, ItemTyped
  <2>. QED BY <1>7, <2>1, <2>2, <2>3, <2>5 DEF Typed
<1>9. ASSUME NEW q \in Positions PROVE Keeps(q) /\ DealInv(q)' /\ ItemInv(q)'
  <2>1. DealInv(q) /\ ItemInv(q) /\ (q \in Recovered => Done(q))
    BY RecoveredIsDone DEF IInv
  <2>2. SameEvidence(q) /\ (item'[q].seen => item[q].seen)
    BY <1>1, <1>6 DEF SameEvidence
  <2>3. Keeps(q)
    BY <1>1, <2>2 DEF Keeps, SameCase
  <2>4. DealInv(q)'
    BY <1>1, <2>1 DEF DealInv, Backed
  <2>5. ItemInv(q)'
    <3>1. /\ item'[q].needs => Done(q)
          /\ item'[q].failedOnly => item[q].failedOnly
          /\ item'[q].patch.status = item[q].patch.status
          /\ item'[q].saved => item[q].saved
      BY <1>6, <2>1 DEF ItemInv
    <3>. QED BY <1>1, <2>1, <2>2, <3>1 DEF ItemInv, SameEvidence, Backed, Done, AllStored
  <2>. QED BY <2>3, <2>4, <2>5
<1>10. Ended'
  BY <1>1 DEF Ended
<1>. QED BY <1>1, <1>4, <1>8, <1>9, <1>10, Kept DEF IInv, NoFlush

LEMMA CasesKept ==
    ASSUME IInv, UNCHANGED <<pos, net, proved, cases, learned, accepted>>
    PROVE  /\ \A q \in Positions : CaseInv(q)' /\ (DealInv(q)' <=> Backed(q, tracked[q])')
           /\ LearnedIsOnRecord' /\ Frozen
<1>1. ASSUME NEW q \in Positions PROVE CaseInv(q)' /\ (DealInv(q)' <=> Backed(q, tracked[q])')
  <2>1. CaseInv(q) /\ DealInv(q)
    BY DEF IInv
  <2>2. CaseInv(q)'
    BY <2>1 DEF CaseInv, Done, AllStored, Verified
  <2>3. DealInv(q)' <=> Backed(q, tracked[q])'
    BY <2>1 DEF DealInv
  <2>. QED BY <2>2, <2>3
<1>2. LearnedIsOnRecord' /\ Frozen
  BY DEF IInv, LearnedIsOnRecord, Frozen
<1>. QED BY <1>1, <1>2

LEMMA BeginStep ==
    ASSUME IInv, step \in {"IDLE", "SCANNED"}, NEW forced, Begin(forced),
           halt \notin {"SAVED", "DOWN"}, UNCHANGED <<halt, left>>, passes' \in 0 .. MaxPending
    PROVE  IInv' /\ Frozen
<1>1. PICK b \in InLine(Batch(forced)) : work' = [i \in DOMAIN b |-> Copy(b[i])]
  BY DEF Begin
<1>2. /\ step' = IF Batch(forced) = {} THEN "IDLE" ELSE "SAVE"
      /\ item' = [p \in Positions |-> [item[p] EXCEPT !.seen = p \in Batch(forced)]]
      /\ UNCHANGED <<pos, net, proved, cases, learned, queue, tracked, cursor, scanDue, accepted>>
  BY DEF Begin, dealVars
<1>3. /\ Batch(forced) \subseteq Queued /\ Queued \subseteq Positions
      /\ Len(b) \in Nat /\ DOMAIN b = 1 .. Len(b) /\ Len(b) <= BatchSize
      /\ \A i, j \in DOMAIN b : b[i] = b[j] => i = j
      /\ \A i \in DOMAIN b : b[i] \in Batch(forced)
      /\ (b = <<>>) <=> (Batch(forced) = {})
  BY BatchFacts DEF IInv, Queued
<1>4. ASSUME NEW q \in Positions
      PROVE  /\ item'[q] \in Item /\ item'[q].patch = item[q].patch /\ item'[q].needs = item[q].needs
             /\ item'[q].failedOnly = item[q].failedOnly /\ item'[q].saved = item[q].saved
             /\ item[q] = NoItem /\ ~Pending(q) => item'[q] = NoItem
  <2>1. item[q] \in Item /\ item'[q] = [item[q] EXCEPT !.seen = q \in Batch(forced)]
    BY <1>2 DEF IInv, Typed, ItemTyped
  <2>2. (q \in Batch(forced)) \in BOOLEAN /\ (~Pending(q) => q \notin Batch(forced))
    BY <1>3 DEF Queued
  <2>3. item[q] = NoItem /\ ~Pending(q) => item'[q] = NoItem
    <3>. SUFFICES ASSUME item[q] = NoItem, ~Pending(q) PROVE item'[q] = NoItem
      OBVIOUS
    <3>1. (q \in Batch(forced)) = FALSE
      BY <2>2
    <3>2. item'[q] = [NoItem EXCEPT !.seen = FALSE]
      BY <2>1, <3>1
    <3>. QED BY <3>2 DEF NoItem
  <2>. QED BY <2>1, <2>2, <2>3 DEF Item
<1>5. ASSUME NEW i \in DOMAIN b PROVE Copy(b[i]) \in ItemsOfFlush /\ b[i] \in Positions /\ Pending(b[i])
  <2>1. b[i] \in Positions /\ Pending(b[i])
    BY <1>3 DEF Queued
  <2>2. item[b[i]] \in Item
    BY <2>1 DEF IInv, Typed, ItemTyped
  <2>. QED BY <2>1, <2>2 DEF Copy, ItemsOfFlush, Item
<1>6. Typed'
  <2>1. DealTyped' /\ CaseTyped' /\ LifeTyped' /\ MemoryTyped'
    BY <1>2 DEF IInv, Typed, DealTyped, CaseTyped, LifeTyped, MemoryTyped
  <2>2. \A q : Pending(q)' <=> Pending(q)
    BY <1>2 DEF Pending
  <2>3. QueueTyped'
    BY <1>2 DEF IInv, Typed, QueueTyped
  <2>4. ItemTyped'
    <3>1. item' \in [Positions -> Item]
      BY <1>2, <1>4
    <3>. QED BY <1>4, <2>2, <3>1 DEF IInv, Typed, ItemTyped
  <2>5. work' \in Seq(ItemsOfFlush) /\ Len(work') = Len(b)
    <3>1. work' \in [1 .. Len(b) -> ItemsOfFlush]
      BY <1>1, <1>3, <1>5
    <3>. QED BY <1>3, <3>1
  <2>6. WorkTyped'
    BY <1>1, <1>3, <1>5, <2>2, <2>5 DEF WorkTyped, Copy
  <2>7. StepTyped'
    <3>1. (work' = <<>>) <=> (b = <<>>)
      BY <1>3, <2>5
    <3>. QED BY <1>2, <1>3, <3>1 DEF StepTyped
  <2>. QED BY <2>1, <2>3, <2>4, <2>6, <2>7 DEF Typed
<1>7. ASSUME NEW q \in Positions PROVE DealInv(q)' /\ ItemInv(q)' /\ CaseInv(q)'
  <2>1. DealInv(q) /\ ItemInv(q)
    BY DEF IInv
  <2>2. DealInv(q)' /\ CaseInv(q)'
    BY <1>2, <2>1, CasesKept DEF DealInv, Backed
  <2>. QED BY <1>2, <1>4, <2>1, <2>2 DEF ItemInv, Backed, Done, AllStored
<1>8. ASSUME NEW i \in DOMAIN work' PROVE CopyInv(work[i])'
  <2>1. i \in DOMAIN b /\ b[i] \in Positions
    BY <1>1, <1>5
  <2>2. work'[i] = Copy(b[i]) /\ ItemInv(b[i]) /\ item'[b[i]].patch = item[b[i]].patch
    BY <1>1, <1>4, <2>1 DEF IInv
  <2>3. /\ work'[i].id = b[i] /\ work'[i].patch = item[b[i]].patch /\ work'[i].needs = item[b[i]].needs
        /\ work'[i].failedOnly = item[b[i]].failedOnly
    BY <2>2 DEF Copy
  <2>. QED BY <1>2, <2>2, <2>3 DEF CopyInv, ItemInv, Backed, Done, AsNew
<1>9. AtStep' /\ Ended'
  BY <1>2 DEF AtStep, Ended
<1>. QED BY <1>2, <1>6, <1>7, <1>8, <1>9, CasesKept DEF IInv

LEMMA FlushBeginsStep == ASSUME IInv, FlushBegins \/ StopFlushes PROVE IInv' /\ Frozen
<1>1. CASE FlushBegins
  <2>1. step \in {"IDLE", "SCANNED"} /\ Begin(FALSE) /\ UNCHANGED <<halt, passes, left>>
    BY <1>1 DEF FlushBegins, lifeVars
  <2>2. halt \notin {"SAVED", "DOWN"}
    BY <1>1 DEF FlushBegins, IInv, Ended
  <2>3. passes' \in 0 .. MaxPending
    BY <2>1 DEF IInv, Typed, LifeTyped
  <2>. QED BY <2>1, <2>2, <2>3, BeginStep
<1>2. CASE StopFlushes
  <2>1. step = "IDLE" /\ halt = "FLUSHING" /\ Begin(TRUE) /\ UNCHANGED <<halt, left>>
        /\ passes > 0 /\ passes' = passes - 1
    BY <1>2 DEF StopFlushes
  <2>2. passes' \in 0 .. MaxPending
    BY <2>1, Constants DEF IInv, Typed, LifeTyped
  <2>. QED BY <2>1, <2>2, BeginStep
<1>. QED BY <1>1, <1>2

LEMMA StopEndsStep == ASSUME IInv, StopEnds PROVE IInv' /\ Frozen
<1>. DEFINE S == {p \in Queued : ~item[p].saved}
<1>1. /\ halt = "FLUSHING" /\ step = "IDLE" /\ queue' \in InLine(S)
      /\ item' = [p \in Positions |-> IF item[p].saved THEN NoItem ELSE item[p]]
      /\ halt' = (IF queue' = <<>> THEN "SAVED" ELSE "FAILED") /\ passes' = 0
      /\ UNCHANGED <<pos, net, proved, cases, learned, tracked, cursor, scanDue, work, step, left, accepted>>
  BY DEF StopEnds, dealVars, flushVars
<1>2. /\ queue' \in Seq(Positions) /\ Len(queue') <= Len(queue)
      /\ \A i, j \in DOMAIN queue' : queue'[i] = queue'[j] => i = j
      /\ \A q : (\E i \in DOMAIN queue' : queue'[i] = q) <=> q \in S
  BY <1>1, QueueShrinks DEF IInv
<1>3. \A q \in Positions : Pending(q)' <=> Pending(q) /\ ~item[q].saved
  BY <1>2 DEF Pending, Queued
<1>4. work = <<>> /\ work' = <<>>
  BY <1>1 DEF IInv, Typed, StepTyped
<1>5. Typed'
  <2>1. DealTyped' /\ CaseTyped' /\ StepTyped' /\ MemoryTyped'
    BY <1>1 DEF IInv, Typed, DealTyped, CaseTyped, StepTyped, MemoryTyped
  <2>2. LifeTyped'
    BY <1>1, Constants DEF IInv, Typed, LifeTyped
  <2>3. Len(queue') \in Nat /\ Len(queue) \in Nat /\ Len(queue) <= MaxPending
    BY <1>2 DEF IInv, Typed, QueueTyped
  <2>4. QueueTyped'
    BY <1>2, <2>3, Constants DEF QueueTyped
  <2>5. item' \in [Positions -> Item]
    BY <1>1, NoPatchFacts DEF IInv, Typed, ItemTyped
  <2>6. ItemTyped'
    BY <1>1, <1>3, <2>5 DEF IInv, Typed, ItemTyped
  <2>7. WorkTyped'
    BY <1>4, Constants DEF WorkTyped
  <2>. QED BY <2>1, <2>2, <2>4, <2>6, <2>7 DEF Typed
<1>6. ASSUME NEW q \in Positions PROVE DealInv(q)' /\ ItemInv(q)' /\ CaseInv(q)'
  <2>1. DealInv(q) /\ ItemInv(q) /\ item'[q] = IF item[q].saved THEN NoItem ELSE item[q]
    BY <1>1 DEF IInv
  <2>2. DealInv(q)' /\ CaseInv(q)'
    BY <1>1, <2>1, CasesKept DEF DealInv, Backed
  <2>. QED BY <1>1, <2>1, <2>2, NoPatchFacts DEF ItemInv, Backed, Done, AllStored
<1>7. Ended'
  <2>. SUFFICES ASSUME queue' = <<>>, NEW q \in Positions PROVE AllStored(q)'
    BY <1>1 DEF Ended
  <2>1. ~Pending(q)'
    BY DEF Pending
  <2>2. ItemInv(q) /\ (item[q].saved \/ item[q] = NoItem)
    BY <1>3, <2>1 DEF IInv, Typed, ItemTyped
  <2>. QED BY <1>1, <2>2, NoPatchFacts DEF ItemInv, AllStored
<1>8. AtStep' /\ (\A i \in DOMAIN work : CopyInv(work[i]))'
  BY <1>1, <1>4 DEF AtStep
<1>. QED BY <1>1, <1>5, <1>6, <1>7, <1>8, CasesKept DEF IInv

-----------------------------------------------------------------------------
(* The flush *)

Flushing == step \notin {"IDLE", "SCANNED"}

\* The first item is over: it is concluded, waits or failed, and the next is taken.
LEMMA GoesOnStep ==
    ASSUME IInv, Flushing, NEW d \in Positions, d = Id, NEW rest \in {Tail(work), <<>>}, GoesOn(rest),
           UNCHANGED <<pos, net, proved, cases, learned, cursor, scanDue, halt, passes, accepted>>,
           left' \in [entries : Nat, faults : Nat, stops : Nat],
           tracked' \in [Positions -> [entry : BOOLEAN, trigger : BOOLEAN]],
           \A q \in Positions : tracked'[q] \in {tracked[q], Nothing},
           QueueTyped', item' \in [Positions -> Item],
           Pending(d)' \/ item'[d] = NoItem,
           \A q \in Positions \ {d} : item'[q] = item[q] /\ (Pending(q)' <=> Pending(q)),
           ItemInv(d)'
    PROVE  IInv' /\ Frozen
<1>1. /\ work' = rest /\ step' = IF rest = <<>> THEN "IDLE" ELSE "SAVE"
      /\ d = work[1].id /\ 1 \in DOMAIN work /\ work # <<>>
      /\ Len(Tail(work)) = Len(work) - 1 /\ Len(work) \in Nat
      /\ Tail(work) \in Seq(ItemsOfFlush) /\ DOMAIN work = 1 .. Len(work)
      /\ \A i \in DOMAIN Tail(work) : i + 1 \in DOMAIN work /\ Tail(work)[i] = work[i + 1]
  BY First DEF GoesOn, IInv, Flushing
<1>2. ASSUME NEW i \in DOMAIN work'
      PROVE  /\ i \in Nat /\ i + 1 \in DOMAIN work /\ work'[i] = work[i + 1]
             /\ work'[i].id \in Positions \ {d}
  <2>1. work' = Tail(work)
    BY <1>1, <1>2
  <2>2. i \in Nat /\ i # 0 /\ i + 1 \in DOMAIN work /\ work'[i] = work[i + 1]
    BY <1>1, <1>2, <2>1
  <2>3. work[i + 1].id \in Positions /\ work[i + 1].id # work[1].id
    BY <1>1, <2>2, CopyTyped DEF IInv, Typed, WorkTyped
  <2>. QED BY <1>1, <2>2, <2>3
<1>3. Typed'
  <2>1. DealTyped' /\ CaseTyped' /\ LifeTyped' /\ MemoryTyped'
    BY DEF IInv, Typed, DealTyped, CaseTyped, LifeTyped, MemoryTyped
  <2>2. ItemTyped'
    <3>1. ASSUME NEW q \in Positions PROVE Pending(q)' \/ item'[q] = NoItem
      <4>1. CASE q = d
        BY <4>1
      <4>2. CASE q # d
        BY <4>2 DEF IInv, Typed, ItemTyped
      <4>. QED BY <4>1, <4>2
    <3>. QED BY <3>1 DEF ItemTyped
  <2>3. work' \in Seq(ItemsOfFlush) /\ Len(work') <= BatchSize
    <3>1. Len(work) <= BatchSize
      BY DEF IInv, Typed, WorkTyped
    <3>2. CASE rest = <<>>
      BY <1>1, <3>2, Constants
    <3>3. CASE rest = Tail(work)
      BY <1>1, <3>1, <3>3, Constants
    <3>. QED BY <3>2, <3>3
  <2>4. (\A i \in DOMAIN work : Pending(work[i].id))'
    <3>. SUFFICES ASSUME NEW i \in DOMAIN work' PROVE (Pending(work[i].id))'
      OBVIOUS
    <3>. DEFINE q == work[i + 1].id
    <3>1. Pending(q) /\ q \in Positions \ {d} /\ work'[i].id = q
      BY <1>2 DEF IInv, Typed, WorkTyped
    <3>2. \E k \in DOMAIN queue' : queue'[k] = q
      BY <3>1 DEF Pending
    <3>. QED BY <3>1, <3>2 DEF Pending
  <2>5. \A i, j \in DOMAIN work' : work'[i].id = work'[j].id => i = j
    <3>. SUFFICES ASSUME NEW i \in DOMAIN work', NEW j \in DOMAIN work', work'[i].id = work'[j].id PROVE i = j
      OBVIOUS
    <3>1. i + 1 = j + 1
      BY <1>2 DEF IInv, Typed, WorkTyped
    <3>. QED BY <1>2, <3>1
  <2>6. WorkTyped'
    BY <2>3, <2>4, <2>5 DEF WorkTyped
  <2>7. StepTyped'
    BY <1>1 DEF StepTyped
  <2>. QED BY <2>1, <2>2, <2>6, <2>7 DEF Typed
<1>4. ASSUME NEW q \in Positions PROVE DealInv(q)' /\ ItemInv(q)' /\ CaseInv(q)'
  <2>1. DealInv(q) /\ ItemInv(q) /\ tracked'[q] \in {tracked[q], Nothing}
    BY DEF IInv
  <2>2. DealInv(q)' /\ CaseInv(q)'
    BY <2>1, CasesKept DEF DealInv, Backed, Nothing
  <2>3. CASE q # d
    <3>1. item'[q] = item[q]
      BY <2>3
    <3>2. ItemInv(q)'
      BY <2>1, <3>1 DEF ItemInv, Backed, Done, AllStored
    <3>. QED BY <2>2, <3>2
  <2>4. CASE q = d
    BY <2>2, <2>4
  <2>. QED BY <2>3, <2>4
<1>5. ASSUME NEW i \in DOMAIN work' PROVE CopyInv(work[i])'
  <2>1. CopyInv(work[i + 1])
    BY <1>2 DEF IInv
  <2>2. item'[work'[i].id] = item[work[i + 1].id] /\ work'[i] = work[i + 1]
    BY <1>2
  <2>. QED BY <2>1, <2>2 DEF CopyInv, Backed, Done, AsNew
<1>6. AtStep'
  BY <1>1 DEF AtStep
<1>7. Ended'
  BY DEF IInv, Ended, Flushing
<1>. QED BY <1>3, <1>4, <1>5, <1>6, <1>7, CasesKept DEF IInv

\* Its item leaves the queue: what is left.
LEMMA Removed ==
    ASSUME Typed, NEW p \in Positions, Pending(p), NEW s \in InLine(Queued \ {p})
    PROVE  /\ s \in Seq(Positions) /\ Len(s) = Len(queue) - 1
           /\ \A i, j \in DOMAIN s : s[i] = s[j] => i = j
           /\ \A q : (\E i \in DOMAIN s : s[i] = q) <=> (q \in Positions /\ Pending(q) /\ q # p)
<1>1. /\ s \in Seq(Positions) /\ Len(s) = Cardinality(Queued \ {p})
      /\ \A i, j \in DOMAIN s : s[i] = s[j] => i = j
      /\ \A q : (\E i \in DOMAIN s : s[i] = q) <=> q \in Queued \ {p}
  BY QueueShrinks
<1>2. Queued \in SUBSET Positions /\ Cardinality(Queued) = Len(queue) /\ p \in Queued
  BY QueueSize DEF Typed, Queued
<1>3. Cardinality(Queued \ {p}) = Cardinality(Queued) - 1
  BY <1>2, FiniteParts, FS_RemoveElement
<1>. QED BY <1>1, <1>2, <1>3 DEF Queued

LEMMA FinishStep ==
    ASSUME IInv, step = "LEAVES", Finish(Id), Rest, UNCHANGED <<cases, learned>>,
           tracked' = tracked \/ Release(Id)
    PROVE  IInv' /\ Frozen
<1>1. PICK d \in Positions : d = Id /\ Pending(d) /\ Flushing
  BY First DEF IInv, Flushing
<1>2. /\ GoesOn(Tail(work)) /\ left' = left
      /\ \/ /\ item[d].seen /\ queue' \in InLine(Queued \ {d}) /\ item' = [item EXCEPT ![d] = NoItem]
         \/ UNCHANGED <<queue, item>>
      /\ UNCHANGED <<pos, net, proved, cursor, scanDue, halt, passes, accepted>>
  BY <1>1 DEF Finish, Rest, dealVars
<1>3. tracked' \in [Positions -> [entry : BOOLEAN, trigger : BOOLEAN]]
      /\ \A q \in Positions : tracked'[q] \in {tracked[q], Nothing}
  <2>1. Nothing \in [entry : BOOLEAN, trigger : BOOLEAN]
    BY DEF Nothing
  <2>. QED BY <2>1 DEF Release, IInv, Typed, MemoryTyped
<1>4. left' \in [entries : Nat, faults : Nat, stops : Nat]
  BY <1>2 DEF IInv, Typed, LifeTyped
<1>5. /\ QueueTyped' /\ item' \in [Positions -> Item]
      /\ Pending(d)' \/ item'[d] = NoItem
      /\ \A q \in Positions \ {d} : item'[q] = item[q] /\ (Pending(q)' <=> Pending(q))
      /\ ItemInv(d)'
  <2>1. CASE UNCHANGED <<queue, item>>
    <3>1. \A q : Pending(q)' <=> Pending(q)
      BY <2>1 DEF Pending
    <3>2. ItemInv(d)'
      BY <1>1, <1>2, <2>1 DEF IInv, ItemInv, Backed, Done, AllStored
    <3>. QED BY <1>1, <2>1, <3>1, <3>2 DEF IInv, Typed, QueueTyped, ItemTyped
  <2>2. CASE /\ item[d].seen /\ queue' \in InLine(Queued \ {d})
             /\ item' = [item EXCEPT ![d] = NoItem]
    <3>1. /\ queue' \in Seq(Positions) /\ Len(queue') = Len(queue) - 1
          /\ \A i, j \in DOMAIN queue' : queue'[i] = queue'[j] => i = j
          /\ \A q : (\E i \in DOMAIN queue' : queue'[i] = q) <=> (q \in Positions /\ Pending(q) /\ q # d)
      BY <1>1, <2>2, Removed DEF IInv
    <3>2. QueueTyped'
      BY <3>1, Constants DEF IInv, Typed, QueueTyped
    <3>3. \A q \in Positions \ {d} : item'[q] = item[q] /\ (Pending(q)' <=> Pending(q))
      BY <2>2, <3>1 DEF IInv, Typed, ItemTyped, Pending
    <3>4. item' \in [Positions -> Item] /\ item'[d] = NoItem
      BY <1>1, <2>2, NoPatchFacts DEF IInv, Typed, ItemTyped
    <3>5. AllStored(d)
      BY <1>1, <2>2 DEF IInv, AtStep
    <3>6. ItemInv(d)'
      BY <1>2, <3>4, <3>5, NoPatchFacts DEF ItemInv, Backed, AllStored
    <3>. QED BY <3>2, <3>3, <3>4, <3>6
  <2>. QED BY <1>2, <2>1, <2>2
<1>. QED BY <1>1, <1>2, <1>3, <1>4, <1>5, GoesOnStep

LEMMA LeavesStep == ASSUME IInv, Leaves PROVE IInv' /\ Frozen
BY FinishStep DEF Leaves

LEMMA DefersStep == ASSUME IInv, Defers PROVE IInv' /\ Frozen
<1>1. PICK d \in Positions : d = Id /\ Pending(d) /\ Flushing /\ step = "DEFERS"
  BY First DEF IInv, Flushing, Defers
<1>. DEFINE wait == IF cases[Id].deadline = "AHEAD" THEN "DEADLINE" ELSE "NOW"
            it == [item[d] EXCEPT !.wait = wait, !.saved = TRUE, !.seen = FALSE]
<1>2. /\ GoesOn(Tail(work))
      /\ item' = item \/ item' = [item EXCEPT ![d].wait = wait, ![d].saved = TRUE, ![d].seen = FALSE]
      /\ UNCHANGED <<pos, net, proved, queue, tracked, left, cases, learned, cursor, scanDue, halt, passes, accepted>>
  BY <1>1 DEF Defers, Rest, dealVars
<1>3. item[d] \in Item /\ item \in [Positions -> Item] /\ ItemInv(d) /\ AllStored(d)
  BY <1>1 DEF IInv, Typed, ItemTyped, AtStep
<1>4. it \in Item /\ it.patch = item[d].patch /\ it.needs = item[d].needs /\ it.failedOnly = item[d].failedOnly
  BY <1>3 DEF Item
<1>5. item' = item \/ item' = [item EXCEPT ![d] = it]
  BY <1>1, <1>2, <1>3
<1>. HIDE DEF it, wait
<1>6. \A q : Pending(q)' <=> Pending(q)
  BY <1>2 DEF Pending
<1>7. item' \in [Positions -> Item] /\ (item'[d] = item[d] \/ item'[d] = it)
      /\ \A q \in Positions \ {d} : item'[q] = item[q]
  BY <1>1, <1>3, <1>4, <1>5
<1>8. ItemInv(d)'
  BY <1>2, <1>3, <1>4, <1>7 DEF ItemInv, Backed, Done, AllStored
<1>9. QueueTyped' /\ left' \in [entries : Nat, faults : Nat, stops : Nat]
      /\ tracked' \in [Positions -> [entry : BOOLEAN, trigger : BOOLEAN]]
  BY <1>2 DEF IInv, Typed, QueueTyped, LifeTyped, MemoryTyped
<1>. QED BY <1>1, <1>2, <1>6, <1>7, <1>8, <1>9, GoesOnStep

LEMMA FailsStep ==
    ASSUME IInv, Flushing, Fails(Id), Rest, UNCHANGED <<cases, learned, tracked>>
    PROVE  IInv' /\ Frozen
<1>1. PICK d \in Positions : d = Id /\ Pending(d)
  BY First DEF IInv, Flushing
<1>. DEFINE it == [item[d] EXCEPT !.wait = "RETRY", !.seen = FALSE]
<1>2. PICK rest \in {Tail(work), <<>>} : GoesOn(rest)
  BY DEF Fails
<1>3. /\ left' \in [entries : Nat, faults : Nat, stops : Nat]
      /\ tracked' \in [Positions -> [entry : BOOLEAN, trigger : BOOLEAN]]
  BY Spent DEF Fails, IInv, Typed, MemoryTyped
<1>4. PICK s \in InLine(Queued \ {d}) : queue' = Append(s, d)
  BY <1>1 DEF Fails
<1>5. /\ item' = [item EXCEPT ![d].wait = "RETRY", ![d].seen = FALSE]
      /\ UNCHANGED <<pos, net, proved, cursor, scanDue, halt, passes, accepted>>
  BY <1>1 DEF Fails, Rest, dealVars
<1>6. item[d] \in Item /\ item \in [Positions -> Item] /\ ItemInv(d)
  BY <1>1 DEF IInv, Typed, ItemTyped
<1>7. it \in Item /\ it.patch = item[d].patch /\ it.needs = item[d].needs
      /\ it.failedOnly = item[d].failedOnly /\ it.saved = item[d].saved
  BY <1>6 DEF Item
<1>8. item' = [item EXCEPT ![d] = it]
  BY <1>1, <1>5, <1>6
<1>. HIDE DEF it
<1>9. item' \in [Positions -> Item] /\ item'[d] = it /\ \A q \in Positions \ {d} : item'[q] = item[q]
  BY <1>1, <1>6, <1>7, <1>8
<1>10. /\ s \in Seq(Positions) /\ Len(s) = Len(queue) - 1
       /\ \A i, j \in DOMAIN s : s[i] = s[j] => i = j
       /\ \A q : (\E i \in DOMAIN s : s[i] = q) <=> (q \in Positions /\ Pending(q) /\ q # d)
  BY <1>1, Removed DEF IInv
<1>11. /\ queue' \in Seq(Positions) /\ Len(queue') = Len(s) + 1 /\ queue'[Len(s) + 1] = d
       /\ \A i \in DOMAIN s : queue'[i] = s[i]
  BY <1>1, <1>4, <1>10
<1>12. \A i \in DOMAIN s : s[i] # d
  BY <1>10
<1>13. QueueTyped'
  <2>1. \A i, j \in DOMAIN queue' : queue'[i] = queue'[j] => i = j
    BY <1>10, <1>11, <1>12
  <2>. QED BY <1>10, <1>11, <2>1 DEF IInv, Typed, QueueTyped
<1>14. Pending(d)' /\ \A q \in Positions \ {d} : Pending(q)' <=> Pending(q)
  <2>1. Pending(d)'
    BY <1>10, <1>11 DEF Pending
  <2>2. \A q \in Positions \ {d} : (\E i \in DOMAIN queue' : queue'[i] = q) <=> (\E i \in DOMAIN s : s[i] = q)
    BY <1>10, <1>11
  <2>. QED BY <1>10, <2>1, <2>2 DEF Pending
<1>15. ItemInv(d)'
  BY <1>5, <1>6, <1>7, <1>9 DEF ItemInv, Backed, Done, AllStored
<1>. QED BY <1>1, <1>2, <1>3, <1>5, <1>9, <1>13, <1>14, <1>15, GoesOnStep

\* What a case may become, and where the flush may go then.
MayBecome(d, c, s) ==
    /\ (cases[d].entry => c.entry) /\ (cases[d].trigger => c.trigger)
    /\ cases[d].status = "ANALYZED" => c \in {cases[d], [cases[d] EXCEPT !.status = "FINAL"]}
    /\ c.status \in {"ANALYZED", "FINAL"} =>
          /\ Done(d)
          /\ <<d, "ENTRY">> \in accepted => c.entry
          /\ <<d, "TRIGGER">> \in accepted => c.trigger
    /\ c.status = "ANALYZED" => /\ Verified(d) /\ net[d] = "LOSS" /\ c.deadline = "NONE"
                                /\ c.class = "RUG" => c.entry
    /\ \A l \in learned : l[1] = d => c.status \in {"ANALYZED", "FINAL"} /\ c.class = "RUG" /\ c.known = l[2]
    /\ s \in {"SETTLE", "LEARN", "CONCLUDE", "DEFERS"} =>
          /\ Done(d)
          /\ <<d, "ENTRY">> \in accepted => c.entry
          /\ <<d, "TRIGGER">> \in accepted => c.trigger
    /\ s = "LEAVES" /\ item[d].seen => /\ <<d, "ENTRY">> \in accepted => c.entry
                                       /\ <<d, "TRIGGER">> \in accepted => c.trigger
    /\ s = "SETTLE" /\ c.status = "FINAL" => pos[d] = "ENTRY_FAILED"
    /\ s \in {"LEARN", "CONCLUDE"} => c.status = "ANALYZED"
    /\ s = "LEARN" => c.class = "RUG"

\* Its case is written, or left as it is, and the flush goes on with the same item.
LEMMA CaseStep ==
    ASSUME IInv, Flushing, NEW d \in Positions, d = Id, NEW c \in Case, cases' = [cases EXCEPT ![d] = c],
           NEW s \in {"SETTLE", "LEARN", "CONCLUDE", "LEAVES", "DEFERS"}, GoesTo(s), Rest,
           UNCHANGED <<learned, tracked>>, MayBecome(d, c, s)
    PROVE  IInv' /\ Frozen
<1>1. /\ step' = s
      /\ UNCHANGED <<pos, net, proved, learned, queue, item, tracked, cursor, scanDue, work, halt, passes, left,
                     accepted>>
  BY DEF GoesTo, Rest, dealVars
<1>2. /\ cases'[d] = c /\ \A q \in Positions \ {d} : cases'[q] = cases[q]
      /\ cases' \in [Positions -> Case]
  BY DEF IInv, Typed, CaseTyped
<1>3. work # <<>> /\ Id' = d
  BY <1>1, First DEF IInv, Flushing, Id, Now
<1>4. Typed'
  <2>1. DealTyped' /\ MemoryTyped' /\ LifeTyped'
    BY <1>1 DEF IInv, Typed, DealTyped, LifeTyped, MemoryTyped
  <2>2. CaseTyped'
    BY <1>1, <1>2 DEF IInv, Typed, CaseTyped
  <2>3. StepTyped'
    BY <1>1, <1>3 DEF StepTyped
  <2>. QED BY <1>1, <2>1, <2>2, <2>3, SameQueue DEF IInv, Typed
<1>5. ASSUME NEW q \in Positions PROVE DealInv(q)' /\ ItemInv(q)' /\ CaseInv(q)' /\ (AllStored(q) => AllStored(q)')
  <2>1. DealInv(q) /\ ItemInv(q) /\ CaseInv(q)
    BY DEF IInv
  <2>2. DealInv(q)'
    BY <1>1, <2>1 DEF DealInv, Backed
  <2>3. (cases[q].entry => cases'[q].entry) /\ (cases[q].trigger => cases'[q].trigger)
    BY <1>2 DEF MayBecome
  <2>4. AllStored(q) => AllStored(q)'
    BY <1>1, <2>3 DEF AllStored
  <2>5. ItemInv(q)'
    BY <1>1, <2>1, <2>3, <2>4 DEF ItemInv, Backed, Done
  <2>6. CaseInv(q)'
    <3>1. CASE q = d
      BY <1>1, <1>2, <3>1 DEF CaseInv, MayBecome, Done, AllStored, Verified
    <3>2. CASE q # d
      BY <1>1, <1>2, <2>1, <3>2 DEF CaseInv, Done, AllStored, Verified
    <3>. QED BY <3>1, <3>2
  <2>. QED BY <2>2, <2>4, <2>5, <2>6
<1>6. (\A i \in DOMAIN work : CopyInv(work[i]))'
  BY <1>1 DEF IInv, CopyInv, Backed, Done, AsNew
<1>7. AtStep'
  BY <1>1, <1>2, <1>3 DEF AtStep, MayBecome, Done, AllStored
<1>8. Ended'
  BY <1>1 DEF IInv, Ended, Flushing
<1>9. LearnedIsOnRecord'
  <2>. SUFFICES ASSUME NEW l \in learned
                PROVE  /\ cases'[l[1]].status \in {"ANALYZED", "FINAL"} /\ cases'[l[1]].class = "RUG"
                       /\ cases'[l[1]].known = l[2] /\ cases'[l[1]].entry
                       /\ net[l[1]] = "LOSS" /\ proved[l[1]]
    BY <1>1 DEF LearnedIsOnRecord
  <2>1. /\ l[1] \in Positions /\ cases[l[1]].status \in {"ANALYZED", "FINAL"} /\ cases[l[1]].class = "RUG"
        /\ cases[l[1]].known = l[2] /\ cases[l[1]].entry /\ net[l[1]] = "LOSS" /\ proved[l[1]]
    BY DEF IInv, Typed, CaseTyped, LearnedIsOnRecord
  <2>2. CASE l[1] = d
    BY <1>2, <2>1, <2>2 DEF MayBecome
  <2>3. CASE l[1] # d
    BY <1>2, <2>1, <2>3
  <2>. QED BY <2>2, <2>3
<1>10. Frozen
  BY <1>2 DEF Frozen, MayBecome
<1>. QED BY <1>4, <1>5, <1>6, <1>7, <1>8, <1>9, <1>10 DEF IInv

\* The case is left as it is.
LEMMA SameCaseStep ==
    ASSUME IInv, Flushing, NEW d \in Positions, d = Id, UNCHANGED <<cases, learned, tracked>>, Rest,
           NEW s \in {"LEARN", "CONCLUDE", "LEAVES", "DEFERS"}, GoesTo(s),
           s \in {"LEARN", "CONCLUDE", "DEFERS"} => Done(d) /\ AllStored(d),
           s = "LEAVES" /\ item[d].seen => AllStored(d),
           s \in {"LEARN", "CONCLUDE"} => cases[d].status = "ANALYZED",
           s = "LEARN" => cases[d].class = "RUG"
    PROVE  IInv' /\ Frozen
<1>1. cases[d] \in Case /\ cases' = [cases EXCEPT ![d] = cases[d]]
  BY DEF IInv, Typed, CaseTyped
<1>2. CaseInv(d)
  BY DEF IInv
<1>3. \A l \in learned : l[1] = d => /\ cases[d].status \in {"ANALYZED", "FINAL"} /\ cases[d].class = "RUG"
                                     /\ cases[d].known = l[2]
  BY DEF IInv, LearnedIsOnRecord
<1>4. MayBecome(d, cases[d], s)
  BY <1>2, <1>3 DEF MayBecome, CaseInv, AllStored
<1>. QED BY <1>1, <1>4, CaseStep

LEMMA PatchedFacts ==
    ASSUME NEW c \in Case, NEW t \in Patch
    PROVE  LET b == Patched(c, t) IN
           /\ b \in Case /\ (b.entry <=> c.entry \/ t.entry) /\ (b.trigger <=> c.trigger \/ t.trigger)
           /\ b.status = (IF c.status = "ANALYZED" THEN "ANALYZED" ELSE Or(t.status, c.status))
           /\ b.known = c.known /\ b.deadline = c.deadline
           /\ t.status # "FINAL" => b.class = c.class
<1>. DEFINE entry == c.entry \/ t.entry
            trigger == c.trigger \/ t.trigger
            status == IF c.status = "ANALYZED" THEN "ANALYZED" ELSE Or(t.status, c.status)
            class == IF t.status = "FINAL" THEN "NOT_APPLICABLE" ELSE c.class
            b == Patched(c, t)
<1>1. entry \in BOOLEAN /\ trigger \in BOOLEAN
  OBVIOUS
<1>2. status \in {"NONE", "CAPTURED", "TRIGGERED", "INVALID_SETTLEMENT", "AWAITING_CONFIRMATION", "ANALYZED", "FINAL"}
  BY DEF Case, Patch, Or
<1>3. class \in {"NONE", "NOT_LOSS", "RECOVERED", "NOT_APPLICABLE"} \cup Verdicts
  BY DEF Case
<1>4. b = [c EXCEPT !.entry = entry, !.trigger = trigger, !.status = status, !.class = class]
  BY DEF Patched, Case
<1>5. t.status # "FINAL" => class = c.class
  OBVIOUS
<1>. HIDE DEF entry, trigger, status, class, b
<1>6. b \in Case /\ b.entry = entry /\ b.trigger = trigger /\ b.status = status /\ b.class = class
      /\ b.known = c.known /\ b.deadline = c.deadline
  BY <1>1, <1>2, <1>3, <1>4 DEF Case
<1>. QED BY <1>5, <1>6 DEF entry, trigger, status, b

LEMMA ToSaveFacts ==
    ASSUME IInv, Flushing
    PROVE  /\ ToSave(Id) \in Patch /\ ToSave(Id).status = Now.patch.status
           /\ (ToSave(Id).entry <=> Now.patch.entry \/ (~cases[Id].entry /\ tracked[Id].entry))
           /\ (ToSave(Id).trigger <=> Now.patch.trigger \/ (~cases[Id].trigger /\ tracked[Id].trigger))
<1>. DEFINE entry == Now.patch.entry \/ (~cases[Id].entry /\ tracked[Id].entry)
            trigger == Now.patch.trigger \/ (~cases[Id].trigger /\ tracked[Id].trigger)
<1>1. entry \in BOOLEAN /\ trigger \in BOOLEAN
  OBVIOUS
<1>2. Now \in ItemsOfFlush
  BY First DEF IInv, Flushing
<1>3. ToSave(Id) = [entry |-> entry, trigger |-> trigger, status |-> Now.patch.status]
  BY DEF ToSave
<1>. HIDE DEF entry, trigger
<1>4. ToSave(Id) \in Patch
  BY <1>1, <1>2, <1>3 DEF Patch, ItemsOfFlush
<1>5. ToSave(Id).entry = entry /\ ToSave(Id).trigger = trigger /\ ToSave(Id).status = Now.patch.status
  BY <1>3
<1>. QED BY <1>4, <1>5 DEF entry, trigger

LEMMA SaveStep == ASSUME IInv, Save PROVE IInv' /\ Frozen
<1>1. Flushing /\ step = "SAVE" /\ Rest /\ UNCHANGED <<learned, tracked>>
  BY DEF Save, Flushing
<1>2. PICK d \in Positions : d = Id /\ Pending(d)
  BY <1>1, First DEF IInv, Flushing
<1>3. /\ cases[d] \in Case /\ item[d] \in Item /\ DealInv(d) /\ ItemInv(d) /\ CaseInv(d)
      /\ Now \in ItemsOfFlush /\ CopyInv(Now) /\ Now.id = d
  BY <1>1, <1>2, First DEF IInv, Typed, CaseTyped, ItemTyped, Id, Flushing
<1>4. CASE (cases[Id].status = "FINAL" \/ NothingToConclude) /\ GoesTo("LEAVES") /\ UNCHANGED cases
  <2>1. item[d].seen => AllStored(d)
    <3>1. CASE cases[d].status = "FINAL"
      BY <1>3, <3>1 DEF CaseInv
    <3>2. CASE Now.failedOnly /\ ~Now.patch.entry
      <4>1. <<d, "TRIGGER">> \notin accepted
        BY <1>3, <3>2 DEF CopyInv, DealInv
      <4>2. item[d].seen /\ <<d, "ENTRY">> \in accepted => cases[d].entry
        BY <1>3, <3>2 DEF CopyInv, ItemInv, AsNew
      <4>. QED BY <4>1, <4>2 DEF AllStored
    <3>. QED BY <1>2, <1>4, <3>1, <3>2 DEF NothingToConclude
  <2>. QED BY <1>1, <1>2, <1>4, <2>1, SameCaseStep
<1>5. CASE /\ cases[Id].status # "FINAL" /\ ~NothingToConclude
           /\ cases' = [cases EXCEPT ![Id] = Patched(@, ToSave(Id))]
           /\ GoesTo(IF Now.needs THEN "SETTLE" ELSE "LEAVES")
  <2>. DEFINE t == ToSave(d)
              c == Patched(cases[d], t)
              s == IF Now.needs THEN "SETTLE" ELSE "LEAVES"
  <2>1. /\ t \in Patch /\ t.status = Now.patch.status
        /\ (t.entry <=> Now.patch.entry \/ (~cases[d].entry /\ tracked[d].entry))
        /\ (t.trigger <=> Now.patch.trigger \/ (~cases[d].trigger /\ tracked[d].trigger))
    BY <1>1, <1>2, ToSaveFacts
  <2>2. s \in {"SETTLE", "LEAVES"} /\ GoesTo(s) /\ (s = "SETTLE" => Now.needs) /\ cases[d].status # "FINAL"
    BY <1>2, <1>5
  <2>3. cases' = [cases EXCEPT ![d] = c]
    BY <1>2, <1>3, <1>5 DEF IInv, Typed, CaseTyped
  <2>. HIDE DEF t, s
  <2>4. /\ c \in Case /\ (c.entry <=> cases[d].entry \/ t.entry) /\ (c.trigger <=> cases[d].trigger \/ t.trigger)
        /\ c.status = (IF cases[d].status = "ANALYZED" THEN "ANALYZED" ELSE Or(t.status, cases[d].status))
        /\ c.known = cases[d].known /\ c.deadline = cases[d].deadline
        /\ t.status # "FINAL" => c.class = cases[d].class
    BY <1>3, <2>1, PatchedFacts
  <2>. HIDE DEF c
  \* An analysed case has all its evidence and no patch of an entry that failed.
  <2>5. cases[d].status = "ANALYZED" => c = cases[d]
    <3>. SUFFICES ASSUME cases[d].status = "ANALYZED" PROVE c = cases[d]
      OBVIOUS
    <3>1. (t.entry => cases[d].entry) /\ (t.trigger => cases[d].trigger) /\ t.status # "FINAL"
      BY <1>3, <2>1 DEF CaseInv, CopyInv, DealInv, Backed, AllStored, Verified
    <3>2. c.entry = cases[d].entry /\ c.trigger = cases[d].trigger
      BY <1>3, <2>4, <3>1 DEF Case
    <3>. QED BY <1>3, <2>4, <3>1, <3>2 DEF Case
  \* What was accepted is stored now, when the copy is as new as the item.
  <2>6. item[d].seen \/ Now.needs \/ Now.patch.status = "FINAL" =>
           /\ <<d, "ENTRY">> \in accepted => c.entry
           /\ <<d, "TRIGGER">> \in accepted => c.trigger
    BY <1>3, <2>1, <2>4 DEF CopyInv, ItemInv, AsNew
  <2>7. c.status = "FINAL" => Now.patch.status = "FINAL" /\ pos[d] = "ENTRY_FAILED"
    BY <1>3, <2>1, <2>2, <2>4 DEF Or, CopyInv
  <2>8. c.status = "ANALYZED" => cases[d].status = "ANALYZED"
    BY <2>1, <2>4 DEF Or, Patch
  <2>9. \A l \in learned : l[1] = d => c.status \in {"ANALYZED", "FINAL"} /\ c.class = "RUG" /\ c.known = l[2]
    <3>1. \A l \in learned : l[1] = d => /\ cases[d].status \in {"ANALYZED", "FINAL"} /\ cases[d].class = "RUG"
                                         /\ cases[d].known = l[2]
      BY DEF IInv, LearnedIsOnRecord
    <3>. QED BY <2>2, <2>5, <3>1
  <2>10. MayBecome(d, c, s)
    <3>1. c.status \in {"ANALYZED", "FINAL"} => /\ Done(d)
                                                /\ <<d, "ENTRY">> \in accepted => c.entry
                                                /\ <<d, "TRIGGER">> \in accepted => c.trigger
      BY <1>3, <2>5, <2>6, <2>7, <2>8 DEF CaseInv, AllStored, Done
    <3>2. c.status = "ANALYZED" => /\ Verified(d) /\ net[d] = "LOSS" /\ c.deadline = "NONE"
                                   /\ c.class = "RUG" => c.entry
      BY <1>3, <2>5, <2>8 DEF CaseInv
    <3>3. s = "SETTLE" => Done(d)
      BY <1>3, <2>2 DEF CopyInv
    <3>4. s = "SETTLE" /\ c.status = "FINAL" => pos[d] = "ENTRY_FAILED"
      BY <2>7
    <3>. QED BY <2>2, <2>4, <2>5, <2>6, <2>9, <3>1, <3>2, <3>3, <3>4 DEF MayBecome
  <2>. QED BY <1>1, <1>2, <2>2, <2>3, <2>4, <2>10, CaseStep
<1>6. CASE Fails(Id) /\ UNCHANGED cases
  BY <1>1, <1>6, FailsStep
<1>. QED BY <1>4, <1>5, <1>6 DEF Save

\* Where the flush settles, the position has ended, its evidence is stored and a
\* case that is concluded or learned is not in question any more.
LEMMA AtSettle ==
    ASSUME IInv, step = "SETTLE"
    PROVE  \E d \in Positions :
              /\ d = Id /\ Flushing /\ Done(d) /\ AllStored(d) /\ cases[d] \in Case /\ cases \in [Positions -> Case]
              /\ cases[d].status = "FINAL" => pos[d] = "ENTRY_FAILED"
              /\ \A l \in learned : l[1] = d => Verified(d) /\ net[d] = "LOSS" /\ cases[d].status \in {"ANALYZED", "FINAL"}
              /\ CaseInv(d)
<1>1. PICK d \in Positions : d = Id /\ Flushing
  BY First DEF IInv, Flushing
<1>2. /\ Done(d) /\ AllStored(d) /\ cases[d] \in Case /\ cases \in [Positions -> Case] /\ CaseInv(d)
      /\ cases[d].status = "FINAL" => pos[d] = "ENTRY_FAILED"
  BY <1>1 DEF IInv, AtStep, Typed, CaseTyped
<1>3. \A l \in learned : l[1] = d => Verified(d) /\ net[d] = "LOSS" /\ cases[d].status \in {"ANALYZED", "FINAL"}
  BY DEF IInv, LearnedIsOnRecord, DealInv, Verified
<1>. QED BY <1>1, <1>2, <1>3

LEMMA SettlesWithoutStep == ASSUME IInv, SettlesWithout PROVE IInv' /\ Frozen
<1>1. step = "SETTLE" /\ ~(Verified(Id) /\ net[Id] = "LOSS") /\ Rest /\ UNCHANGED <<learned, tracked>>
  BY DEF SettlesWithout
<1>2. PICK d \in Positions :
         /\ d = Id /\ Flushing /\ Done(d) /\ AllStored(d) /\ cases[d] \in Case /\ cases \in [Positions -> Case]
         /\ \A l \in learned : l[1] = d => Verified(d) /\ net[d] = "LOSS"
         /\ CaseInv(d)
  BY <1>1, AtSettle
<1>3. cases[d].status # "ANALYZED" /\ \A l \in learned : l[1] # d
  BY <1>1, <1>2 DEF CaseInv
<1>4. ASSUME NEW class \in {"NOT_APPLICABLE", "RECOVERED", "NOT_LOSS"}, Becomes(Concluded(class))
      PROVE  IInv' /\ Frozen
  <2>. DEFINE c == [cases[d] EXCEPT !.status = "FINAL", !.class = class, !.known = 0, !.deadline = "NONE"]
  <2>1. cases' = [cases EXCEPT ![d] = c] /\ GoesTo("LEAVES")
    BY <1>2, <1>4 DEF Becomes, Concluded
  <2>2. c \in Case /\ c.status = "FINAL" /\ c.entry = cases[d].entry /\ c.trigger = cases[d].trigger
    BY <1>2 DEF Case, Deadlines
  <2>. HIDE DEF c
  <2>3. MayBecome(d, c, "LEAVES")
    BY <1>2, <1>3, <2>2 DEF MayBecome, AllStored
  <2>. QED BY <1>1, <1>2, <2>1, <2>2, <2>3, CaseStep
<1>5. ASSUME Becomes([cases[Id] EXCEPT !.status = "INVALID_SETTLEMENT", !.known = 0, !.deadline = "NONE"])
      PROVE  IInv' /\ Frozen
  <2>. DEFINE c == [cases[d] EXCEPT !.status = "INVALID_SETTLEMENT", !.known = 0, !.deadline = "NONE"]
  <2>1. cases' = [cases EXCEPT ![d] = c] /\ GoesTo("LEAVES")
    BY <1>2, <1>5 DEF Becomes
  <2>2. c \in Case /\ c.status = "INVALID_SETTLEMENT" /\ c.entry = cases[d].entry /\ c.trigger = cases[d].trigger
    BY <1>2 DEF Case, Deadlines
  <2>. HIDE DEF c
  <2>3. MayBecome(d, c, "LEAVES")
    BY <1>2, <1>3, <2>2 DEF MayBecome, AllStored
  <2>. QED BY <1>1, <1>2, <2>1, <2>2, <2>3, CaseStep
<1>6. ASSUME Fails(Id), UNCHANGED cases PROVE IInv' /\ Frozen
  BY <1>1, <1>2, <1>6, FailsStep
<1>. QED BY <1>4, <1>5, <1>6 DEF SettlesWithout

LEMMA SettlesLossStep == ASSUME IInv, SettlesLoss PROVE IInv' /\ Frozen
<1>1. step = "SETTLE" /\ Verified(Id) /\ net[Id] = "LOSS" /\ Rest /\ UNCHANGED <<learned, tracked>>
  BY DEF SettlesLoss
<1>2. PICK d \in Positions :
         /\ d = Id /\ Flushing /\ Done(d) /\ AllStored(d) /\ cases[d] \in Case /\ cases \in [Positions -> Case]
         /\ cases[d].status = "FINAL" => pos[d] = "ENTRY_FAILED"
         /\ \A l \in learned : l[1] = d => cases[d].status \in {"ANALYZED", "FINAL"}
         /\ CaseInv(d)
  BY <1>1, AtSettle
<1>3. cases[d].status # "FINAL" /\ Verified(d) /\ net[d] = "LOSS"
  BY <1>1, <1>2 DEF Verified
<1>4. ASSUME GoesTo("DEFERS"), UNCHANGED cases PROVE IInv' /\ Frozen
  BY <1>1, <1>2, <1>4, SameCaseStep
<1>5. ASSUME cases[d].status = "ANALYZED", AfterAnalysis(cases[d].class), UNCHANGED cases PROVE IInv' /\ Frozen
  <2>. DEFINE s == IF cases[d].class = "RUG" THEN "LEARN" ELSE "CONCLUDE"
  <2>1. s \in {"LEARN", "CONCLUDE"} /\ GoesTo(s) /\ (s = "LEARN" => cases[d].class = "RUG")
    BY <1>5 DEF AfterAnalysis
  <2>. HIDE DEF s
  <2>. QED BY <1>1, <1>2, <1>5, <2>1, SameCaseStep
<1>6. ASSUME cases[d].status # "ANALYZED", NEW v \in Findings(cases[d]), Analyze(v) PROVE IInv' /\ Frozen
  <2>1. v \in Verdicts /\ (v = "RUG" => cases[d].entry) /\ \A l \in learned : l[1] # d
    BY <1>2, <1>3, <1>6 DEF Findings, Verdicts
  <2>2. CASE /\ cases' = [cases EXCEPT ![Id].status = "AWAITING_CONFIRMATION", ![Id].class = v, ![Id].deadline = "AHEAD"]
             /\ GoesTo("DEFERS")
    <3>. DEFINE c == [cases[d] EXCEPT !.status = "AWAITING_CONFIRMATION", !.class = v, !.deadline = "AHEAD"]
    <3>1. cases' = [cases EXCEPT ![d] = c]
      BY <1>2, <2>2
    <3>2. c \in Case /\ c.status = "AWAITING_CONFIRMATION" /\ c.entry = cases[d].entry /\ c.trigger = cases[d].trigger
      BY <1>2, <2>1 DEF Case, Deadlines
    <3>. HIDE DEF c
    <3>3. MayBecome(d, c, "DEFERS")
      BY <1>2, <1>6, <2>1, <3>2 DEF MayBecome, AllStored
    <3>. QED BY <1>1, <1>2, <2>2, <3>1, <3>2, <3>3, CaseStep
  <2>3. CASE cases' = [cases EXCEPT ![Id] = Analyzed(@, v)] /\ AfterAnalysis(v)
    <3>. DEFINE c == Analyzed(cases[d], v)
                s == IF v = "RUG" THEN "LEARN" ELSE "CONCLUDE"
    <3>1. cases' = [cases EXCEPT ![d] = c]
      BY <1>2, <2>3
    <3>2. /\ c \in Case /\ c.status = "ANALYZED" /\ c.class = v /\ c.deadline = "NONE"
          /\ c.entry = cases[d].entry /\ c.trigger = cases[d].trigger
      <4>. DEFINE n == cases[d].known + 1
      <4>1. c = [cases[d] EXCEPT !.status = "ANALYZED", !.class = v, !.known = n, !.deadline = "NONE"]
        BY <1>2 DEF Analyzed, Case
      <4>2. n \in Nat
        BY <1>2 DEF Case
      <4>. HIDE DEF c, n
      <4>3. cases[d] \in Case /\ v \in Verdicts
        BY <1>2, <2>1
      <4>. QED BY <4>1, <4>2, <4>3 DEF Case, Deadlines
    <3>3. s \in {"LEARN", "CONCLUDE"} /\ GoesTo(s) /\ (s = "LEARN" => v = "RUG")
      BY <2>3 DEF AfterAnalysis
    <3>. HIDE DEF c, s
    <3>4. MayBecome(d, c, s)
      BY <1>2, <1>3, <1>6, <2>1, <3>2, <3>3 DEF MayBecome, AllStored
    <3>. QED BY <1>1, <1>2, <3>1, <3>2, <3>3, <3>4, CaseStep
  <2>. QED BY <1>6, <2>2, <2>3 DEF Analyze
<1>7. ASSUME Fails(Id), UNCHANGED cases PROVE IInv' /\ Frozen
  BY <1>1, <1>2, <1>7, FailsStep
<1>. QED BY <1>2, <1>4, <1>5, <1>6, <1>7 DEF SettlesLoss

LEMMA LearnStep == ASSUME IInv, Learn PROVE IInv' /\ Frozen
<1>1. step = "LEARN" /\ Flushing /\ Rest /\ UNCHANGED <<cases, tracked>>
  BY DEF Learn, Flushing
<1>2. PICK d \in Positions : d = Id
  BY <1>1, First DEF IInv, Flushing
<1>3. /\ cases[d] \in Case /\ cases[d].status = "ANALYZED" /\ cases[d].class = "RUG" /\ AllStored(d) /\ Done(d)
      /\ CaseInv(d) /\ work # <<>>
  BY <1>1, <1>2, First DEF IInv, AtStep, Typed, CaseTyped, Flushing
<1>4. CASE learned' = learned \cup {<<Id, cases[Id].known>>} /\ GoesTo("CONCLUDE")
  <2>1. /\ step' = "CONCLUDE" /\ learned' = learned \cup {<<d, cases[d].known>>}
        /\ UNCHANGED <<pos, net, proved, cases, queue, item, tracked, cursor, scanDue, work, halt, passes, left,
                       accepted>>
    BY <1>1, <1>2, <1>4 DEF GoesTo, Rest, dealVars
  <2>2. Typed'
    <3>1. DealTyped' /\ MemoryTyped' /\ LifeTyped'
      BY <2>1 DEF IInv, Typed, DealTyped, LifeTyped, MemoryTyped
    <3>2. cases[d].known \in Nat
      BY <1>3 DEF Case
    <3>3. CaseTyped'
      BY <2>1, <3>2 DEF IInv, Typed, CaseTyped
    <3>4. StepTyped'
      BY <1>3, <2>1 DEF StepTyped
    <3>. QED BY <2>1, <3>1, <3>3, <3>4, SameQueue DEF IInv, Typed
  <2>3. ASSUME NEW q \in Positions PROVE DealInv(q)' /\ ItemInv(q)' /\ CaseInv(q)'
    <3>1. DealInv(q) /\ ItemInv(q) /\ CaseInv(q)
      BY DEF IInv
    <3>. QED BY <2>1, <3>1 DEF DealInv, ItemInv, CaseInv, Backed, Done, AllStored, Verified
  <2>4. (\A i \in DOMAIN work : CopyInv(work[i]))'
    BY <2>1 DEF IInv, CopyInv, Backed, Done, AsNew
  <2>5. Id' = d
    BY <1>2, <2>1 DEF Id, Now
  <2>6. AtStep'
    BY <1>3, <2>1, <2>5 DEF AtStep, Done, AllStored
  <2>7. Ended'
    BY <1>1, <2>1 DEF IInv, Ended, Flushing
  <2>8. LearnedIsOnRecord'
    <3>1. cases[d].entry /\ net[d] = "LOSS" /\ proved[d]
      BY <1>3 DEF CaseInv, Verified
    <3>. QED BY <1>3, <2>1, <3>1 DEF IInv, LearnedIsOnRecord
  <2>9. Frozen
    BY <1>1 DEF Frozen
  <2>. QED BY <2>2, <2>3, <2>4, <2>6, <2>7, <2>8, <2>9 DEF IInv
<1>5. CASE Fails(Id) /\ UNCHANGED learned
  BY <1>1, <1>5, FailsStep
<1>. QED BY <1>4, <1>5 DEF Learn

LEMMA ConcludeStep == ASSUME IInv, Conclude PROVE IInv' /\ Frozen
<1>1. step = "CONCLUDE" /\ Flushing /\ Rest /\ UNCHANGED <<learned, tracked>>
  BY DEF Conclude, Flushing
<1>2. PICK d \in Positions : d = Id
  BY <1>1, First DEF IInv, Flushing
<1>3. cases[d] \in Case /\ cases[d].status = "ANALYZED" /\ AllStored(d) /\ Done(d)
  BY <1>1, <1>2 DEF IInv, AtStep, Typed, CaseTyped
<1>4. CASE Becomes([cases[Id] EXCEPT !.status = "FINAL"])
  <2>. DEFINE c == [cases[d] EXCEPT !.status = "FINAL"]
  <2>1. cases' = [cases EXCEPT ![d] = c] /\ GoesTo("LEAVES")
    BY <1>2, <1>4 DEF Becomes
  <2>2. /\ c \in Case /\ c.status = "FINAL" /\ c.entry = cases[d].entry /\ c.trigger = cases[d].trigger
        /\ c.class = cases[d].class /\ c.known = cases[d].known /\ c = [cases[d] EXCEPT !.status = "FINAL"]
    BY <1>3 DEF Case
  <2>. HIDE DEF c
  <2>3. \A l \in learned : l[1] = d => c.class = "RUG" /\ c.known = l[2]
    BY <2>2 DEF IInv, LearnedIsOnRecord
  <2>4. MayBecome(d, c, "LEAVES")
    BY <1>3, <2>2, <2>3 DEF MayBecome, AllStored
  <2>. QED BY <1>1, <1>2, <2>1, <2>2, <2>4, CaseStep
<1>5. CASE Fails(Id) /\ UNCHANGED cases
  BY <1>1, <1>5, FailsStep
<1>. QED BY <1>4, <1>5 DEF Conclude

-----------------------------------------------------------------------------
(* The invariant, and what the run checks *)

LEMMA InitInv == ASSUME Init PROVE IInv
<1>1. Typed
  <2>1. DealTyped /\ QueueTyped /\ WorkTyped /\ StepTyped
    BY Constants DEF Init, DealTyped, QueueTyped, WorkTyped, StepTyped
  <2>2. CaseTyped
    BY DEF Init, CaseTyped, Case, NoCase, Deadlines
  <2>3. ItemTyped
    BY NoPatchFacts DEF Init, ItemTyped
  <2>4. MemoryTyped
    BY Constants DEF Init, MemoryTyped, Nothing
  <2>5. LifeTyped
    BY Constants, FeedbackAssumption DEF Init, LifeTyped
  <2>. QED BY <2>1, <2>2, <2>3, <2>4, <2>5 DEF Typed
<1>2. ASSUME NEW p \in Positions PROVE DealInv(p) /\ ItemInv(p) /\ CaseInv(p)
  <2>1. net[p] = "UNKNOWN" /\ accepted = {} /\ item[p] = NoItem /\ tracked[p] = Nothing /\ cases[p] = NoCase
    BY DEF Init
  <2>2. DealInv(p) /\ CaseInv(p)
    BY <2>1 DEF DealInv, CaseInv, Backed, Nothing, NoCase
  <2>3. ItemInv(p)
    BY <2>1, NoPatchFacts DEF ItemInv, Backed, AllStored
  <2>. QED BY <2>2, <2>3
<1>3. \A i \in DOMAIN work : CopyInv(work[i])
  BY DEF Init
<1>4. AtStep /\ Ended /\ LearnedIsOnRecord
  BY DEF Init, AtStep, Ended, LearnedIsOnRecord
<1>. QED BY <1>1, <1>2, <1>3, <1>4 DEF IInv

LEMMA StutterStep == ASSUME IInv, UNCHANGED vars PROVE IInv' /\ Frozen
<1>1. UNCHANGED <<pos, net, proved, cases, learned, queue, item, tracked, cursor, scanDue, work, step,
                  halt, passes, left, accepted>>
  BY DEF vars, dealVars, memVars, flushVars, lifeVars
<1>2. Typed'
  <2>1. DealTyped' /\ CaseTyped' /\ StepTyped' /\ LifeTyped' /\ MemoryTyped'
    BY <1>1 DEF IInv, Typed, DealTyped, CaseTyped, StepTyped, LifeTyped, MemoryTyped
  <2>. QED BY <1>1, <2>1, SameQueue DEF Typed, IInv
<1>3. ASSUME NEW q \in Positions PROVE Keeps(q) /\ DealInv(q)' /\ ItemInv(q)'
  <2>1. DealInv(q) /\ ItemInv(q)
    BY DEF IInv
  <2>. QED BY <1>1, <2>1 DEF Keeps, SameCase, SameEvidence, DealInv, ItemInv, Backed, Done, AllStored
<1>4. Ended'
  BY <1>1 DEF IInv, Ended, AllStored
<1>. QED BY <1>1, <1>2, <1>3, <1>4, Kept DEF IInv, NoFlush

LEMMA StepInv == ASSUME IInv, [Next]_vars PROVE IInv' /\ Frozen
<1>1. ASSUME NEW p \in Positions, DealStep(p) PROVE IInv' /\ Frozen
  BY <1>1, EntersStep, EntryFailsStep, OpensClosesStep, DropsStep, SettlesStep, ResolvesStep DEF DealStep
<1>2. CASE TimeStep \/ ScanDue
  BY <1>2, TimeStep1, WaitingStep DEF TimeStep
<1>3. CASE FlushStep
  BY <1>3, ScanStep, FlushBeginsStep, SaveStep, SettlesWithoutStep, SettlesLossStep, LearnStep, ConcludeStep,
     LeavesStep, DefersStep DEF FlushStep
<1>4. CASE StopStep
  BY <1>4, WaitingStep, FlushBeginsStep, StopEndsStep, GoneStep DEF StopStep
<1>5. CASE Stop \/ Crash \/ Start
  BY <1>5, WaitingStep, GoneStep
<1>6. CASE UNCHANGED vars
  BY <1>6, StutterStep
<1>. QED BY <1>1, <1>2, <1>3, <1>4, <1>5, <1>6 DEF Next

\* IInv holds in every state: evidence is stored or with its item, a copy of the
\* flush is as new as its item, and what is analysed or concluded lacks nothing.
THEOREM LossFeedbackInvariant == Spec => []IInv
<1>1. Init => IInv
  BY InitInv
<1>2. IInv /\ [Next]_vars => IInv'
  BY StepInv
<1>. QED BY <1>1, <1>2, PTL DEF Spec

LEMMA InvKeepsAll == ASSUME IInv PROVE NothingAcceptedIsLost
<1>. SUFFICES ASSUME NEW e \in accepted
              PROVE  \/ Stored(e)
                     \/ /\ halt # "SAVED" /\ Pending(e[1])
                        /\ CASE e[2] = "ENTRY" -> item[e[1]].patch.entry
                             [] e[2] = "TRIGGER" -> item[e[1]].patch.trigger
  BY DEF NothingAcceptedIsLost
<1>1. PICK p \in Positions, x \in {"ENTRY", "TRIGGER"} : e = <<p, x>>
  BY DEF IInv, Typed, MemoryTyped
<1>2. ItemInv(p) /\ (halt = "SAVED" => AllStored(p)) /\ (Pending(p) \/ item[p] = NoItem)
  BY DEF IInv, Ended, Typed, ItemTyped
<1>3. item[p].patch.entry \/ item[p].patch.trigger => Pending(p)
  BY <1>2, NoPatchFacts
<1>4. CASE x = "ENTRY"
  BY <1>1, <1>2, <1>3, <1>4 DEF ItemInv, AllStored, Stored
<1>5. CASE x = "TRIGGER"
  BY <1>1, <1>2, <1>3, <1>5 DEF ItemInv, AllStored, Stored
<1>. QED BY <1>4, <1>5

\* Evidence that was accepted is in its case or queued to get there, and after a
\* stop that succeeded it is in its case (_enqueue, flush and stop).
THEOREM NothingAcceptedGetsLost == Spec => []NothingAcceptedIsLost
BY LossFeedbackInvariant, InvKeepsAll, PTL

\* Only the analysis on record was learned, of a proved loss with evidence from
\* its entry, whatever write or kill comes between (_process).
THEOREM OnlyRecordedIsLearned == Spec => []LearnedIsOnRecord
<1>1. IInv => LearnedIsOnRecord
  BY DEF IInv
<1>. QED BY <1>1, LossFeedbackInvariant, PTL

\* An analysis that was saved is frozen: no late patch, retry or restart changes
\* or repeats it (_process and _upsertLiveLossRugCase).
THEOREM AnalysisStaysFrozen == Spec => AnalysisIsFrozen
<1>1. IInv /\ [Next]_vars => [\A p \in Positions : cases[p].status = "ANALYZED" =>
                                cases'[p] \in {cases[p], [cases[p] EXCEPT !.status = "FINAL"]}]_vars
  BY StepInv DEF Frozen
<1>. QED BY <1>1, LossFeedbackInvariant, PTL DEF Spec, AnalysisIsFrozen

LEMMA TypedIsTypeOK == ASSUME IInv PROVE TypeOK
<1>1. Typed
  BY DEF IInv
<1>. QED BY <1>1 DEF TypeOK, Typed, DealTyped, CaseTyped, QueueTyped, ItemTyped, WorkTyped, MemoryTyped, LifeTyped,
                     StepTyped, ItemsOfFlush

\* Every variable keeps its type: an item is queued once, the queue and a flush
\* stay within their capacity, and the flush works on queued items only.
THEOREM LossFeedbackTyped == Spec => []TypeOK
BY LossFeedbackInvariant, TypedIsTypeOK, PTL

=============================================================================
