----------------------- MODULE LivePositionsLotProofs -----------------------
(***************************************************************************)
(* Proofs about the life of each lot in LivePositions, for every value of   *)
(* the constants: where a lot stands in its row, in the positions Map, in   *)
(* the timers and in the exit queue of its mint, and who owns the tokens of *)
(* a mint that holds one lot at a time.                                     *)
(***************************************************************************)
EXTENDS LivePositionsProofs, FiniteSetTheorems

-----------------------------------------------------------------------------
(* The inductive invariant.                                                 *)
(*                                                                          *)
(* A GRAD lot that waits for its recovery may get a hold timer, and then is  *)
(* handed to the exit queue while the recovery still writes its row.  Such a *)
(* lot keeps little of what follows; any other keeps all of it.              *)

Grad(l) == lot[l].mode = "GRAD"

\* The entry in progress: until the buy is answered its lot has no signature
\* and nothing else works on it.
Calling == entering.step \in {"CHECK", "SENT", "READ"}

CallInv(l) ==
    /\ l \in Lots
    /\ lot[l].status = "OPENING" /\ ~lot[l].sig /\ ~lot[l].aged
    /\ recov[l].phase = "OFF"
    /\ buyTx[l] = IF entering.step = "READ" THEN "LANDED" ELSE "NONE"

Called ==
    /\ entering.step = "IDLE" <=> entering.lot = NoLot
    /\ entering.step = "RECOVER" => recov[entering.lot].phase # "OFF"
    /\ Calling => CallInv(entering.lot)

\* Nothing is in memory when there is no process.
Empty ==
    run = "DOWN" => /\ positions = {} /\ corePending = {} /\ entering = NoEntry
                    /\ \A l \in Lots : recov[l].phase = "OFF"
                    /\ \A m \in Mints : exitQ[m] = <<>>

Still(t) == \A k \in TimerKinds : t.live[k] = 0

Fresh(l) ==
    lot[l].status = "NONE" =>
        /\ l \notin positions /\ l \notin corePending /\ entering.lot # l
        /\ recov[l].phase = "OFF" /\ buyTx[l] = "NONE" /\ Still(timers[l])

\* An open lot is watched by a timer.
Watched(l) ==
    lot[l].status = "OPEN" =>
        /\ ~lot[l].unknown
        /\ run = "UP" => timers[l].live["HOLD"] > 0 \/ timers[l].live["DEFER"] > 0

\* What is aged is settled on the chain, and an answer "expired and absent" of
\* an aged entry stays true.
Fated(l) ==
    /\ lot[l].aged => buyTx[l] # "FLYING"
    /\ (recov[l].phase = "DELAY" /\ recov[l].absent /\ recov[l].expired /\ lot[l].sig /\ lot[l].aged)
          => buyTx[l] # "LANDED"
    /\ (lot[l].status = "ENTRY_FAILED" /\ lot[l].sig) => buyTx[l] \notin {"LANDED", "FLYING"}

\* A lot has an amount exactly when it was opened.
RowInv(l) ==
    /\ lot[l].unknown => lot[l].status = "EXIT_FAILED"
    /\ lot[l].amt > 0 <=> (\/ lot[l].status \in {"OPEN", "EXITING", "CLOSED"}
                           \/ lot[l].status = "EXIT_FAILED" /\ ~lot[l].unknown)

\* Recovery works on lots without an amount, the exit timers on lots with one.
Seeks(l) == lot[l].amt = 0 /\ lot[l].status \in {"OPENING", "EXIT_FAILED"}

MemInv(l) ==
    /\ lot[l].amt = 0 => timers[l].live["HOLD"] = 0 /\ timers[l].live["DEFER"] = 0
    /\ timers[l].live["RECOVER"] > 0 =>
         /\ lot[l].amt = 0 /\ lot[l].status = "EXIT_FAILED"
         /\ recov[l].phase = "OFF" /\ timers[l].live["RECOVER"] = 1
    /\ recov[l].phase # "OFF" => Seeks(l)
    /\ Alive => (l \in positions <=> lot[l].status \in Active)
    /\ l \in corePending => lot[l].status = "OPEN"

LotInv(l) ==
    /\ lot[l].mode \in ExitModes \cup {"PLAIN"}
    /\ Fresh(l) /\ Watched(l) /\ Fated(l)
    /\ ~Grad(l) => RowInv(l) /\ MemInv(l)

\* A task in the queue of a mint is the only one of its lot, and says what the
\* lot waits for.
Entered(l) == lot[l].status \notin {"NONE", "OPENING"}

TaskInv(m, i) ==
    LET t == exitQ[m][i]
    IN  /\ lot[t.lot].mint = m /\ Entered(t.lot)
        /\ t.kind = "TAKE_PROFIT" => lot[t.lot].mode = "PLAIN"
        /\ ~Grad(t.lot) =>
             /\ t.kind = "CORE" => t.lot \in corePending
             /\ t.kind # "CORE" => lot[t.lot].status = "EXITING"
             /\ \A j \in DOMAIN exitQ[m] : exitQ[m][j].lot = t.lot => j = i

ExitTask(l, i) == exitQ[lot[l].mint][i].lot = l /\ exitQ[lot[l].mint][i].kind # "CORE"
CoreTask(l, i) == exitQ[lot[l].mint][i].lot = l /\ exitQ[lot[l].mint][i].kind = "CORE"

HasTask(l) ==
    /\ Alive /\ lot[l].status = "EXITING" => \E i \in DOMAIN exitQ[lot[l].mint] : ExitTask(l, i)
    /\ l \in corePending => \E i \in DOMAIN exitQ[lot[l].mint] : CoreTask(l, i)

Queues ==
    /\ \A m \in Mints : \A i \in DOMAIN exitQ[m] : TaskInv(m, i)
    /\ \A l \in Lots : ~Grad(l) => HasTask(l)

LInv == IInv /\ Called /\ Empty /\ Queues /\ \A l \in Lots : LotInv(l)

-----------------------------------------------------------------------------
(* Timers and types *)

LEMMA ClearedLives ==
    ASSUME NEW t \in TimerRecord, NEW k \in TimerKinds
    PROVE  Cleared(t).live[k] \in Nat /\ Cleared(t).live[k] <= t.live[k]
BY DEF Cleared, TimerRecord, TimerKinds

LEMMA ScheduledLives ==
    ASSUME NEW t \in TimerRecord, NEW k \in TimerKinds, NEW j \in TimerKinds
    PROVE  Scheduled(t, k).live[j] = IF j = k THEN t.live[k] + 1 ELSE t.live[j]
BY DEF Scheduled, TimerRecord, TimerKinds

LEMMA ArmedLives ==
    ASSUME NEW t \in TimerRecord, NEW k \in TimerKinds, NEW j \in TimerKinds
    PROVE  /\ j # k => Armed(t, k).live[j] \in Nat /\ Armed(t, k).live[j] <= t.live[j]
           /\ Armed(t, k).live[k] \in Nat /\ Armed(t, k).live[k] > 0 /\ Armed(t, k).live[k] <= t.live[k] + 1
<1>1. Cleared(t) \in TimerRecord
  BY ClearedType
<1>2. /\ Cleared(t).live[j] \in Nat /\ Cleared(t).live[j] <= t.live[j]
      /\ Cleared(t).live[k] \in Nat /\ Cleared(t).live[k] <= t.live[k]
  BY ClearedLives
<1>3. t.live[k] \in Nat /\ t.live[j] \in Nat
  BY DEF TimerRecord
<1>. QED BY <1>1, <1>2, <1>3, ScheduledLives DEF Armed

LEMMA FiredLives ==
    ASSUME NEW t \in TimerRecord, NEW k \in TimerKinds, NEW j \in TimerKinds
    PROVE  Fired(t, k).live[j] = IF j = k THEN t.live[k] - 1 ELSE t.live[j]
BY DEF Fired, TimerRecord, TimerKinds

LEMMA Lives ==
    ASSUME IInv, NEW l \in Lots, NEW k \in TimerKinds
    PROVE  timers[l] \in TimerRecord /\ timers[l].live[k] \in Nat
BY DEF IInv, MemOK, TimerRecord

LEMMA Amounts ==
    ASSUME IInv, NEW l \in Lots
    PROVE  /\ lot[l] \in LotRecord /\ lot[l].amt \in Nat /\ lot[l].mint \in Mints /\ lot[l].status \in Statuses
           /\ lot[l].sig \in BOOLEAN /\ lot[l].aged \in BOOLEAN /\ lot[l].unknown \in BOOLEAN
           /\ lot[l].expired \in BOOLEAN
           /\ recov[l] \in RecovRecord /\ buyTx[l] \in BuyFates
BY DEF IInv, StoreOK, LotRecord, RecovOK, ChainOK

-----------------------------------------------------------------------------
(* Lots that a step does not touch *)

Untouched(k) ==
    /\ lot'[k] = lot[k] /\ timers'[k] = timers[k] /\ recov'[k] = recov[k] /\ buyTx'[k] = buyTx[k]
    /\ k \in positions' <=> k \in positions
    /\ k \in corePending' <=> k \in corePending

LEMMA UntouchedInv ==
    ASSUME NEW k \in Lots, LotInv(k), Untouched(k), run' = run, entering'.lot # k \/ entering'.lot = entering.lot
    PROVE  LotInv(k)'
<1>1. Fresh(k)'
  BY DEF LotInv, Fresh, Untouched, Still
<1>2. Watched(k)' /\ Fated(k)' /\ lot'[k].mode \in ExitModes \cup {"PLAIN"} /\ lot'[k].mode = lot[k].mode
  BY DEF LotInv, Watched, Fated, Untouched
<1>3. ASSUME ~Grad(k) PROVE RowInv(k)' /\ MemInv(k)'
  BY <1>3 DEF LotInv, RowInv, MemInv, Untouched, Seeks, Alive
<1>. QED BY <1>1, <1>2, <1>3 DEF LotInv, Grad

\* A step with this effect on the entry in progress keeps Called.
LEMMA CalledStays ==
    ASSUME LInv, \/ entering' = NoEntry
                 \/ /\ entering' = entering
                    /\ entering.lot \in Lots =>
                         Untouched(entering.lot) \/ (~Calling /\ recov'[entering.lot].phase # "OFF")
    PROVE  Called'
<1>1. CASE entering' = NoEntry
  BY <1>1 DEF Called, NoEntry, Calling, NoLot
<1>2. CASE entering' = entering /\ entering.lot \in Lots
  <2>1. CASE Untouched(entering.lot)
    BY <1>2, <2>1 DEF Called, CallInv, Calling, LInv, Untouched
  <2>2. CASE ~Calling /\ recov'[entering.lot].phase # "OFF"
    BY <1>2, <2>2 DEF Called, Calling, LInv
  <2>3. CASE entering.lot = NoLot
    BY <1>2, <2>3 DEF Lots, NoLot
  <2>. QED BY <1>2, <2>1, <2>2, <2>3 DEF NoEntry
<1>3. CASE entering' = entering /\ entering.lot \notin Lots
  BY <1>3 DEF Called, CallInv, Calling, LInv, IInv, EntryOK, EntryRecord, NoLot
<1>. QED BY <1>1, <1>2, <1>3

\* The step of one lot, from its parts.
LEMMA OneLot ==
    ASSUME LInv, IInv', Called', Queues', run' = run, Alive \/ UNCHANGED <<positions, corePending, entering, recov, exitQ>>,
           \A k \in Lots : \/ LotInv(k)'
                           \/ Untouched(k) /\ (entering'.lot # k \/ entering'.lot = entering.lot)
    PROVE  LInv'
<1>1. Empty'
  BY DEF LInv, Empty, Alive
<1>2. \A k \in Lots : LotInv(k)'
  BY UntouchedInv DEF LInv
<1>. QED BY <1>1, <1>2 DEF LInv

-----------------------------------------------------------------------------
(* The exit queues *)

LEMMA QueueTyped ==
    ASSUME IInv, NEW m \in Mints
    PROVE  /\ exitQ[m] \in Seq(Task) /\ DOMAIN exitQ[m] = 1..Len(exitQ[m]) /\ Len(exitQ[m]) \in Nat
           /\ \A i \in DOMAIN exitQ[m] : exitQ[m][i] \in Task /\ exitQ[m][i].lot \in Lots
<1>1. exitQ[m] \in Seq(Task)
  BY DEF IInv, ExitOK
<1>2. DOMAIN exitQ[m] = 1..Len(exitQ[m]) /\ Len(exitQ[m]) \in Nat
  BY <1>1
<1>3. \A i \in DOMAIN exitQ[m] : exitQ[m][i] \in Task
  BY <1>1, <1>2
<1>. QED BY <1>1, <1>2, <1>3 DEF Task

\* What a lot may do to whose tasks nothing happens.
Steady(k) ==
    /\ Entered(k) => /\ Entered(k)' /\ lot'[k].mint = lot[k].mint /\ lot'[k].mode = lot[k].mode
                     /\ ~Grad(k) => /\ lot'[k].status = "EXITING" <=> lot[k].status = "EXITING"
                                    /\ k \in corePending' <=> k \in corePending
    /\ ~Entered(k) => Grad(k)' \/ (lot'[k].status # "EXITING" /\ k \notin corePending')

LEMMA SteadySame ==
    ASSUME NEW k \in Lots, LotInv(k), lot'[k] = lot[k], k \in corePending' <=> k \in corePending
    PROVE  Steady(k)
BY DEF Steady, Entered, LotInv, MemInv, Grad

\* The lots of the tasks of a queue stay as the tasks want them.
LEMMA TaskStays ==
    ASSUME IInv, Queues, NEW m \in Mints, NEW i \in DOMAIN exitQ[m], NEW k \in Lots, k = exitQ[m][i].lot, Steady(k)
    PROVE  LET t == exitQ[m][i]
           IN  /\ lot'[k].mint = m /\ Entered(k)'
               /\ t.kind = "TAKE_PROFIT" => lot'[k].mode = "PLAIN"
               /\ Grad(k)' <=> Grad(k)
               /\ ~Grad(k) => /\ t.kind = "CORE" => k \in corePending'
                              /\ t.kind # "CORE" => lot'[k].status = "EXITING"
<1>1. TaskInv(m, i)
  BY DEF Queues
<1>. QED BY <1>1 DEF TaskInv, Steady, Grad, Entered

\* A lot that is steady keeps its tasks when its queue keeps them.
LEMMA HasTaskStays ==
    ASSUME IInv, Queues, NEW l \in Lots, Steady(l), ~Grad(l)', Alive' => Alive,
           \A i \in DOMAIN exitQ[lot[l].mint] :
              exitQ[lot[l].mint][i].lot = l =>
                 \E j \in DOMAIN exitQ'[lot[l].mint] : exitQ'[lot[l].mint][j] = exitQ[lot[l].mint][i]
    PROVE  HasTask(l)'
<1>1. CASE ~Entered(l)
  BY <1>1 DEF Steady, HasTask
<1>2. CASE Entered(l)
  <2>1. /\ lot'[l].mint = lot[l].mint /\ ~Grad(l)
        /\ lot'[l].status = "EXITING" <=> lot[l].status = "EXITING"
        /\ l \in corePending' <=> l \in corePending
    BY <1>2 DEF Steady, Grad
  <2>2. HasTask(l)
    BY <2>1 DEF Queues
  <2>. QED BY <2>1, <2>2 DEF HasTask, ExitTask, CoreTask
<1>. QED BY <1>1, <1>2

LEMMA QueuesStay ==
    ASSUME LInv, exitQ' = exitQ, Alive' => Alive, \A k \in Lots : Steady(k)
    PROVE  Queues'
<1>1. IInv /\ Queues
  BY DEF LInv
<1>2. ASSUME NEW m \in Mints, NEW i \in DOMAIN exitQ[m] PROVE TaskInv(m, i)'
  <2>1. TaskInv(m, i)
    BY <1>1 DEF Queues
  <2>2. PICK k \in Lots : k = exitQ[m][i].lot
    BY <1>1, QueueTyped
  <2>3. /\ lot'[k].mint = m /\ Entered(k)'
        /\ exitQ[m][i].kind = "TAKE_PROFIT" => lot'[k].mode = "PLAIN"
        /\ Grad(k)' <=> Grad(k)
        /\ ~Grad(k) => /\ exitQ[m][i].kind = "CORE" => k \in corePending'
                       /\ exitQ[m][i].kind # "CORE" => lot'[k].status = "EXITING"
    BY <1>1, <2>2, TaskStays
  <2>. QED BY <2>1, <2>2, <2>3 DEF TaskInv, Grad, Entered
<1>3. ASSUME NEW l \in Lots, ~Grad(l)' PROVE HasTask(l)'
  BY <1>1, <1>3, HasTaskStays
<1>. QED BY <1>2, <1>3 DEF Queues

\* A task joins the queue of its mint.
LEMMA QueuesAdd ==
    ASSUME LInv, NEW l \in Lots, NEW kind \in TaskKinds, exitQ' = Enqueued(l, kind), Alive' => Alive,
           \A k \in Lots : k # l => Steady(k),
           Entered(l)', lot'[l].mint = lot[l].mint, lot'[l].mode = lot[l].mode,
           kind = "TAKE_PROFIT" => lot[l].mode = "PLAIN",
           ~Grad(l) => /\ lot[l].status # "EXITING" /\ l \notin corePending
                       /\ IF kind = "CORE" THEN l \in corePending' /\ lot'[l].status # "EXITING"
                                           ELSE l \notin corePending' /\ lot'[l].status = "EXITING"
    PROVE  Queues'
<1>. DEFINE new == [lot |-> l, kind |-> kind]
<1>1. IInv /\ Queues
  BY DEF LInv
<1>n. PICK n \in Mints : n = lot[l].mint
  BY <1>1, MintType
<1>e. PICK e \in Nat : e = Len(exitQ[n]) + 1
  BY <1>1, QueueTyped
<1>2. new.lot = l /\ new.kind = kind /\ new \in Task
  BY DEF Task
<1>3. /\ exitQ'[n] = Append(exitQ[n], new)
      /\ \A m \in Mints : m # n => exitQ'[m] = exitQ[m]
  BY <1>1, <1>n DEF Enqueued, IInv, ExitOK
<1>. HIDE DEF new
<1>4. /\ DOMAIN exitQ'[n] = DOMAIN exitQ[n] \cup {e}
      /\ \A i \in DOMAIN exitQ[n] : exitQ'[n][i] = exitQ[n][i] /\ i # e
      /\ exitQ'[n][e] = new
  <2>1. exitQ[n] \in Seq(Task) /\ DOMAIN exitQ[n] = 1..Len(exitQ[n]) /\ Len(exitQ[n]) \in Nat
    BY <1>1, QueueTyped
  <2>2. /\ Len(exitQ'[n]) = Len(exitQ[n]) + 1 /\ DOMAIN exitQ'[n] = 1..Len(exitQ'[n])
        /\ \A i \in 1..Len(exitQ[n]) : exitQ'[n][i] = exitQ[n][i]
        /\ exitQ'[n][Len(exitQ[n]) + 1] = new
    BY <1>2, <1>3, <2>1, AppendProperties
  <2>. QED BY <1>e, <2>1, <2>2
<1>5. ASSUME NEW m \in Mints, NEW i \in DOMAIN exitQ[m], ~Grad(l)
      PROVE  exitQ[m][i].lot # l
  <2>1. TaskInv(m, i)
    BY <1>1 DEF Queues
  <2>. QED BY <1>5, <2>1 DEF TaskInv
<1>6. ASSUME NEW m \in Mints, NEW i \in DOMAIN exitQ[m] PROVE TaskInv(m, i)'
  <2>1. TaskInv(m, i) /\ exitQ'[m][i] = exitQ[m][i]
    BY <1>1, <1>3, <1>4 DEF Queues
  <2>2. PICK k \in Lots : k = exitQ[m][i].lot
    BY <1>1, QueueTyped
  <2>3. CASE k = l
    <3>1. Grad(l)
      BY <1>5, <2>2, <2>3
    <3>. QED BY <2>1, <2>2, <2>3, <3>1 DEF TaskInv, Grad, Entered
  <2>4. CASE k # l
    <3>1. ASSUME NEW j \in DOMAIN exitQ'[m], exitQ'[m][j].lot = k
          PROVE  j \in DOMAIN exitQ[m] /\ exitQ[m][j].lot = k
      <4>1. CASE m = n
        BY <1>2, <1>4, <2>4, <3>1, <4>1
      <4>2. CASE m # n
        BY <1>3, <3>1, <4>2
      <4>. QED BY <4>1, <4>2
    <3>2. /\ lot'[k].mint = m /\ Entered(k)'
          /\ exitQ[m][i].kind = "TAKE_PROFIT" => lot'[k].mode = "PLAIN"
          /\ Grad(k)' <=> Grad(k)
          /\ ~Grad(k) => /\ exitQ[m][i].kind = "CORE" => k \in corePending'
                         /\ exitQ[m][i].kind # "CORE" => lot'[k].status = "EXITING"
      BY <1>1, <2>2, <2>4, TaskStays
    <3>. QED BY <2>1, <2>2, <3>1, <3>2 DEF TaskInv, Grad, Entered
  <2>. QED BY <2>3, <2>4
<1>7. TaskInv(n, e)'
  <2>1. Grad(l)' <=> Grad(l)
    BY DEF Grad
  <2>2. ASSUME ~Grad(l), NEW j \in DOMAIN exitQ'[n], exitQ'[n][j].lot = l PROVE j = e
    BY <1>1, <1>4, <1>5, <2>2
  <2>. QED BY <1>n, <1>2, <1>4, <2>1, <2>2 DEF TaskInv, Grad, Entered
<1>8. ASSUME NEW k \in Lots, ~Grad(k)' PROVE HasTask(k)'
  <2>1. CASE k # l
    <3>1. lot[k].mint \in Mints
      BY <1>1, MintType
    <3>2. \A i \in DOMAIN exitQ[lot[k].mint] :
             i \in DOMAIN exitQ'[lot[k].mint] /\ exitQ'[lot[k].mint][i] = exitQ[lot[k].mint][i]
      BY <1>3, <1>4, <3>1
    <3>. QED BY <1>1, <1>8, <2>1, <3>2, HasTaskStays
  <2>2. CASE k = l
    <3>1. ~Grad(l) /\ lot'[l].mint = n /\ e \in DOMAIN exitQ'[n]
      BY <1>n, <1>4, <1>8, <2>2 DEF Grad
    <3>. QED BY <1>2, <1>4, <2>2, <3>1 DEF HasTask, ExitTask, CoreTask
  <2>. QED BY <2>1, <2>2
<1>9. ASSUME NEW m \in Mints, NEW i \in DOMAIN exitQ'[m] PROVE TaskInv(m, i)'
  <2>1. CASE i \in DOMAIN exitQ[m]
    BY <1>6, <2>1
  <2>2. CASE i \notin DOMAIN exitQ[m]
    <3>1. m = n
      BY <1>3, <1>9, <2>2
    <3>2. i = e
      BY <1>4, <1>9, <2>2, <3>1
    <3>. QED BY <1>7, <3>1, <3>2
  <2>. QED BY <2>1, <2>2
<1>. QED BY <1>8, <1>9 DEF Queues

\* The task at the head of the queue of m has ended.
LEMMA QueuesDrop ==
    ASSUME LInv, NEW m \in Mints, exitQ[m] # <<>>, exitQ' = [exitQ EXCEPT ![m] = Tail(@)], Alive' => Alive,
           NEW h \in Lots, h = Head1(m).lot, \A k \in Lots : k # h => Steady(k),
           Entered(h)', lot'[h].mint = lot[h].mint, lot'[h].mode = lot[h].mode,
           ~Grad(h) => lot'[h].status # "EXITING" /\ h \notin corePending'
    PROVE  Queues'
<1>. DEFINE q == exitQ[m]
<1>1. IInv /\ Queues
  BY DEF LInv
<1>2. q \in Seq(Task) /\ q # <<>> /\ 1 \in DOMAIN q /\ h = q[1].lot
  <2>1. q \in Seq(Task) /\ q # <<>>
    BY <1>1, QueueTyped
  <2>2. Len(q) \in Nat \ {0} /\ Head(q) = q[1] /\ DOMAIN q = 1..Len(q)
    BY <2>1, HeadTailProperties
  <2>. QED BY <2>1, <2>2 DEF Head1
<1>3. /\ exitQ'[m] = Tail(q)
      /\ \A n \in Mints : n # m => exitQ'[n] = exitQ[n]
  BY <1>1 DEF IInv, ExitOK
<1>4. /\ Len(q) \in Nat /\ DOMAIN q = 1..Len(q) /\ DOMAIN exitQ'[m] = 1..(Len(q) - 1)
      /\ \A i \in DOMAIN exitQ'[m] : i + 1 \in DOMAIN q /\ i + 1 # 1 /\ exitQ'[m][i] = q[i + 1]
  <2>1. /\ Len(q) \in Nat \ {0} /\ Len(Tail(q)) = Len(q) - 1 /\ Tail(q) \in Seq(Task)
        /\ \A i \in 1..Len(Tail(q)) : Tail(q)[i] = q[i + 1]
    BY <1>2, HeadTailProperties
  <2>2. DOMAIN Tail(q) = 1..Len(Tail(q)) /\ DOMAIN q = 1..Len(q)
    BY <1>2, <2>1
  <2>3. \A i \in 1..(Len(q) - 1) : i + 1 \in 1..Len(q) /\ i + 1 # 1
    BY <2>1
  <2>. QED BY <1>3, <2>1, <2>2, <2>3
<1>5. TaskInv(m, 1)
  BY <1>1, <1>2 DEF Queues
<1>6. /\ Entered(h)' /\ lot'[h].mint = lot[h].mint /\ lot'[h].mode = lot[h].mode /\ lot[h].mint = m
      /\ ~Grad(h) => lot'[h].status # "EXITING" /\ h \notin corePending'
  BY <1>2, <1>5 DEF TaskInv
<1>. HIDE DEF q
<1>7. ASSUME NEW n \in Mints, NEW i \in DOMAIN exitQ'[n],
             NEW j \in DOMAIN exitQ[n], exitQ'[n][i] = exitQ[n][j], n = m => j # 1,
             NEW k \in Lots, k = exitQ[n][j].lot,
             \A e \in DOMAIN exitQ'[n] : ~Grad(k) /\ exitQ'[n][e].lot = k => e = i
      PROVE  TaskInv(n, i)'
  <2>1. TaskInv(n, j)
    BY <1>1 DEF Queues
  <2>2. CASE k # h
    <3>1. /\ lot'[k].mint = n /\ Entered(k)'
          /\ exitQ[n][j].kind = "TAKE_PROFIT" => lot'[k].mode = "PLAIN"
          /\ Grad(k)' <=> Grad(k)
          /\ ~Grad(k) => /\ exitQ[n][j].kind = "CORE" => k \in corePending'
                         /\ exitQ[n][j].kind # "CORE" => lot'[k].status = "EXITING"
      BY <1>1, <1>7, <2>2, TaskStays
    <3>. QED BY <1>7, <2>1, <3>1 DEF TaskInv, Grad, Entered
  <2>3. CASE k = h
    <3>1. n = m
      BY <1>6, <1>7, <2>1, <2>3 DEF TaskInv
    <3>2. Grad(h)
      BY <1>2, <1>5, <1>7, <2>1, <2>3, <3>1 DEF TaskInv, q
    <3>. QED BY <1>6, <1>7, <2>1, <2>3, <3>2 DEF TaskInv, Grad, Entered
  <2>. QED BY <2>2, <2>3
<1>8. ASSUME NEW n \in Mints, NEW i \in DOMAIN exitQ'[n] PROVE TaskInv(n, i)'
  <2>1. CASE n = m
    <3>1. i + 1 \in DOMAIN exitQ[n] /\ i + 1 # 1 /\ exitQ'[n][i] = exitQ[n][i + 1] /\ i \in Int
      BY <1>4, <1>8, <2>1 DEF q
    <3>2. PICK k \in Lots : k = exitQ[n][i + 1].lot
      BY <1>1, <3>1, QueueTyped
    <3>3. ASSUME NEW e \in DOMAIN exitQ'[n], ~Grad(k), exitQ'[n][e].lot = k PROVE e = i
      <4>1. e + 1 \in DOMAIN exitQ[n] /\ exitQ'[n][e] = exitQ[n][e + 1] /\ e \in Int
        BY <1>4, <2>1, <3>3 DEF q
      <4>2. TaskInv(n, i + 1)
        BY <1>1, <3>1 DEF Queues
      <4>3. e + 1 = i + 1
        BY <3>2, <3>3, <4>1, <4>2 DEF TaskInv
      <4>. QED BY <3>1, <4>1, <4>3
    <3>. QED BY <1>7, <1>8, <3>1, <3>2, <3>3
  <2>2. CASE n # m
    <3>1. exitQ'[n] = exitQ[n]
      BY <1>3, <2>2
    <3>2. PICK k \in Lots : k = exitQ[n][i].lot
      BY <1>1, <1>8, <3>1, QueueTyped
    <3>3. TaskInv(n, i)
      BY <1>1, <1>8, <3>1 DEF Queues
    <3>4. \A e \in DOMAIN exitQ'[n] : ~Grad(k) /\ exitQ'[n][e].lot = k => e = i
      BY <3>1, <3>2, <3>3 DEF TaskInv
    <3>. QED BY <1>7, <1>8, <2>2, <3>1, <3>2, <3>4
  <2>. QED BY <2>1, <2>2
<1>9. ASSUME NEW k \in Lots, ~Grad(k)' PROVE HasTask(k)'
  <2>1. CASE k = h
    BY <1>6, <1>9, <2>1 DEF HasTask, Grad
  <2>2. CASE k # h
    <3>1. lot[k].mint \in Mints
      BY <1>1, MintType
    <3>2. ASSUME NEW i \in DOMAIN exitQ[lot[k].mint], exitQ[lot[k].mint][i].lot = k
          PROVE  \E j \in DOMAIN exitQ'[lot[k].mint] : exitQ'[lot[k].mint][j] = exitQ[lot[k].mint][i]
      <4>1. CASE lot[k].mint # m
        BY <1>3, <3>1, <3>2, <4>1
      <4>2. CASE lot[k].mint = m
        <5>1. i \in 1..Len(q) /\ i # 1
          BY <1>2, <1>4, <2>2, <3>2, <4>2 DEF q
        <5>2. i - 1 \in 1..(Len(q) - 1) /\ (i - 1) + 1 = i
          BY <1>4, <5>1
        <5>. QED BY <1>4, <4>2, <5>2 DEF q
      <4>. QED BY <4>1, <4>2
    <3>. QED BY <1>1, <1>9, <2>2, <3>2, HasTaskStays
  <2>. QED BY <2>1, <2>2
<1>. QED BY <1>8, <1>9 DEF Queues

-----------------------------------------------------------------------------
(* Entries *)

LEMMA FateOf ==
    ASSUME IInv, NEW l \in Lots, NEW fate, Fate(l, fate)
    PROVE  buyTx'[l] = fate /\ \A k \in Lots : k # l => buyTx'[k] = buyTx[k]
BY DEF Fate, Landed, IInv, ChainOK

LEMMA Caller ==
    ASSUME LInv, NEW l \in Lots, entering.lot = l, Calling
    PROVE  /\ CallInv(l) /\ lot[l] \in LotRecord
           /\ ~Grad(l) => /\ lot[l].amt = 0 /\ l \in positions /\ l \notin corePending
                          /\ Still(timers[l])
<1>1. CallInv(l) /\ IInv /\ LotInv(l) /\ Alive
  BY DEF LInv, Called, Empty, Alive, Calling, IInv, ProcOK, NoEntry
<1>2. lot[l].amt \in Nat /\ lot[l] \in LotRecord
  BY <1>1, Amounts
<1>3. \A k \in TimerKinds : timers[l].live[k] \in Nat
  BY <1>1, Lives
<1>4. ASSUME ~Grad(l) PROVE lot[l].amt = 0 /\ l \in positions /\ l \notin corePending
  BY <1>1, <1>2, <1>4 DEF LotInv, MemInv, RowInv, CallInv, Active
<1>5. ASSUME ~Grad(l) PROVE Still(timers[l])
  BY <1>1, <1>3, <1>4, <1>5 DEF LotInv, MemInv, CallInv, Still, TimerKinds
<1>. QED BY <1>1, <1>2, <1>4, <1>5

\* The entry is given up.
LEMMA EntryFailsLot ==
    ASSUME LInv, IInv', NEW l \in Lots, entering.lot = l, Calling, Alive, NEW sig \in BOOLEAN, EntryFails(l, sig),
           \A k \in Lots : k # l => buyTx'[k] = buyTx[k],
           sig => buyTx'[l] \notin {"LANDED", "FLYING"}
    PROVE  LInv'
<1>1. /\ lot' = [lot EXCEPT ![l] = Failed(@, sig)] /\ positions' = positions \ {l} /\ entering' = NoEntry
      /\ UNCHANGED <<run, graduated, timers, corePending, recov, exitQ, seller>>
  BY DEF EntryFails, procVars
<1>2. /\ lot'[l] = Failed(lot[l], sig) /\ \A k \in Lots : k # l => lot'[k] = lot[k]
      /\ IInv /\ Queues /\ \A k \in Lots : LotInv(k)
  BY <1>1 DEF LInv, IInv, StoreOK
<1>3. CallInv(l) /\ lot[l] \in LotRecord /\ (~Grad(l) => lot[l].amt = 0 /\ l \notin corePending /\ Still(timers[l]))
  BY Caller
<1>4. /\ lot'[l].status = "ENTRY_FAILED" /\ lot'[l].amt = lot[l].amt /\ lot'[l].sig = sig /\ lot'[l].unknown = FALSE
      /\ lot'[l].mode = lot[l].mode /\ lot'[l].aged = lot[l].aged /\ lot'[l].mint = lot[l].mint
  BY <1>2, <1>3 DEF Failed, LotRecord
<1>5. LotInv(l)'
  <2>1. Fresh(l)' /\ Watched(l)' /\ Fated(l)' /\ lot'[l].mode \in ExitModes \cup {"PLAIN"}
    BY <1>1, <1>2, <1>3, <1>4 DEF Fresh, Watched, Fated, CallInv, LotInv
  <2>2. ASSUME ~Grad(l)' PROVE RowInv(l)' /\ MemInv(l)'
    <3>1. ~Grad(l)
      BY <1>4, <2>2 DEF Grad
    <3>. QED BY <1>1, <1>3, <1>4, <3>1 DEF RowInv, MemInv, CallInv, Still, TimerKinds, Active
  <2>. QED BY <2>1, <2>2 DEF LotInv
<1>6. \A k \in Lots : k # l => Untouched(k) /\ entering'.lot # k
  BY <1>1, <1>2 DEF Untouched, NoEntry, NoLot, Lots
<1>7. \A k \in Lots : Steady(k)
  <2>1. Steady(l)
    BY <1>1, <1>3, <1>4 DEF Steady, Entered, CallInv, Grad
  <2>. QED BY <1>2, <1>6, <2>1, SteadySame DEF Untouched
<1>8. Queues'
  BY <1>1, <1>7, QueuesStay DEF Alive
<1>9. Called'
  BY <1>1, CalledStays
<1>. QED BY <1>1, <1>5, <1>6, <1>8, <1>9, OneLot

LEMMA EntryFailures ==
    ASSUME LInv, IInv', NEW l \in Lots,
           WalletHolds(l) \/ EntryRejected(l) \/ BuyErred(l) \/ SendThrows(l) \/ ReadThrows(l)
    PROVE  LInv'
<1>1. entering.lot = l /\ Calling /\ Alive /\ IInv
  BY DEF WalletHolds, EntryRejected, BuyErred, SendThrows, ReadThrows, Calling, LInv
<1>2. CASE WalletHolds(l) \/ EntryRejected(l) \/ ReadThrows(l)
  <2>1. EntryFails(l, FALSE) /\ buyTx' = buyTx
    BY <1>2 DEF WalletHolds, EntryRejected, ReadThrows, chainVars
  <2>. QED BY <1>1, <2>1, EntryFailsLot
<1>3. CASE BuyErred(l)
  <2>1. EntryFails(l, TRUE) /\ Fate(l, "ERR")
    BY <1>3 DEF BuyErred
  <2>. QED BY <1>1, <2>1, EntryFailsLot, FateOf
<1>4. CASE SendThrows(l)
  <2>1. EntryFails(l, FALSE) /\ \E fate \in {"DROPPED", "FLYING", "LANDED"} : Fate(l, fate)
    BY <1>4 DEF SendThrows
  <2>. QED BY <1>1, <2>1, EntryFailsLot, FateOf
<1>. QED BY <1>2, <1>3, <1>4

\* Steps that only move the entry on.
LEMMA EntryMoves ==
    ASSUME LInv, IInv', NEW l \in Lots, SendBuy(l) \/ RefreshQuote(l) \/ BuyConfirmed(l)
    PROVE  LInv'
<1>1. /\ entering.lot = l /\ Calling /\ Alive /\ entering'.lot = l /\ entering'.step \in {"CHECK", "SENT", "READ"}
      /\ UNCHANGED <<run, lot, positions, timers, corePending, recov, exitQ>>
      /\ buyTx'[l] = IF entering'.step = "READ" THEN "LANDED" ELSE "NONE"
      /\ \A k \in Lots : k # l => buyTx'[k] = buyTx[k]
  <2>1. entering \in EntryRecord /\ buyTx \in [Lots -> BuyFates]
    BY DEF LInv, IInv, EntryOK, ChainOK
  <2>2. CASE SendBuy(l) \/ RefreshQuote(l)
    <3>1. entering.step \in {"CHECK", "SENT"} /\ entering.lot = l /\ Calling
      BY <2>2 DEF SendBuy, RefreshQuote, Calling
    <3>2. buyTx[l] = "NONE"
      BY <3>1 DEF LInv, Called, CallInv
    <3>3. entering'.lot = l /\ entering'.step \in {"CHECK", "SENT"}
      BY <2>1, <2>2, <3>1 DEF SendBuy, RefreshQuote, EntryRecord
    <3>. QED BY <2>2, <3>1, <3>2, <3>3 DEF SendBuy, RefreshQuote, procVars, storeVars, memVars, chainVars
  <2>3. CASE BuyConfirmed(l)
    <3>1. entering.lot = l /\ Calling /\ entering'.lot = l /\ entering'.step = "READ"
      BY <2>1, <2>3 DEF BuyConfirmed, Calling, EntryRecord
    <3>. QED BY <2>1, <2>3, <3>1 DEF BuyConfirmed, Landed, procVars, storeVars, memVars
  <2>. QED BY <2>2, <2>3
<1>2. CallInv(l) /\ IInv /\ \A k \in Lots : LotInv(k)
  BY <1>1, Caller DEF LInv
<1>3. LotInv(l)'
  <2>1. Fresh(l)' /\ Watched(l)' /\ Fated(l)' /\ lot'[l].mode \in ExitModes \cup {"PLAIN"}
    BY <1>1, <1>2 DEF Fresh, Watched, Fated, CallInv, LotInv
  <2>2. ASSUME ~Grad(l)' PROVE RowInv(l)' /\ MemInv(l)'
    BY <1>1, <1>2, <2>2 DEF LotInv, RowInv, MemInv, Seeks, Alive, Grad
  <2>. QED BY <2>1, <2>2 DEF LotInv
<1>4. \A k \in Lots : k # l => Untouched(k)
  BY <1>1 DEF Untouched
<1>5. Queues'
  BY <1>1, <1>2, SteadySame, QueuesStay DEF Alive
<1>6. Called'
  <2>1. CallInv(l)'
    BY <1>1, <1>2 DEF CallInv
  <2>. QED BY <1>1, <2>1 DEF Called, Calling, Lots, NoLot
<1>. QED BY <1>1, <1>3, <1>4, <1>5, <1>6, OneLot

LEMMA EnterLot ==
    ASSUME LInv, IInv', NEW l \in Lots, NEW m \in Mints, NEW mode \in ExitModes, Enter(l, m, mode)
    PROVE  LInv'
<1>1. /\ run = "UP" /\ entering.step = "IDLE" /\ lot[l].status = "NONE" /\ positions' = positions \cup {l}
      /\ UNCHANGED <<run, timers, corePending, recov, exitQ, buyTx>>
      /\ entering'.lot = l /\ entering'.step = "CHECK"
  BY DEF Enter, procVars, chainVars
<1>2. IInv /\ \A k \in Lots : LotInv(k)
  BY DEF LInv
<1>3. /\ lot'[l] = [NoRow EXCEPT !.mint = m, !.mode = mode, !.status = "OPENING"]
      /\ \A k \in Lots : k # l => lot'[k] = lot[k]
  BY <1>2 DEF Enter, IInv, StoreOK
<1>4. /\ lot'[l].status = "OPENING" /\ lot'[l].amt = 0 /\ lot'[l].sig = FALSE /\ lot'[l].unknown = FALSE
      /\ lot'[l].mode = mode /\ lot'[l].aged = FALSE /\ lot'[l].mint = m
  BY <1>3 DEF NoRow
<1>5. recov[l].phase = "OFF" /\ buyTx[l] = "NONE" /\ l \notin corePending /\ Still(timers[l])
  BY <1>1, <1>2 DEF LotInv, Fresh
<1>6. LotInv(l)'
  <2>1. Fresh(l)' /\ Watched(l)' /\ Fated(l)' /\ lot'[l].mode \in ExitModes \cup {"PLAIN"}
    BY <1>4 DEF Fresh, Watched, Fated
  <2>2. RowInv(l)' /\ MemInv(l)'
    BY <1>1, <1>4, <1>5 DEF RowInv, MemInv, Still, TimerKinds, Active
  <2>. QED BY <2>1, <2>2 DEF LotInv
<1>7. \A k \in Lots : k # l => Untouched(k) /\ entering'.lot # k
  BY <1>1, <1>3 DEF Untouched
<1>8. Queues'
  <2>1. Steady(l)
    BY <1>1, <1>4, <1>5 DEF Steady, Entered
  <2>2. \A k \in Lots : k # l => Steady(k)
    BY <1>2, <1>7, SteadySame DEF Untouched
  <2>. QED BY <1>1, <2>1, <2>2, QueuesStay DEF Alive
<1>9. Called'
  <2>1. CallInv(l)'
    BY <1>1, <1>4, <1>5 DEF CallInv
  <2>. QED BY <1>1, <2>1 DEF Called, Calling, Lots, NoLot
<1>. QED BY <1>1, <1>6, <1>7, <1>8, <1>9, OneLot DEF Alive

\* The lots a mint that graduates arms again.
LEMMA ArmedAgain ==
    ASSUME LInv, NEW k \in Lots, k \in positions, Grad(k), run' = run,
           lot'[k] = lot[k], timers'[k] = Armed(timers[k], "HOLD"), recov'[k] = recov[k], buyTx'[k] = buyTx[k]
    PROVE  LotInv(k)'
<1>1. LotInv(k) /\ timers[k] \in TimerRecord
  BY Lives DEF LInv, TimerKinds
<1>2. timers'[k].live["HOLD"] > 0
  BY <1>1, ArmedLives DEF TimerKinds
<1>3. lot[k].status # "NONE"
  BY <1>1 DEF LotInv, Fresh
<1>. QED BY <1>1, <1>2, <1>3 DEF LotInv, Fresh, Watched, Fated, Grad

LEMMA BuyReceivedLot == ASSUME LInv, IInv', NEW l \in Lots, BuyReceived(l) PROVE LInv'
<1>. DEFINE m == lot[l].mint
            received == IF entering.allow \/ wallet[m] = 0 THEN LotAmount ELSE wallet[m]
            rearmed == {l} \cup (IF lot[l].mode = "GRAD" /\ m \in graduated THEN GradLots(m) ELSE {})
<1>1. /\ entering.lot = l /\ Calling /\ Alive /\ entering' = NoEntry
      /\ lot' = [lot EXCEPT ![l] = Opened(@, TRUE, received)]
      /\ timers' = [k \in Lots |-> IF k \in rearmed THEN Armed(timers[k], "HOLD") ELSE timers[k]]
      /\ UNCHANGED <<run, positions, corePending, recov, exitQ, buyTx>>
  BY DEF BuyReceived, Calling, procVars, chainVars
<1>2. received \in Nat /\ received > 0
  <2>1. wallet[m] \in Nat
    BY MintType DEF LInv, IInv, ChainOK
  <2>. QED BY <2>1, LiveAssumption
<1>3. l \in rearmed /\ \A k \in rearmed : k # l => k \in positions /\ Grad(k)
  BY DEF GradLots, PositionsOf, Grad
<1>. HIDE DEF m, received, rearmed
<1>4. /\ lot'[l] = Opened(lot[l], TRUE, received) /\ \A k \in Lots : k # l => lot'[k] = lot[k]
      /\ timers'[l] = Armed(timers[l], "HOLD")
      /\ \A k \in Lots : timers'[k] = IF k \in rearmed THEN Armed(timers[k], "HOLD") ELSE timers[k]
      /\ IInv /\ \A k \in Lots : LotInv(k)
  BY <1>1, <1>3 DEF LInv, IInv, StoreOK
<1>5. /\ CallInv(l) /\ lot[l] \in LotRecord
      /\ ~Grad(l) => lot[l].amt = 0 /\ l \in positions /\ l \notin corePending /\ Still(timers[l])
  BY <1>1, Caller
<1>6. /\ lot'[l].status = "OPEN" /\ lot'[l].amt = received /\ lot'[l].sig = TRUE /\ lot'[l].unknown = FALSE
      /\ lot'[l].mode = lot[l].mode /\ lot'[l].aged = lot[l].aged /\ lot'[l].mint = lot[l].mint
  BY <1>4, <1>5 DEF Opened, LotRecord
<1>7. /\ timers[l].live["RECOVER"] \in Nat /\ timers'[l].live["HOLD"] > 0
      /\ timers'[l].live["RECOVER"] \in Nat /\ timers'[l].live["RECOVER"] <= timers[l].live["RECOVER"]
  BY <1>4, Lives, ArmedLives DEF TimerKinds
<1>8. LotInv(l)'
  <2>1. Fresh(l)' /\ Watched(l)' /\ Fated(l)' /\ lot'[l].mode \in ExitModes \cup {"PLAIN"}
    BY <1>1, <1>4, <1>5, <1>6, <1>7 DEF Fresh, Watched, Fated, CallInv, LotInv
  <2>2. ASSUME ~Grad(l)' PROVE RowInv(l)' /\ MemInv(l)'
    <3>1. ~Grad(l)
      BY <1>6, <2>2 DEF Grad
    <3>2. timers'[l].live["RECOVER"] = 0
      BY <1>5, <1>7, <3>1 DEF Still, TimerKinds
    <3>3. RowInv(l)'
      BY <1>2, <1>6 DEF RowInv
    <3>4. recov'[l].phase = "OFF"
      BY <1>1, <1>5 DEF CallInv
    <3>5. lot'[l].amt # 0
      BY <1>2, <1>6
    <3>6. l \in positions' /\ lot'[l].status \in Active
      BY <1>1, <1>5, <1>6, <3>1 DEF Active
    <3>7. MemInv(l)'
      BY <1>6, <3>2, <3>4, <3>5, <3>6 DEF MemInv
    <3>. QED BY <3>3, <3>7
  <2>. QED BY <2>1, <2>2 DEF LotInv
<1>9. ASSUME NEW k \in Lots, k # l PROVE LotInv(k)' \/ (Untouched(k) /\ entering'.lot # k)
  <2>1. CASE k \in rearmed
    BY <1>1, <1>3, <1>4, <1>9, <2>1, ArmedAgain
  <2>2. CASE k \notin rearmed
    BY <1>1, <1>4, <1>9, <2>2 DEF Untouched, NoEntry, NoLot, Lots
  <2>. QED BY <2>1, <2>2
<1>10. Queues'
  <2>1. Steady(l)
    BY <1>1, <1>5, <1>6 DEF Steady, Entered, CallInv, Grad
  <2>2. \A k \in Lots : k # l => Steady(k)
    BY <1>1, <1>4, SteadySame
  <2>. QED BY <1>1, <2>1, <2>2, QueuesStay DEF Alive
<1>11. Called'
  BY <1>1, CalledStays
<1>. QED BY <1>1, <1>8, <1>9, <1>10, <1>11, OneLot

-----------------------------------------------------------------------------
(* Recovery of an entry *)

\* A lot that is being recovered, unless it is a GRAD lot.
LEMMA Seeker ==
    ASSUME LInv, NEW l \in Lots, recov[l].phase # "OFF"
    PROVE  /\ IInv /\ LotInv(l) /\ lot[l] \in LotRecord /\ lot[l].amt \in Nat /\ lot[l].status # "NONE"
           /\ entering.lot = l => ~Calling
           /\ ~Grad(l) => Seeks(l) /\ Still(timers[l]) /\ l \notin corePending /\ RowInv(l) /\ MemInv(l)
<1>1. IInv /\ LotInv(l) /\ lot[l] \in LotRecord /\ lot[l].amt \in Nat
  BY Amounts DEF LInv
<1>2. lot[l].status # "NONE"
  BY <1>1 DEF LotInv, Fresh
<1>3. entering.lot = l => ~Calling
  BY DEF LInv, Called, CallInv
<1>4. \A k \in TimerKinds : timers[l].live[k] \in Nat
  BY <1>1, Lives
<1>5. ASSUME ~Grad(l) PROVE Seeks(l) /\ Still(timers[l]) /\ l \notin corePending /\ RowInv(l) /\ MemInv(l)
  <2>1. RowInv(l) /\ MemInv(l)
    BY <1>1, <1>5 DEF LotInv
  <2>2. Seeks(l) /\ l \notin corePending
    BY <2>1 DEF MemInv, Seeks
  <2>3. Still(timers[l])
    BY <1>4, <2>1, <2>2 DEF MemInv, Seeks, Still, TimerKinds
  <2>. QED BY <2>1, <2>2, <2>3
<1>. QED BY <1>1, <1>2, <1>3, <1>5

\* EntryDone leaves no entry whose lot the step changed.
LEMMA EntryDoneCalled ==
    ASSUME LInv, NEW l \in Lots, entering' = EntryDone(l), \A k \in Lots : k # l => Untouched(k)
    PROVE  /\ Called'
           /\ \A k \in Lots : k # l => entering'.lot # k \/ entering'.lot = entering.lot
           /\ entering'.lot # l
<1>1. CASE entering.lot = l
  <2>1. entering' = NoEntry
    BY <1>1 DEF EntryDone
  <2>. QED BY <2>1, CalledStays DEF NoEntry, NoLot, Lots
<1>2. CASE entering.lot # l
  <2>1. entering' = entering
    BY <1>2 DEF EntryDone
  <2>. QED BY <1>2, <2>1, CalledStays
<1>. QED BY <1>1, <1>2

\* The recovery ends with nothing confirmed.
LEMMA RecoveryEndsLot ==
    ASSUME LInv, IInv', NEW l \in Lots, NEW L, NEW r \in RecovRecord, RecoveryEnds(l, L, r), Alive, run' = run,
           UNCHANGED <<corePending, exitQ>>,
           lot[l].status # "NONE", L \in [Lots -> LotRecord], \A k \in Lots : k # l => L[k] = lot[k],
           L[l].amt = lot[l].amt, L[l].aged = lot[l].aged, L[l].mode = lot[l].mode, L[l].mint = lot[l].mint,
           ~Grad(l) => Seeks(l) /\ Still(timers[l]) /\ l \notin corePending /\ MemInv(l),
           \A k \in Lots : k # l => buyTx'[k] = buyTx[k],
           lot[l].aged => buyTx'[l] # "FLYING",
           L[l].sig /\ r.expired /\ r.absent /\ lot[l].aged => buyTx'[l] # "LANDED"
    PROVE  LInv'
<1>. DEFINE released == L[l].sig /\ r.expired /\ r.absent /\ L[l].aged
            late == L[l].sig /\ r.expired /\ ~L[l].aged
<1>1. /\ IInv /\ Queues /\ LotInv(l) /\ \A k \in Lots : LotInv(k)
      /\ lot \in [Lots -> LotRecord] /\ timers \in [Lots -> TimerRecord] /\ recov \in [Lots -> RecovRecord]
  BY DEF LInv, IInv, StoreOK, MemOK, RecovOK
<1>2. /\ released => lot'[l] = Failed(L[l], TRUE) /\ positions' = positions \ {l}
      /\ ~released => lot'[l] = Unsettled(L[l], L[l].sig, r.expired) /\ positions' = positions
      /\ \A k \in Lots : k # l => lot'[k] = lot[k]
      /\ timers'[l] = IF late THEN Armed(timers[l], "RECOVER") ELSE timers[l]
      /\ \A k \in Lots : k # l => timers'[k] = timers[k] /\ recov'[k] = recov[k]
      /\ recov'[l] = NoRecov /\ entering' = EntryDone(l)
  BY <1>1 DEF RecoveryEnds
<1>3. recov'[l].phase = "OFF"
  BY <1>2 DEF NoRecov
<1>4. /\ lot'[l].status = IF released THEN "ENTRY_FAILED" ELSE "EXIT_FAILED"
      /\ lot'[l].amt = lot[l].amt /\ lot'[l].aged = lot[l].aged /\ lot'[l].mode = lot[l].mode
      /\ lot'[l].mint = lot[l].mint
  <2>. L[l] \in LotRecord
    OBVIOUS
  <2>. HIDE DEF released
  <2>1. CASE released
    BY <1>2, <2>1 DEF Failed, LotRecord
  <2>2. CASE ~released
    BY <1>2, <2>2 DEF Unsettled, LotRecord
  <2>. QED BY <2>1, <2>2
<1>5. lot'[l].unknown <=> ~released
  <2>1. CASE released
    BY <1>2, <2>1 DEF Failed, LotRecord
  <2>2. CASE ~released
    BY <1>2, <2>2 DEF Unsettled, LotRecord
  <2>. QED BY <2>1, <2>2
<1>6. /\ \A k \in Lots : k # l => Untouched(k)
      /\ Called' /\ entering'.lot # l
      /\ \A k \in Lots : k # l => entering'.lot # k \/ entering'.lot = entering.lot
  <2>1. \A k \in Lots : k # l => Untouched(k)
    BY <1>2 DEF Untouched
  <2>. QED BY <1>2, <2>1, EntryDoneCalled
<1>7. /\ Fresh(l)' /\ Watched(l)' /\ lot'[l].mode \in ExitModes \cup {"PLAIN"}
      /\ (lot'[l].status = "ENTRY_FAILED" => buyTx'[l] \notin {"LANDED", "FLYING"})
      /\ (lot'[l].aged => buyTx'[l] # "FLYING")
  BY <1>1, <1>4 DEF Fresh, Watched, LotInv
<1>8. Fated(l)'
  BY <1>3, <1>7 DEF Fated
<1>9. ASSUME ~Grad(l) PROVE RowInv(l)' /\ MemInv(l)'
  <2>1. lot[l].amt = 0 /\ lot[l].status \in {"OPENING", "EXIT_FAILED"} /\ l \in positions /\ l \notin corePending
    BY <1>9 DEF MemInv, Seeks, Active
  <2>2. RowInv(l)'
    BY <1>4, <1>5, <2>1 DEF RowInv
  <2>3. \A k \in TimerKinds : timers[l].live[k] = 0
    BY <1>9 DEF Still
  <2>4. timers'[l].live["HOLD"] = 0 /\ timers'[l].live["DEFER"] = 0 /\ timers'[l].live["RECOVER"] \in {0, 1}
    <3>1. CASE late
      <4>1. timers[l] \in TimerRecord
        BY <1>1
      <4>2. timers'[l] = Armed(timers[l], "RECOVER")
        BY <1>2, <3>1
      <4>. HIDE DEF late, released
      <4>3. timers'[l].live["HOLD"] \in Nat /\ timers'[l].live["HOLD"] <= 0
        BY <2>3, <4>1, <4>2, ArmedLives DEF TimerKinds
      <4>4. timers'[l].live["DEFER"] \in Nat /\ timers'[l].live["DEFER"] <= 0
        BY <2>3, <4>1, <4>2, ArmedLives DEF TimerKinds
      <4>5. timers'[l].live["RECOVER"] \in Nat /\ timers'[l].live["RECOVER"] <= 0 + 1
        BY <2>3, <4>1, <4>2, ArmedLives DEF TimerKinds
      <4>. QED BY <4>3, <4>4, <4>5
    <3>2. CASE ~late
      BY <1>2, <2>3, <3>2 DEF TimerKinds
    <3>. QED BY <3>1, <3>2
  <2>5. timers'[l].live["RECOVER"] > 0 => lot'[l].status = "EXIT_FAILED" /\ timers'[l].live["RECOVER"] = 1
    BY <1>2, <1>4, <2>3, <2>4 DEF TimerKinds
  <2>6. lot'[l].status \in {"ENTRY_FAILED", "EXIT_FAILED"} /\ (l \in positions' <=> lot'[l].status = "EXIT_FAILED")
    BY <1>2, <1>4, <2>1
  <2>7. lot'[l].amt = 0 /\ l \notin corePending' /\ recov'[l].phase = "OFF"
    BY <1>3, <1>4, <2>1
  <2>8. MemInv(l)'
    BY <2>4, <2>5, <2>6, <2>7 DEF MemInv, Active
  <2>. QED BY <2>2, <2>8
<1>10. LotInv(l)'
  BY <1>4, <1>7, <1>8, <1>9 DEF LotInv, Grad
<1>11. Queues'
  <2>1. Steady(l)
    BY <1>4 DEF Steady, Entered, Grad, Seeks
  <2>2. \A k \in Lots : k # l => Steady(k)
    BY <1>1, <1>2, SteadySame
  <2>. QED BY <2>1, <2>2, QueuesStay DEF Alive
<1>. QED BY <1>6, <1>10, <1>11, OneLot

\* A recovery that asks again, or that waits before it asks again.
LEMMA RecoveryGoesOn ==
    ASSUME LInv, IInv', NEW l \in Lots, NEW r \in RecovRecord, recov[l].phase # "OFF", Alive,
           recov' = [recov EXCEPT ![l] = r], r.phase # "OFF",
           r.phase = "DELAY" /\ r.absent /\ r.expired /\ lot[l].sig /\ lot[l].aged => buyTx[l] # "LANDED",
           UNCHANGED <<run, lot, positions, timers, entering, corePending, exitQ, buyTx>>
    PROVE  LInv'
<1>1. recov'[l] = r /\ (\A k \in Lots : k # l => recov'[k] = recov[k]) /\ \A k \in Lots : LotInv(k)
  BY DEF LInv, IInv, RecovOK
<1>2. LotInv(l)'
  <2>1. Fresh(l)' /\ Watched(l)' /\ lot'[l].mode \in ExitModes \cup {"PLAIN"}
    BY <1>1 DEF LotInv, Fresh, Watched
  <2>2. Fated(l)'
    BY <1>1 DEF LotInv, Fated
  <2>3. ASSUME ~Grad(l)' PROVE RowInv(l)' /\ MemInv(l)'
    BY <1>1, <2>3 DEF LotInv, RowInv, MemInv, Seeks, Alive, Grad
  <2>. QED BY <2>1, <2>2, <2>3 DEF LotInv
<1>3. \A k \in Lots : k # l => Untouched(k)
  BY <1>1 DEF Untouched
<1>4. Queues'
  BY <1>1, SteadySame, QueuesStay DEF Alive
<1>5. Called'
  <2>1. entering.lot = l => ~Calling
    BY Seeker
  <2>. QED BY <1>1, <1>3, <2>1, CalledStays
<1>. QED BY <1>2, <1>3, <1>4, <1>5, OneLot

LEMMA EntryUnknownLot ==
    ASSUME LInv, IInv', NEW l \in Lots, BuyTimesOut(l) \/ BuyUnseen(l)
    PROVE  LInv'
<1>1. /\ Alive /\ entering.lot = l /\ Calling
      /\ \A k \in Lots : k # l => buyTx'[k] = buyTx[k]
      /\ \E expired \in BOOLEAN : EntryUnknown(l, expired)
  <2>1. CASE BuyTimesOut(l)
    BY <2>1, FateOf DEF BuyTimesOut, Calling, LInv
  <2>2. CASE BuyUnseen(l)
    BY <2>2 DEF BuyUnseen, Calling, chainVars
  <2>. QED BY <2>1, <2>2
<1>2. /\ CallInv(l) /\ lot[l] \in LotRecord
      /\ ~Grad(l) => lot[l].amt = 0 /\ l \in positions /\ l \notin corePending /\ Still(timers[l])
  BY <1>1, Caller
<1>3. PICK expired \in BOOLEAN : EntryUnknown(l, expired)
  BY <1>1
<1>. DEFINE L == [lot EXCEPT ![l] = Unsettled(@, TRUE, expired)]
<1>4. /\ IInv /\ \A k \in Lots : LotInv(k)
      /\ L \in [Lots -> LotRecord] /\ L[l] = Unsettled(lot[l], TRUE, expired) /\ \A k \in Lots : k # l => L[k] = lot[k]
  BY UnsettledType DEF LInv, IInv, StoreOK
<1>5. /\ L[l].status = "EXIT_FAILED" /\ L[l].sig = TRUE /\ L[l].unknown = TRUE
      /\ L[l].amt = lot[l].amt /\ L[l].aged = lot[l].aged /\ L[l].mode = lot[l].mode /\ L[l].mint = lot[l].mint
  BY <1>2, <1>4 DEF Unsettled, LotRecord
<1>6. /\ UNCHANGED <<run, corePending, exitQ>>
      /\ \/ /\ lot' = L
            /\ recov' = [recov EXCEPT ![l] = Attempt(l, 1, expired)]
            /\ entering' = [entering EXCEPT !.step = "RECOVER"]
            /\ UNCHANGED <<positions, timers>>
         \/ RecoveryEnds(l, L, Unasked(expired))
  BY <1>3 DEF EntryUnknown, procVars
<1>. HIDE DEF L
<1>7. CASE RecoveryEnds(l, L, Unasked(expired))
  <2>. PICK r \in RecovRecord : r = Unasked(expired)
    BY AttemptType, LiveAssumption
  <2>3. RecoveryEnds(l, L, r)
    BY <1>7
  <2>1. ~Grad(l) => Seeks(l) /\ MemInv(l)
    BY <1>2, <1>4 DEF CallInv, Seeks, LotInv
  <2>2. ~lot[l].aged /\ lot[l].status # "NONE"
    BY <1>2 DEF CallInv
  <2>4. Alive /\ run' = run /\ UNCHANGED <<corePending, exitQ>>
    BY <1>1, <1>6
  <2>5. ~Grad(l) => Seeks(l) /\ Still(timers[l]) /\ l \notin corePending /\ MemInv(l)
    BY <1>2, <2>1
  <2>6. /\ lot[l].aged => buyTx'[l] # "FLYING"
        /\ L[l].sig /\ r.expired /\ r.absent /\ lot[l].aged => buyTx'[l] # "LANDED"
        /\ \A k \in Lots : k # l => buyTx'[k] = buyTx[k]
    BY <1>1, <2>2
  <2>7. PICK M \in [Lots -> LotRecord] : M = L
    BY <1>4
  <2>8. RecoveryEnds(l, M, r)
    BY <2>3, <2>7
  <2>9. /\ \A k \in Lots : k # l => M[k] = lot[k]
        /\ M[l].amt = lot[l].amt /\ M[l].aged = lot[l].aged /\ M[l].mode = lot[l].mode /\ M[l].mint = lot[l].mint
    BY <1>4, <1>5, <2>7
  <2>. QED BY <2>2, <2>4, <2>5, <2>6, <2>7, <2>8, <2>9, RecoveryEndsLot
<1>8. CASE /\ lot' = L
           /\ recov' = [recov EXCEPT ![l] = Attempt(l, 1, expired)]
           /\ entering' = [entering EXCEPT !.step = "RECOVER"]
           /\ UNCHANGED <<positions, timers>>
  <2>1. recov'[l].phase = "WAIT" /\ \A k \in Lots : k # l => recov'[k] = recov[k]
    BY <1>4, <1>8 DEF IInv, RecovOK, Attempt
  <2>2. entering'.lot = l /\ entering'.step = "RECOVER"
    BY <1>1, <1>4, <1>8 DEF IInv, EntryOK, EntryRecord
  <2>3. \A k \in Lots : k # l => Untouched(k) /\ lot'[k] = lot[k]
    BY <1>1, <1>4, <1>6, <1>8, <2>1 DEF Untouched
  <2>4. LotInv(l)'
    <3>1. Fresh(l)' /\ Watched(l)' /\ Fated(l)' /\ lot'[l].mode \in ExitModes \cup {"PLAIN"}
      BY <1>2, <1>4, <1>5, <1>8, <2>1 DEF Fresh, Watched, Fated, CallInv, LotInv
    <3>2. ASSUME ~Grad(l)' PROVE RowInv(l)' /\ MemInv(l)'
      <4>1. ~Grad(l) /\ lot'[l].amt = 0 /\ lot'[l].status = "EXIT_FAILED" /\ lot'[l].unknown
        BY <1>2, <1>5, <1>8, <3>2 DEF Grad
      <4>2. /\ timers'[l].live["HOLD"] = 0 /\ timers'[l].live["DEFER"] = 0 /\ timers'[l].live["RECOVER"] = 0
            /\ l \in positions' /\ l \notin corePending'
        BY <1>2, <1>6, <1>8, <4>1 DEF Still, TimerKinds
      <4>. QED BY <4>1, <4>2 DEF RowInv, MemInv, Seeks, Active
    <3>. QED BY <3>1, <3>2 DEF LotInv
  <2>5. Queues'
    <3>1. Steady(l)
      BY <1>2, <1>5, <1>6, <1>8 DEF Steady, Entered, CallInv, Grad
    <3>2. \A k \in Lots : k # l => Steady(k)
      BY <1>4, <1>6, <2>3, SteadySame
    <3>. QED BY <1>6, <3>1, <3>2, QueuesStay DEF Alive
  <2>6. Called'
    BY <2>1, <2>2 DEF Called, Calling, Lots, NoLot
  <2>. QED BY <1>1, <1>6, <2>2, <2>3, <2>4, <2>5, <2>6, OneLot
<1>. QED BY <1>6, <1>7, <1>8

LEMMA RecoveryUnsureLot == ASSUME LInv, IInv', NEW l \in Lots, RecoveryUnsure(l) PROVE LInv'
<1>1. /\ Alive /\ recov[l].phase = "WAIT" /\ recov[l].phase # "OFF"
      /\ UNCHANGED <<run, corePending, exitQ, buyTx>>
  BY DEF RecoveryUnsure, procVars, chainVars
<1>2. PICK expired \in BOOLEAN, absent \in BOOLEAN :
         /\ Unseen(l, expired, absent)
         /\ \/ /\ recov' = [recov EXCEPT ![l] = [[recov[l] EXCEPT !.expired = expired, !.absent = absent]
                                                   EXCEPT !.phase = "DELAY"]]
               /\ UNCHANGED <<lot, positions, timers, entering>>
            \/ RecoveryEnds(l, lot, [recov[l] EXCEPT !.expired = expired, !.absent = absent])
  BY DEF RecoveryUnsure
<1>3. /\ IInv /\ lot \in [Lots -> LotRecord] /\ lot[l].status # "NONE" /\ LotInv(l) /\ recov[l] \in RecovRecord
      /\ ~Grad(l) => Seeks(l) /\ Still(timers[l]) /\ l \notin corePending /\ MemInv(l)
  BY <1>1, Seeker, Amounts DEF IInv, StoreOK
<1>4. lot[l].aged => buyTx[l] # "FLYING"
  BY <1>3 DEF LotInv, Fated
<1>5. expired /\ absent /\ lot[l].aged /\ lot[l].sig => buyTx[l] # "LANDED"
  BY <1>2 DEF Unseen
<1>6. PICK r \in RecovRecord : r = [recov[l] EXCEPT !.expired = expired, !.absent = absent]
  BY <1>3 DEF RecovRecord
<1>7. (r.expired <=> expired) /\ (r.absent <=> absent)
  BY <1>3, <1>6 DEF RecovRecord
<1>8. CASE RecoveryEnds(l, lot, r)
  <2>1. lot[l].sig /\ r.expired /\ r.absent /\ lot[l].aged => buyTx[l] # "LANDED"
    BY <1>5, <1>7
  <2>2. PICK M \in [Lots -> LotRecord] : M = lot
    BY <1>3
  <2>3. RecoveryEnds(l, M, r)
    BY <1>8, <2>2
  <2>4. M[l] = lot[l] /\ \A k \in Lots : k # l => M[k] = lot[k]
    BY <2>2
  <2>. QED BY <1>1, <1>3, <1>4, <2>1, <2>2, <2>3, <2>4, RecoveryEndsLot
<1>9. CASE recov' = [recov EXCEPT ![l] = [r EXCEPT !.phase = "DELAY"]] /\ UNCHANGED <<lot, positions, timers, entering>>
  <2>1. PICK s \in RecovRecord : s = [r EXCEPT !.phase = "DELAY"]
    BY DEF RecovRecord
  <2>2. s.phase = "DELAY" /\ (s.expired <=> expired) /\ (s.absent <=> absent)
    BY <1>7, <2>1 DEF RecovRecord
  <2>3. recov' = [recov EXCEPT ![l] = s]
    BY <1>9, <2>1
  <2>4. s.phase = "DELAY" /\ s.absent /\ s.expired /\ lot[l].sig /\ lot[l].aged => buyTx[l] # "LANDED"
    BY <1>5, <2>2
  <2>. QED BY <1>1, <1>9, <2>2, <2>3, <2>4, RecoveryGoesOn
<1>. QED BY <1>2, <1>6, <1>8, <1>9

LEMMA RecoveryRetriesLot == ASSUME LInv, IInv', NEW l \in Lots, RecoveryRetries(l) PROVE LInv'
<1>1. /\ Alive /\ recov[l].phase = "DELAY" /\ recov[l].phase # "OFF"
      /\ UNCHANGED <<run, corePending, exitQ, buyTx>>
  BY DEF RecoveryRetries, procVars, chainVars
<1>2. /\ IInv /\ lot \in [Lots -> LotRecord] /\ lot[l].status # "NONE" /\ LotInv(l) /\ recov[l] \in RecovRecord
      /\ ~Grad(l) => Seeks(l) /\ Still(timers[l]) /\ l \notin corePending /\ MemInv(l)
  BY <1>1, Seeker, Amounts DEF IInv, StoreOK
<1>3. CASE RecoveryEnds(l, lot, recov[l])
  <2>1. PICK r \in RecovRecord : r = recov[l]
    BY <1>2
  <2>2. PICK M \in [Lots -> LotRecord] : M = lot
    BY <1>2
  <2>3. RecoveryEnds(l, M, r)
    BY <1>3, <2>1, <2>2
  <2>4. /\ lot[l].aged => buyTx[l] # "FLYING"
        /\ lot[l].sig /\ r.expired /\ r.absent /\ lot[l].aged => buyTx[l] # "LANDED"
    BY <1>1, <1>2, <2>1 DEF LotInv, Fated
  <2>5. M[l] = lot[l] /\ \A k \in Lots : k # l => M[k] = lot[k]
    BY <2>2
  <2>. QED BY <1>1, <1>2, <2>2, <2>3, <2>4, <2>5, RecoveryEndsLot
<1>4. CASE /\ recov' = [recov EXCEPT ![l] = Attempt(l, @.tries + 1, @.expired)]
           /\ UNCHANGED <<lot, positions, timers, entering>>
  <2>1. recov'[l] \in RecovRecord /\ recov' = [recov EXCEPT ![l] = recov'[l]] /\ recov'[l].phase = "WAIT"
    BY <1>2, <1>4 DEF IInv, RecovOK, Attempt
  <2>2. PICK r \in RecovRecord : r = recov'[l]
    BY <2>1
  <2>. QED BY <1>1, <1>4, <2>1, <2>2, RecoveryGoesOn
<1>. QED BY <1>3, <1>4 DEF RecoveryRetries

LEMMA RecoveryFailsLot == ASSUME LInv, IInv', NEW l \in Lots, RecoveryFails(l) PROVE LInv'
<1>1. /\ Alive /\ recov[l].phase # "OFF" /\ buyTx[l] = "ERR" /\ lot' = [lot EXCEPT ![l] = Failed(@, TRUE)]
      /\ positions' = positions \ {l} /\ recov' = [recov EXCEPT ![l] = NoRecov] /\ entering' = EntryDone(l)
      /\ UNCHANGED <<run, timers, corePending, exitQ, buyTx>>
  BY DEF RecoveryFails, procVars, chainVars
<1>2. /\ IInv /\ LotInv(l) /\ lot[l] \in LotRecord
      /\ ~Grad(l) => Seeks(l) /\ Still(timers[l]) /\ l \notin corePending
      /\ \A k \in Lots : LotInv(k)
  BY <1>1, Seeker DEF LInv
<1>3. /\ lot'[l] = Failed(lot[l], TRUE) /\ recov'[l] = NoRecov
      /\ \A k \in Lots : k # l => lot'[k] = lot[k] /\ recov'[k] = recov[k]
  BY <1>1, <1>2 DEF IInv, StoreOK, RecovOK
<1>4. /\ lot'[l].status = "ENTRY_FAILED" /\ lot'[l].amt = lot[l].amt /\ lot'[l].unknown = FALSE
      /\ lot'[l].mode = lot[l].mode /\ lot'[l].aged = lot[l].aged /\ lot'[l].mint = lot[l].mint
      /\ recov'[l].phase = "OFF"
  BY <1>2, <1>3 DEF Failed, LotRecord, NoRecov
<1>5. LotInv(l)'
  <2>1. Fresh(l)' /\ Watched(l)' /\ Fated(l)' /\ lot'[l].mode \in ExitModes \cup {"PLAIN"}
    BY <1>1, <1>2, <1>4 DEF Fresh, Watched, Fated, LotInv
  <2>2. ASSUME ~Grad(l)' PROVE RowInv(l)' /\ MemInv(l)'
    <3>1. ~Grad(l)
      BY <1>4, <2>2 DEF Grad
    <3>2. lot[l].amt = 0 /\ Still(timers[l]) /\ l \notin corePending
      BY <1>2, <3>1 DEF Seeks
    <3>3. RowInv(l)'
      BY <1>4, <3>2 DEF RowInv
    <3>4. lot'[l].amt = 0 /\ l \notin positions' /\ l \notin corePending' /\ Still(timers'[l])
      BY <1>1, <1>4, <3>2
    <3>5. MemInv(l)'
      BY <1>4, <3>4 DEF MemInv, Still, TimerKinds, Active
    <3>. QED BY <3>3, <3>5
  <2>. QED BY <2>1, <2>2 DEF LotInv
<1>6. \A k \in Lots : k # l => Untouched(k)
  BY <1>1, <1>3 DEF Untouched
<1>7. Called' /\ \A k \in Lots : k # l => entering'.lot # k \/ entering'.lot = entering.lot
  BY <1>1, <1>6, EntryDoneCalled
<1>8. Queues'
  <2>1. Steady(l)
    BY <1>1, <1>2, <1>4 DEF Steady, Entered, Grad, Seeks
  <2>2. \A k \in Lots : k # l => Steady(k)
    BY <1>1, <1>2, <1>3, SteadySame
  <2>. QED BY <1>1, <2>1, <2>2, QueuesStay DEF Alive
<1>. QED BY <1>1, <1>5, <1>6, <1>7, <1>8, OneLot

-----------------------------------------------------------------------------
(* Requests for an exit *)

\* What a request does to a lot, as a case distinction.
LEMMA RequestCases ==
    ASSUME NEW l \in Lots, NEW reason \in ExitReasons,
           NEW L \in [Lots -> LotRecord], NEW T \in [Lots -> TimerRecord], RequestExit(l, reason, L, T)
    PROVE  /\ \A k \in Lots : k # l => lot'[k] = L[k] /\ timers'[k] = T[k]
           /\ \/ /\ run # "UP" \/ L[l].status \notin {"OPEN", "EXIT_FAILED"}
                 /\ lot'[l] = L[l] /\ timers'[l] = T[l] /\ exitQ' = exitQ
              \/ /\ L[l].status \in {"OPEN", "EXIT_FAILED"} /\ l \in corePending
                 /\ lot'[l] = L[l] /\ timers'[l] = Scheduled(T[l], "DEFER") /\ exitQ' = exitQ
              \/ /\ run = "UP" /\ L[l].status \in {"OPEN", "EXIT_FAILED"} /\ l \notin corePending
                 /\ lot'[l] = Exiting(L[l]) /\ timers'[l] = T[l] /\ exitQ' = Enqueued(l, reason)
BY DEF RequestExit

\* A timer or a price asks for the exit of a lot that was opened.
LEMMA RequestLot ==
    ASSUME LInv, IInv', NEW l \in Lots, NEW reason \in ExitReasons, NEW T \in [Lots -> TimerRecord],
           RequestExit(l, reason, lot, T), Alive,
           \A k \in Lots : k # l => T[k] = timers[k],
           T[l].live["RECOVER"] = timers[l].live["RECOVER"],
           lot[l].status # "NONE", ~Grad(l) => lot[l].amt > 0,
           reason = "TAKE_PROFIT" => lot[l].mode = "PLAIN",
           UNCHANGED <<run, positions, corePending, entering, recov, buyTx>>
    PROVE  LInv'
<1>1. /\ IInv /\ \A k \in Lots : LotInv(k) /\ lot[k] \in LotRecord /\ lot[k].amt \in Nat
      /\ lot \in [Lots -> LotRecord]
  BY Amounts DEF LInv, IInv, StoreOK
<1>2. /\ \A k \in Lots : k # l => lot'[k] = lot[k] /\ timers'[k] = T[k]
      /\ \/ /\ run # "UP" \/ lot[l].status \notin {"OPEN", "EXIT_FAILED"}
            /\ lot'[l] = lot[l] /\ timers'[l] = T[l] /\ exitQ' = exitQ
         \/ /\ lot[l].status \in {"OPEN", "EXIT_FAILED"} /\ l \in corePending
            /\ lot'[l] = lot[l] /\ timers'[l] = Scheduled(T[l], "DEFER") /\ exitQ' = exitQ
         \/ /\ run = "UP" /\ lot[l].status \in {"OPEN", "EXIT_FAILED"} /\ l \notin corePending
            /\ lot'[l] = Exiting(lot[l]) /\ timers'[l] = T[l] /\ exitQ' = Enqueued(l, reason)
  <2>1. PICK L \in [Lots -> LotRecord] : L = lot
    BY <1>1
  <2>2. RequestExit(l, reason, L, T)
    BY <2>1
  <2>. QED BY <2>1, <2>2, RequestCases
<1>3. \A k \in Lots : k # l => Untouched(k)
  BY <1>2 DEF Untouched
<1>4. T[l] \in TimerRecord /\ timers[l] \in TimerRecord /\ T[l].live["DEFER"] \in Nat /\ T[l].live["RECOVER"] \in Nat
  BY <1>1, Lives DEF TimerRecord, TimerKinds
<1>5. ASSUME ~Grad(l)
      PROVE  /\ lot[l].amt > 0 /\ recov[l].phase = "OFF" /\ timers[l].live["RECOVER"] = 0
             /\ l \in corePending => lot[l].status = "OPEN"
             /\ l \in positions <=> lot[l].status \in Active
             /\ RowInv(l)
  <2>1. RowInv(l) /\ MemInv(l) /\ lot[l].amt > 0
    BY <1>1, <1>5 DEF LotInv
  <2>2. timers[l].live["RECOVER"] \in Nat
    BY <1>4
  <2>. QED BY <1>1, <2>1, <2>2 DEF MemInv, Seeks
<1>6. ASSUME lot'[l] = lot[l], exitQ' = exitQ,
             \/ timers'[l] = T[l] /\ (run # "UP" \/ lot[l].status # "OPEN")
             \/ timers'[l] = Scheduled(T[l], "DEFER")
      PROVE  LInv'
  <2>1. /\ timers'[l].live["RECOVER"] = timers[l].live["RECOVER"]
        /\ timers'[l].live["DEFER"] > 0 \/ run # "UP" \/ lot[l].status # "OPEN"
    BY <1>4, <1>6, ScheduledLives DEF TimerKinds
  <2>2. LotInv(l)'
    <3>1. Fresh(l)' /\ Watched(l)' /\ Fated(l)' /\ lot'[l].mode \in ExitModes \cup {"PLAIN"}
      BY <1>1, <1>6, <2>1 DEF Fresh, Watched, Fated, LotInv
    <3>2. ASSUME ~Grad(l)' PROVE RowInv(l)' /\ MemInv(l)'
      <4>1. ~Grad(l)
        BY <1>6, <3>2 DEF Grad
      <4>2. RowInv(l)'
        BY <1>5, <1>6, <4>1 DEF RowInv
      <4>3. MemInv(l)'
        BY <1>1, <1>5, <1>6, <2>1, <4>1 DEF MemInv, Alive
      <4>. QED BY <4>2, <4>3
    <3>. QED BY <3>1, <3>2 DEF LotInv
  <2>3. Queues'
    BY <1>1, <1>2, <1>6, SteadySame, QueuesStay DEF Alive
  <2>4. Called'
    <3>1. CASE entering.lot \in Lots
      <4>1. lot'[entering.lot] = lot[entering.lot]
        BY <1>2, <1>6, <3>1
      <4>. QED BY <3>1, <4>1 DEF LInv, Called, CallInv, Calling
    <3>2. CASE entering.lot \notin Lots
      BY <1>1, <3>2 DEF LInv, Called, CallInv, Calling, IInv, EntryOK, EntryRecord, NoLot
    <3>. QED BY <3>1, <3>2
  <2>. QED BY <1>3, <2>2, <2>3, <2>4, OneLot
<1>7. ASSUME run = "UP", lot[l].status \in {"OPEN", "EXIT_FAILED"}, l \notin corePending,
             lot'[l] = Exiting(lot[l]), timers'[l] = T[l], exitQ' = Enqueued(l, reason)
      PROVE  LInv'
  <2>1. /\ lot'[l].status = "EXITING" /\ lot'[l].amt = lot[l].amt /\ lot'[l].sig = lot[l].sig /\ lot'[l].unknown = FALSE
        /\ lot'[l].mode = lot[l].mode /\ lot'[l].aged = lot[l].aged /\ lot'[l].mint = lot[l].mint
    BY <1>1, <1>7 DEF Exiting, LotRecord
  <2>2. LotInv(l)'
    <3>1. Fresh(l)' /\ Watched(l)' /\ Fated(l)' /\ lot'[l].mode \in ExitModes \cup {"PLAIN"}
      BY <1>1, <2>1 DEF Fresh, Watched, Fated, LotInv
    <3>2. ASSUME ~Grad(l)' PROVE RowInv(l)' /\ MemInv(l)'
      <4>1. ~Grad(l)
        BY <2>1, <3>2 DEF Grad
      <4>2. RowInv(l)'
        BY <1>5, <2>1, <4>1 DEF RowInv
      <4>3. MemInv(l)'
        BY <1>1, <1>5, <1>7, <2>1, <4>1 DEF MemInv, Active
      <4>. QED BY <4>2, <4>3
    <3>. QED BY <3>1, <3>2 DEF LotInv
  <2>3. Queues'
    <3>1. \A k \in Lots : k # l => Steady(k)
      BY <1>1, <1>2, SteadySame
    <3>2. reason \in TaskKinds /\ reason # "CORE"
      BY DEF TaskKinds, ExitReasons
    <3>. QED BY <1>7, <2>1, <3>1, <3>2, QueuesAdd DEF Entered, Alive
  <2>4. Called'
    <3>1. entering.lot = l => ~Calling
      BY <1>7 DEF LInv, Called, CallInv
    <3>. QED BY <1>3, <3>1 DEF LInv, Called, CallInv, Calling, Untouched, IInv, EntryOK, EntryRecord, NoLot
  <2>. QED BY <1>3, <2>2, <2>3, <2>4, OneLot
<1>. QED BY <1>2, <1>6, <1>7

LEMMA TimerFires ==
    ASSUME LInv, IInv', NEW l \in Lots, HoldFires(l) \/ DeferFires(l)
    PROVE  LInv'
<1>1. PICK k \in {"HOLD", "DEFER"} :
         /\ Alive /\ timers[l].live[k] > 0
         /\ RequestExit(l, "NORMAL", lot, [timers EXCEPT ![l] = Fired(@, k)])
         /\ UNCHANGED <<run, positions, corePending, entering, recov, buyTx>>
  BY DEF HoldFires, DeferFires, procVars, chainVars
<1>2. timers[l] \in TimerRecord /\ timers \in [Lots -> TimerRecord] /\ LotInv(l) /\ k \in TimerKinds
      /\ lot[l].amt \in Nat
  BY Lives, Amounts DEF LInv, IInv, MemOK, TimerKinds
<1>3. PICK T \in [Lots -> TimerRecord] : T = [timers EXCEPT ![l] = Fired(@, k)]
  BY <1>1, <1>2, FiredType
<1>4. T[l] = Fired(timers[l], k) /\ \A j \in Lots : j # l => T[j] = timers[j]
  BY <1>2, <1>3
<1>5. T[l].live["RECOVER"] = timers[l].live["RECOVER"]
  BY <1>1, <1>2, <1>4, FiredLives DEF TimerKinds
<1>6. lot[l].status # "NONE"
  BY <1>1, <1>2 DEF LotInv, Fresh, Still
<1>7. ~Grad(l) => lot[l].amt > 0
  BY <1>1, <1>2 DEF LotInv, MemInv
<1>8. RequestExit(l, "NORMAL", lot, T)
  BY <1>1, <1>3
<1>. QED BY <1>1, <1>4, <1>5, <1>6, <1>7, <1>8, RequestLot DEF ExitReasons

LEMMA PriceExitLot ==
    ASSUME LInv, IInv', NEW l \in Lots, NEW reason \in {"NORMAL", "TAKE_PROFIT"}, PriceExit(l, reason)
    PROVE  LInv'
<1>1. /\ Alive /\ lot[l].status = "OPEN" /\ (reason = "TAKE_PROFIT" => lot[l].mode = "PLAIN")
      /\ RequestExit(l, reason, lot, timers)
      /\ UNCHANGED <<run, positions, corePending, entering, recov, buyTx>>
  BY DEF PriceExit, procVars, chainVars, Alive
<1>2. timers \in [Lots -> TimerRecord] /\ LotInv(l) /\ lot[l].amt \in Nat
  BY Amounts DEF LInv, IInv, MemOK
<1>3. ~Grad(l) => lot[l].amt > 0
  BY <1>1, <1>2 DEF LotInv, RowInv
<1>4. PICK T \in [Lots -> TimerRecord] : T = timers
  BY <1>2
<1>5. RequestExit(l, reason, lot, T) /\ T[l].live["RECOVER"] = timers[l].live["RECOVER"]
      /\ \A k \in Lots : k # l => T[k] = timers[k]
  BY <1>1, <1>4
<1>. QED BY <1>1, <1>3, <1>5, RequestLot DEF ExitReasons


\* The recovery found the tokens: the lot opens, or goes straight to its exit.
LEMMA RecoveryConfirmsLot == ASSUME LInv, IInv', NEW l \in Lots, RecoveryConfirms(l) PROVE LInv'
<1>1. /\ Alive /\ recov[l].phase # "OFF" /\ recov' = [recov EXCEPT ![l] = NoRecov] /\ entering' = EntryDone(l)
      /\ UNCHANGED <<run, positions, corePending, buyTx>>
  BY DEF RecoveryConfirms, procVars, chainVars
<1>2. /\ IInv /\ LotInv(l) /\ lot[l] \in LotRecord /\ lot[l].status # "NONE"
      /\ ~Grad(l) => Seeks(l) /\ Still(timers[l]) /\ l \notin corePending /\ MemInv(l)
      /\ \A k \in Lots : LotInv(k)
      /\ lot \in [Lots -> LotRecord] /\ timers \in [Lots -> TimerRecord] /\ recov \in [Lots -> RecovRecord]
  BY <1>1, Seeker DEF LInv, IInv, StoreOK, MemOK, RecovOK
<1>3. PICK amount \in Nat \ {0} :
         \/ RequestExit(l, "NORMAL", [lot EXCEPT ![l] = Opened(@, @.sig, amount)], timers)
         \/ /\ lot' = [lot EXCEPT ![l] = Opened(@, @.sig, amount)]
            /\ timers' = [timers EXCEPT ![l] = Armed(@, "HOLD")]
            /\ exitQ' = exitQ
  <2>1. wallet[lot[l].mint] \in Nat
    BY <1>2, MintType DEF IInv, ChainOK
  <2>2. PICK amount \in {LotAmount, wallet[lot[l].mint]} :
           /\ ReceiptSeen(l, amount) \/ BalanceSeen(l, amount)
           /\ LET L == [lot EXCEPT ![l] = Opened(@, @.sig, amount)]
              IN  \/ RequestExit(l, "NORMAL", L, timers)
                  \/ /\ lot' = L
                     /\ timers' = [timers EXCEPT ![l] = Armed(@, "HOLD")]
                     /\ UNCHANGED exitQ
    BY DEF RecoveryConfirms
  <2>3. amount \in Nat \ {0}
    BY <2>1, <2>2, LiveAssumption DEF ReceiptSeen, BalanceSeen
  <2>. QED BY <2>2, <2>3
<1>4. lot[l].sig \in BOOLEAN
  BY <1>2, Amounts
<1>5. PICK L \in [Lots -> LotRecord] : L = [lot EXCEPT ![l] = Opened(@, @.sig, amount)]
  BY <1>2, <1>4, OpenedType
<1>6. L[l] = Opened(lot[l], lot[l].sig, amount) /\ \A k \in Lots : k # l => L[k] = lot[k]
  BY <1>2, <1>5
<1>7. /\ L[l].status = "OPEN" /\ L[l].amt = amount /\ L[l].unknown = FALSE
      /\ L[l].mode = lot[l].mode /\ L[l].aged = lot[l].aged /\ L[l].mint = lot[l].mint
  BY <1>2, <1>6 DEF Opened, LotRecord
<1>8. PICK T \in [Lots -> TimerRecord] : T = timers
  BY <1>2
<1>9. recov'[l].phase = "OFF" /\ \A k \in Lots : k # l => recov'[k] = recov[k]
  BY <1>1, <1>2 DEF NoRecov
<1>10. \/ RequestExit(l, "NORMAL", L, T)
       \/ lot' = L /\ timers' = [timers EXCEPT ![l] = Armed(@, "HOLD")] /\ exitQ' = exitQ
  BY <1>3, <1>5, <1>8
<1>11. /\ \A k \in Lots : k # l => lot'[k] = lot[k] /\ timers'[k] = timers[k]
       /\ \/ /\ run # "UP"
             /\ lot'[l] = L[l] /\ timers'[l] = timers[l] /\ exitQ' = exitQ
          \/ /\ l \in corePending
             /\ lot'[l] = L[l] /\ timers'[l] = Scheduled(timers[l], "DEFER") /\ exitQ' = exitQ
          \/ lot'[l] = L[l] /\ timers'[l] = Armed(timers[l], "HOLD") /\ exitQ' = exitQ
          \/ lot'[l] = Exiting(L[l]) /\ timers'[l] = timers[l] /\ exitQ' = Enqueued(l, "NORMAL")
  <2>1. CASE RequestExit(l, "NORMAL", L, T)
    <3>1. "NORMAL" \in ExitReasons
      BY DEF ExitReasons
    <3>2. /\ \A k \in Lots : k # l => lot'[k] = L[k] /\ timers'[k] = T[k]
          /\ \/ /\ run # "UP" \/ L[l].status \notin {"OPEN", "EXIT_FAILED"}
                /\ lot'[l] = L[l] /\ timers'[l] = T[l] /\ exitQ' = exitQ
             \/ /\ L[l].status \in {"OPEN", "EXIT_FAILED"} /\ l \in corePending
                /\ lot'[l] = L[l] /\ timers'[l] = Scheduled(T[l], "DEFER") /\ exitQ' = exitQ
             \/ /\ run = "UP" /\ L[l].status \in {"OPEN", "EXIT_FAILED"} /\ l \notin corePending
                /\ lot'[l] = Exiting(L[l]) /\ timers'[l] = T[l] /\ exitQ' = Enqueued(l, "NORMAL")
      BY <2>1, <3>1, RequestCases
    <3>. QED BY <1>6, <1>7, <1>8, <3>2
  <2>2. CASE lot' = L /\ timers' = [timers EXCEPT ![l] = Armed(@, "HOLD")] /\ exitQ' = exitQ
    BY <1>2, <1>6, <2>2
  <2>. QED BY <1>10, <2>1, <2>2
<1>12. \A k \in Lots : k # l => Untouched(k)
  BY <1>1, <1>9, <1>11 DEF Untouched
<1>13. Called' /\ \A k \in Lots : k # l => entering'.lot # k \/ entering'.lot = entering.lot
  BY <1>1, <1>12, EntryDoneCalled
<1>14. /\ timers[l].live["HOLD"] \in Nat /\ timers[l].live["DEFER"] \in Nat /\ timers[l].live["RECOVER"] \in Nat
       /\ timers[l] \in TimerRecord
  BY <1>2, Lives DEF TimerKinds
<1>15. \A k \in Lots : k # l => Steady(k)
  BY <1>1, <1>2, <1>11, SteadySame
<1>16. ASSUME lot'[l] = L[l], exitQ' = exitQ,
              run # "UP" \/ timers'[l].live["HOLD"] > 0 \/ timers'[l].live["DEFER"] > 0,
              ~Grad(l) => timers'[l].live["RECOVER"] = 0
       PROVE  LInv'
  <2>1. LotInv(l)'
    <3>1. Fresh(l)' /\ Watched(l)' /\ Fated(l)' /\ lot'[l].mode \in ExitModes \cup {"PLAIN"}
      BY <1>1, <1>2, <1>7, <1>9, <1>16 DEF Fresh, Watched, Fated, LotInv
    <3>2. ASSUME ~Grad(l)' PROVE RowInv(l)' /\ MemInv(l)'
      <4>1. ~Grad(l)
        BY <1>7, <1>16, <3>2 DEF Grad
      <4>2. RowInv(l)'
        BY <1>7, <1>16 DEF RowInv
      <4>3. /\ lot'[l].amt # 0 /\ lot'[l].status = "OPEN" /\ timers'[l].live["RECOVER"] = 0
            /\ l \in positions' /\ l \notin corePending' /\ recov'[l].phase = "OFF"
        BY <1>1, <1>2, <1>7, <1>9, <1>16, <4>1 DEF MemInv, Seeks, Active
      <4>4. MemInv(l)'
        BY <4>3 DEF MemInv, Active
      <4>. QED BY <4>2, <4>4
    <3>. QED BY <3>1, <3>2 DEF LotInv
  <2>2. Steady(l)
    BY <1>1, <1>2, <1>7, <1>16 DEF Steady, Entered, Grad, Seeks
  <2>3. Queues'
    BY <1>1, <1>15, <1>16, <2>2, QueuesStay DEF Alive
  <2>. QED BY <1>1, <1>12, <1>13, <2>1, <2>3, OneLot
<1>17. CASE lot'[l] = L[l] /\ exitQ' = exitQ /\ run # "UP" /\ timers'[l] = timers[l]
  <2>1. ~Grad(l) => timers'[l].live["RECOVER"] = 0
    BY <1>2, <1>17 DEF Still, TimerKinds
  <2>. QED BY <1>16, <1>17, <2>1
<1>18. CASE lot'[l] = L[l] /\ exitQ' = exitQ /\ l \in corePending /\ timers'[l] = Scheduled(timers[l], "DEFER")
  <2>1. timers'[l].live["DEFER"] > 0
    BY <1>14, <1>18, ScheduledLives DEF TimerKinds
  <2>2. Grad(l)
    BY <1>2, <1>18
  <2>. QED BY <1>16, <1>18, <2>1, <2>2
<1>19. CASE lot'[l] = L[l] /\ exitQ' = exitQ /\ timers'[l] = Armed(timers[l], "HOLD")
  <2>1. timers'[l].live["HOLD"] > 0
    BY <1>14, <1>19, ArmedLives DEF TimerKinds
  <2>2. timers'[l].live["RECOVER"] \in Nat /\ timers'[l].live["RECOVER"] <= timers[l].live["RECOVER"]
    BY <1>14, <1>19, ArmedLives DEF TimerKinds
  <2>3. ~Grad(l) => timers'[l].live["RECOVER"] = 0
    BY <1>2, <2>2 DEF Still, TimerKinds
  <2>. QED BY <1>16, <1>19, <2>1, <2>3
<1>20. CASE lot'[l] = Exiting(L[l]) /\ timers'[l] = timers[l] /\ exitQ' = Enqueued(l, "NORMAL")
  <2>1. /\ lot'[l].status = "EXITING" /\ lot'[l].amt = amount /\ lot'[l].unknown = FALSE
        /\ lot'[l].mode = lot[l].mode /\ lot'[l].aged = lot[l].aged /\ lot'[l].mint = lot[l].mint
    BY <1>5, <1>7, <1>20 DEF Exiting, LotRecord
  <2>2. LotInv(l)'
    <3>1. Fresh(l)' /\ Watched(l)' /\ Fated(l)' /\ lot'[l].mode \in ExitModes \cup {"PLAIN"}
      BY <1>1, <1>2, <1>9, <2>1 DEF Fresh, Watched, Fated, LotInv
    <3>2. ASSUME ~Grad(l)' PROVE RowInv(l)' /\ MemInv(l)'
      <4>1. ~Grad(l)
        BY <2>1, <3>2 DEF Grad
      <4>2. RowInv(l)'
        BY <2>1 DEF RowInv
      <4>3. timers'[l].live["RECOVER"] = 0
        BY <1>2, <1>20, <4>1 DEF Still, TimerKinds
      <4>4. /\ lot'[l].amt # 0
            /\ l \in positions' /\ l \notin corePending' /\ recov'[l].phase = "OFF"
        BY <1>1, <1>2, <1>9, <2>1, <4>1 DEF MemInv, Seeks, Active
      <4>5. MemInv(l)'
        BY <2>1, <4>3, <4>4 DEF MemInv, Active
      <4>. QED BY <4>2, <4>5
    <3>. QED BY <3>1, <3>2 DEF LotInv
  <2>3. Queues'
    <3>1. "NORMAL" \in TaskKinds
      BY DEF TaskKinds, ExitReasons
    <3>2. ~Grad(l) => lot[l].status # "EXITING" /\ l \notin corePending /\ l \notin corePending'
      BY <1>1, <1>2 DEF Seeks
    <3>3. Entered(l)' /\ (Alive' => Alive)
      BY <1>1, <2>1 DEF Entered, Alive
    <3>. QED BY <1>15, <1>20, <2>1, <3>1, <3>2, <3>3, QueuesAdd
  <2>. QED BY <1>1, <1>12, <1>13, <2>2, <2>3, OneLot
<1>. QED BY <1>11, <1>17, <1>18, <1>19, <1>20

\* The recovery timer fires.
LEMMA RecoverFiresLot == ASSUME LInv, IInv', NEW l \in Lots, RecoverFires(l) PROVE LInv'
<1>1. /\ Alive /\ timers[l].live["RECOVER"] > 0 /\ lot[l].aged
      /\ timers' = [timers EXCEPT ![l] = Fired(@, "RECOVER")]
      /\ \/ recov' = recov
         \/ run = "UP" /\ recov' = [recov EXCEPT ![l] = Attempt(l, 1, lot[l].expired)]
      /\ UNCHANGED <<run, lot, positions, corePending, entering, exitQ, buyTx>>
  BY DEF RecoverFires, procVars, storeVars, chainVars
<1>2. /\ IInv /\ LotInv(l) /\ timers[l] \in TimerRecord /\ \A k \in Lots : LotInv(k)
      /\ timers \in [Lots -> TimerRecord] /\ recov \in [Lots -> RecovRecord]
      /\ timers[l].live["RECOVER"] \in Nat
  BY Lives DEF LInv, IInv, MemOK, RecovOK, TimerKinds
<1>3. /\ timers'[l] = Fired(timers[l], "RECOVER")
      /\ \A k \in Lots : k # l => timers'[k] = timers[k] /\ recov'[k] = recov[k]
      /\ recov'[l] = recov[l] \/ (run = "UP" /\ recov'[l].phase = "WAIT")
  BY <1>1, <1>2 DEF Attempt
<1>4. /\ timers'[l].live["HOLD"] = timers[l].live["HOLD"] /\ timers'[l].live["DEFER"] = timers[l].live["DEFER"]
      /\ timers'[l].live["RECOVER"] = timers[l].live["RECOVER"] - 1
  BY <1>2, <1>3, FiredLives DEF TimerKinds
<1>5. lot[l].status # "NONE"
  BY <1>1, <1>2 DEF LotInv, Fresh, Still, TimerKinds
<1>6. LotInv(l)'
  <2>1. Fresh(l)' /\ Watched(l)' /\ lot'[l].mode \in ExitModes \cup {"PLAIN"}
    BY <1>1, <1>2, <1>4, <1>5 DEF Fresh, Watched, LotInv
  <2>2. Fated(l)'
    BY <1>1, <1>2, <1>3 DEF LotInv, Fated
  <2>3. ASSUME ~Grad(l)' PROVE RowInv(l)' /\ MemInv(l)'
    <3>1. ~Grad(l) /\ RowInv(l) /\ MemInv(l)
      BY <1>1, <1>2, <2>3 DEF Grad, LotInv
    <3>2. /\ lot[l].amt = 0 /\ lot[l].status = "EXIT_FAILED" /\ timers[l].live["RECOVER"] = 1
          /\ timers[l].live["HOLD"] = 0 /\ timers[l].live["DEFER"] = 0
      BY <1>1, <3>1 DEF MemInv
    <3>3. /\ timers'[l].live["HOLD"] = 0 /\ timers'[l].live["DEFER"] = 0 /\ timers'[l].live["RECOVER"] = 0
      BY <1>4, <3>2
    <3>4. RowInv(l)'
      BY <1>1, <3>1 DEF RowInv
    <3>5. Seeks(l)'
      BY <1>1, <3>2 DEF Seeks
    <3>6. MemInv(l)'
      BY <1>1, <3>1, <3>2, <3>3, <3>5 DEF MemInv, Alive
    <3>. QED BY <3>4, <3>6
  <2>. QED BY <2>1, <2>2, <2>3 DEF LotInv
<1>7. \A k \in Lots : k # l => Untouched(k)
  BY <1>1, <1>3 DEF Untouched
<1>8. Queues'
  BY <1>1, <1>2, SteadySame, QueuesStay DEF Alive
<1>9. Called'
  <2>1. CASE entering.lot \in Lots \ {l}
    BY <1>1, <1>7, <2>1, CalledStays
  <2>2. CASE entering.lot \notin Lots
    BY <1>1, <2>2, CalledStays
  <2>3. CASE entering.lot = l
    <3>1. ~Calling
      BY <1>1, <2>3 DEF LInv, Called, CallInv
    <3>2. recov[l].phase # "OFF" => recov'[l].phase # "OFF"
      BY <1>3
    <3>. QED BY <1>1, <2>3, <3>1, <3>2 DEF LInv, Called, Calling
  <2>. QED BY <2>1, <2>2, <2>3
<1>. QED BY <1>1, <1>6, <1>7, <1>8, <1>9, OneLot

\* The core of a lot is to be sold.
LEMMA RequestCoreExitLot == ASSUME LInv, IInv', NEW l \in Lots, RequestCoreExit(l) PROVE LInv'
<1>1. /\ run = "UP" /\ lot[l].status = "OPEN" /\ l \notin corePending
      /\ lot' = [lot EXCEPT ![l] = [@ EXCEPT !.coreTried = TRUE]]
      /\ corePending' = corePending \cup {l} /\ exitQ' = Enqueued(l, "CORE")
      /\ UNCHANGED <<run, positions, timers, entering, recov, buyTx>>
  BY DEF RequestCoreExit, procVars, chainVars
<1>2. /\ IInv /\ LotInv(l) /\ lot[l] \in LotRecord /\ lot \in [Lots -> LotRecord] /\ \A k \in Lots : LotInv(k)
  BY DEF LInv, IInv, StoreOK
<1>3. /\ lot'[l] = [lot[l] EXCEPT !.coreTried = TRUE]
      /\ \A k \in Lots : k # l => lot'[k] = lot[k]
  BY <1>1, <1>2
<1>4. /\ lot'[l].status = "OPEN" /\ lot'[l].amt = lot[l].amt /\ (lot'[l].sig <=> lot[l].sig)
      /\ (lot'[l].unknown <=> lot[l].unknown) /\ (lot'[l].aged <=> lot[l].aged)
      /\ lot'[l].mode = lot[l].mode /\ lot'[l].mint = lot[l].mint
  BY <1>1, <1>2, <1>3 DEF LotRecord
<1>5. LotInv(l)'
  <2>1. Fresh(l)' /\ Watched(l)' /\ Fated(l)' /\ lot'[l].mode \in ExitModes \cup {"PLAIN"}
    BY <1>1, <1>2, <1>4 DEF Fresh, Watched, Fated, LotInv
  <2>2. ASSUME ~Grad(l)' PROVE RowInv(l)' /\ MemInv(l)'
    <3>1. ~Grad(l) /\ RowInv(l) /\ MemInv(l)
      BY <1>2, <1>4, <2>2 DEF Grad, LotInv
    <3>2. RowInv(l)'
      BY <1>1, <1>4, <3>1 DEF RowInv
    <3>3. MemInv(l)'
      BY <1>1, <1>4, <3>1 DEF MemInv, Seeks, Alive
    <3>. QED BY <3>2, <3>3
  <2>. QED BY <2>1, <2>2 DEF LotInv
<1>6. \A k \in Lots : k # l => Untouched(k)
  BY <1>1, <1>3 DEF Untouched
<1>7. Queues'
  <2>1. \A k \in Lots : k # l => Steady(k)
    BY <1>2, <1>3, <1>6, SteadySame DEF Untouched
  <2>2. "CORE" \in TaskKinds /\ Entered(l)' /\ (Alive' => Alive)
    BY <1>1, <1>4 DEF TaskKinds, Entered, Alive
  <2>3. lot[l].status # "EXITING" /\ lot'[l].status # "EXITING" /\ l \in corePending'
    BY <1>1, <1>4
  <2>. QED BY <1>1, <1>4, <2>1, <2>2, <2>3, QueuesAdd
<1>8. Called'
  <2>1. CASE entering.lot \in Lots \ {l}
    BY <1>1, <1>6, <2>1, CalledStays
  <2>2. CASE entering.lot \notin Lots
    BY <1>1, <2>2, CalledStays
  <2>3. CASE entering.lot = l
    <3>1. ~Calling
      BY <1>1, <2>3 DEF LInv, Called, CallInv
    <3>. QED BY <1>1, <2>3, <3>1 DEF LInv, Called, Calling
  <2>. QED BY <2>1, <2>2, <2>3
<1>. QED BY <1>1, <1>5, <1>6, <1>7, <1>8, OneLot DEF Alive

LEMMA GraduateLot == ASSUME LInv, IInv', NEW m \in Mints, Graduate(m) PROVE LInv'
<1>1. /\ run = "UP"
      /\ timers' = [l \in Lots |-> IF l \in GradLots(m) THEN Armed(timers[l], "HOLD") ELSE timers[l]]
      /\ UNCHANGED <<run, lot, positions, corePending, entering, recov, exitQ, buyTx>>
  BY DEF Graduate, procVars, taskVars, chainVars
<1>2. \A k \in Lots : k \in GradLots(m) => k \in positions /\ Grad(k)
  BY DEF GradLots, PositionsOf, Grad
<1>3. ASSUME NEW k \in Lots PROVE LotInv(k)' \/ (Untouched(k) /\ entering'.lot = entering.lot)
  <2>1. CASE k \in GradLots(m)
    BY <1>1, <1>2, <2>1, ArmedAgain
  <2>2. CASE k \notin GradLots(m)
    BY <1>1, <2>2 DEF Untouched
  <2>. QED BY <2>1, <2>2
<1>4. Queues'
  BY <1>1, SteadySame, QueuesStay DEF Alive, LInv
<1>5. Called'
  BY <1>1 DEF LInv, Called, CallInv, Calling
<1>. QED BY <1>1, <1>3, <1>4, <1>5, OneLot DEF Alive
-----------------------------------------------------------------------------
(* The exit queue of a mint *)

\* The lot of the running task.
LEMMA HeadLot ==
    ASSUME LInv, NEW m \in Mints, exitQ[m] # <<>>, Alive
    PROVE  \E h \in Lots :
             /\ h = Head1(m).lot /\ Entered(h) /\ lot[h].mint = m /\ lot[h] \in LotRecord /\ LotInv(h)
             /\ entering.lot = h => ~Calling
             /\ Head1(m).kind = "TAKE_PROFIT" => lot[h].mode = "PLAIN"
             /\ ~Grad(h) =>
                  /\ lot[h].amt > 0 /\ lot[h].unknown = FALSE /\ h \in positions /\ recov[h].phase = "OFF"
                  /\ timers[h].live["RECOVER"] = 0
                  /\ Head1(m).kind = "CORE" => lot[h].status = "OPEN"
                  /\ Head1(m).kind # "CORE" => lot[h].status = "EXITING" /\ h \notin corePending
<1>1. IInv /\ Queues /\ \A l \in Lots : LotInv(l)
  BY DEF LInv
<1>2. 1 \in DOMAIN exitQ[m] /\ Head1(m) = exitQ[m][1]
  <2>1. exitQ[m] \in Seq(Task)
    BY <1>1, QueueTyped
  <2>2. Len(exitQ[m]) \in Nat \ {0} /\ Head(exitQ[m]) = exitQ[m][1] /\ DOMAIN exitQ[m] = 1..Len(exitQ[m])
    BY <2>1, HeadTailProperties
  <2>. QED BY <2>2 DEF Head1
<1>3. TaskInv(m, 1)
  BY <1>1, <1>2 DEF Queues
<1>4. PICK h \in Lots : h = Head1(m).lot
  BY <1>1, <1>2, QueueTyped
<1>5. /\ lot[h].mint = m /\ Entered(h) /\ LotInv(h) /\ lot[h] \in LotRecord /\ lot[h].amt \in Nat
      /\ lot[h].unknown \in BOOLEAN /\ timers[h].live["RECOVER"] \in Nat
      /\ Head1(m).kind = "TAKE_PROFIT" => lot[h].mode = "PLAIN"
      /\ ~Grad(h) => /\ Head1(m).kind = "CORE" => h \in corePending
                     /\ Head1(m).kind # "CORE" => lot[h].status = "EXITING"
  BY <1>1, <1>2, <1>3, <1>4, Amounts, Lives DEF TaskInv, TimerKinds
<1>6. entering.lot = h => ~Calling
  BY <1>5 DEF LInv, Called, CallInv, Entered
<1>7. ASSUME ~Grad(h)
      PROVE  /\ lot[h].amt > 0 /\ lot[h].unknown = FALSE /\ h \in positions /\ recov[h].phase = "OFF"
             /\ timers[h].live["RECOVER"] = 0
             /\ Head1(m).kind = "CORE" => lot[h].status = "OPEN"
             /\ Head1(m).kind # "CORE" => lot[h].status = "EXITING" /\ h \notin corePending
  <2>1. RowInv(h) /\ MemInv(h)
    BY <1>5, <1>7 DEF LotInv
  <2>2. /\ Head1(m).kind = "CORE" => lot[h].status = "OPEN"
        /\ Head1(m).kind # "CORE" => lot[h].status = "EXITING" /\ h \notin corePending
    BY <1>5, <1>7, <2>1 DEF MemInv
  <2>3. lot[h].amt > 0 /\ lot[h].unknown = FALSE
    BY <1>5, <2>1, <2>2 DEF RowInv
  <2>4. h \in positions /\ recov[h].phase = "OFF" /\ timers[h].live["RECOVER"] = 0
    BY <1>5, <2>1, <2>2, <2>3 DEF MemInv, Seeks, Active
  <2>. QED BY <2>2, <2>3, <2>4
<1>. QED BY <1>4, <1>5, <1>6, <1>7

\* The running task goes on, and what matters of its lot stays.
LEMMA HeadGoesOn ==
    ASSUME LInv, IInv', NEW h \in Lots, Alive, entering.lot = h => ~Calling,
           UNCHANGED <<run, positions, timers, corePending, entering, recov, exitQ, buyTx>>,
           \A k \in Lots : k # h => lot'[k] = lot[k],
           lot'[h].status = lot[h].status, lot'[h].amt = lot[h].amt, lot'[h].sig <=> lot[h].sig,
           lot'[h].unknown <=> lot[h].unknown, lot'[h].mode = lot[h].mode, lot'[h].aged <=> lot[h].aged,
           lot'[h].mint = lot[h].mint
    PROVE  LInv'
<1>1. \A k \in Lots : LotInv(k)
  BY DEF LInv
<1>2. LotInv(h)'
  <2>1. Fresh(h)' /\ Watched(h)' /\ Fated(h)' /\ lot'[h].mode \in ExitModes \cup {"PLAIN"}
    BY <1>1 DEF Fresh, Watched, Fated, LotInv
  <2>2. ASSUME ~Grad(h)' PROVE RowInv(h)' /\ MemInv(h)'
    BY <1>1, <2>2 DEF LotInv, RowInv, MemInv, Seeks, Alive, Grad
  <2>. QED BY <2>1, <2>2 DEF LotInv
<1>3. \A k \in Lots : k # h => Untouched(k)
  BY DEF Untouched
<1>4. Queues'
  <2>1. Steady(h)
    BY <1>1 DEF Steady, Entered, LotInv, MemInv, Grad
  <2>2. \A k \in Lots : k # h => Steady(k)
    BY <1>1, SteadySame
  <2>. QED BY <2>1, <2>2, QueuesStay DEF Alive
<1>5. Called'
  <2>1. CASE entering.lot \in Lots \ {h}
    BY <1>3, <2>1, CalledStays
  <2>2. CASE entering.lot \notin Lots
    BY <2>2, CalledStays
  <2>3. CASE entering.lot = h
    BY <2>3 DEF LInv, Called, Calling
  <2>. QED BY <2>1, <2>2, <2>3
<1>. QED BY <1>2, <1>3, <1>4, <1>5, OneLot

\* The running task ends.
LEMMA HeadDone ==
    ASSUME LInv, IInv', NEW m \in Mints, exitQ[m] # <<>>, NEW h \in Lots, h = Head1(m).lot, Alive,
           entering.lot = h => ~Calling,
           exitQ' = [exitQ EXCEPT ![m] = Tail(@)], UNCHANGED <<run, entering, recov, buyTx>>,
           \A k \in Lots : k # h => /\ lot'[k] = lot[k] /\ timers'[k] = timers[k]
                                    /\ k \in positions' <=> k \in positions
                                    /\ k \in corePending' <=> k \in corePending,
           lot'[h].mode = lot[h].mode, lot'[h].mint = lot[h].mint, lot'[h].unknown <=> lot[h].unknown,
           lot'[h].sig <=> lot[h].sig, lot'[h].aged <=> lot[h].aged,
           lot'[h].status \in {lot[h].status, "OPEN", "EXIT_FAILED", "CLOSED"}, Entered(h)', Watched(h)',
           ~Grad(h) => /\ lot'[h].amt > 0 /\ lot'[h].status \in {"OPEN", "EXIT_FAILED", "CLOSED"}
                       /\ lot[h].unknown = FALSE /\ recov[h].phase = "OFF"
                       /\ timers'[h].live["RECOVER"] = 0 /\ h \notin corePending'
                       /\ h \in positions' <=> lot'[h].status # "CLOSED"
    PROVE  LInv'
<1>1. \A k \in Lots : LotInv(k)
  BY DEF LInv
<1>2. lot'[h].amt \in Nat /\ timers'[h].live["RECOVER"] \in Nat
  BY Amounts, Lives DEF IInv, StoreOK, MemOK, LotRecord, TimerRecord, TimerKinds
<1>3. LotInv(h)'
  <2>1. Fresh(h)' /\ Fated(h)' /\ lot'[h].mode \in ExitModes \cup {"PLAIN"}
    BY <1>1 DEF Fresh, Fated, LotInv, Entered
  <2>2. ASSUME ~Grad(h)' PROVE RowInv(h)' /\ MemInv(h)'
    <3>1. ~Grad(h)
      BY <2>2 DEF Grad
    <3>2. RowInv(h)'
      BY <3>1 DEF RowInv
    <3>3. lot'[h].amt # 0
      BY <1>2, <3>1
    <3>4. MemInv(h)'
      BY <3>1, <3>3 DEF MemInv, Active
    <3>. QED BY <3>2, <3>4
  <2>. QED BY <2>1, <2>2 DEF LotInv
<1>4. \A k \in Lots : k # h => Untouched(k)
  BY DEF Untouched
<1>5. Queues'
  <2>1. \A k \in Lots : k # h => Steady(k)
    BY <1>1, SteadySame
  <2>2. ~Grad(h) => lot'[h].status # "EXITING" /\ h \notin corePending'
    OBVIOUS
  <2>. QED BY <2>1, <2>2, QueuesDrop DEF Alive
<1>6. Called'
  <2>1. CASE entering.lot \in Lots \ {h}
    BY <1>4, <2>1, CalledStays
  <2>2. CASE entering.lot \notin Lots
    BY <2>2, CalledStays
  <2>3. CASE entering.lot = h
    BY <2>3 DEF LInv, Called, Calling
  <2>. QED BY <2>1, <2>2, <2>3
<1>. QED BY <1>3, <1>4, <1>5, <1>6, OneLot

LEMMA SellLot == ASSUME LInv, IInv', NEW m \in Mints, Sell(m) PROVE LInv'
<1>1. /\ Alive /\ exitQ[m] # <<>>
      /\ UNCHANGED <<run, lot, positions, timers, corePending, entering, recov, exitQ, buyTx>>
  BY DEF Sell, Running, procVars, storeVars, memVars, chainVars
<1>2. PICK h \in Lots : entering.lot = h => ~Calling
  BY <1>1, HeadLot
<1>. QED BY <1>1, <1>2, HeadGoesOn

\* An attempt of an exit that did not close the lot.
LEMMA AttemptOverLot ==
    ASSUME LInv, IInv', NEW m \in Mints, exitQ[m] # <<>>, Head1(m).kind # "CORE", Alive, NEW kinds,
           ExitAttemptOver(m, kinds),
           UNCHANGED <<run, positions, timers, corePending, entering, recov, buyTx>>
    PROVE  LInv'
<1>1. PICK h \in Lots :
         /\ h = Head1(m).lot /\ Entered(h) /\ lot[h].mint = m /\ lot[h] \in LotRecord /\ LotInv(h)
         /\ entering.lot = h => ~Calling
         /\ ~Grad(h) =>
              /\ lot[h].amt > 0 /\ lot[h].unknown = FALSE /\ h \in positions /\ recov[h].phase = "OFF"
              /\ timers[h].live["RECOVER"] = 0
              /\ lot[h].status = "EXITING" /\ h \notin corePending
  BY HeadLot
<1>2. lot \in [Lots -> LotRecord]
  BY DEF LInv, IInv, StoreOK
<1>3. CASE lot' = [lot EXCEPT ![h] = Ordered(@, kinds)] /\ exitQ' = exitQ
  <2>1. lot'[h] = Ordered(lot[h], kinds) /\ \A k \in Lots : k # h => lot'[k] = lot[k]
    BY <1>2, <1>3
  <2>2. /\ lot'[h].status = lot[h].status /\ lot'[h].amt = lot[h].amt /\ (lot'[h].sig <=> lot[h].sig)
        /\ (lot'[h].unknown <=> lot[h].unknown) /\ lot'[h].mode = lot[h].mode /\ (lot'[h].aged <=> lot[h].aged)
        /\ lot'[h].mint = lot[h].mint
    BY <1>1, <2>1 DEF Ordered, LotRecord
  <2>. QED BY <1>1, <1>3, <2>1, <2>2, HeadGoesOn
<1>4. CASE lot' = [lot EXCEPT ![h] = Ended(@, kinds, "EXIT_FAILED")] /\ TaskDone(m)
  <2>1. lot'[h] = Ended(lot[h], kinds, "EXIT_FAILED") /\ \A k \in Lots : k # h => lot'[k] = lot[k]
    BY <1>2, <1>4
  <2>2. /\ lot'[h].status = "EXIT_FAILED" /\ lot'[h].amt = lot[h].amt /\ (lot'[h].sig <=> lot[h].sig)
        /\ (lot'[h].unknown <=> lot[h].unknown) /\ lot'[h].mode = lot[h].mode /\ (lot'[h].aged <=> lot[h].aged)
        /\ lot'[h].mint = lot[h].mint
    BY <1>1, <2>1 DEF Ended, LotRecord
  <2>3. Entered(h)' /\ Watched(h)'
    BY <2>2 DEF Entered, Watched
  <2>4. exitQ' = [exitQ EXCEPT ![m] = Tail(@)]
    BY <1>4 DEF TaskDone
  <2>. QED BY <1>1, <2>1, <2>2, <2>3, <2>4, HeadDone
<1>. QED BY <1>1, <1>3, <1>4 DEF ExitAttemptOver

LEMMA CloseLotLot ==
    ASSUME LInv, IInv', NEW m \in Mints, exitQ[m] # <<>>, Head1(m).kind # "CORE", Alive,
           CloseLot(m, Head1(m).lot), UNCHANGED <<run, corePending, entering, recov, buyTx>>
    PROVE  LInv'
<1>1. PICK h \in Lots :
         /\ h = Head1(m).lot /\ Entered(h) /\ lot[h].mint = m /\ lot[h] \in LotRecord /\ LotInv(h)
         /\ entering.lot = h => ~Calling
         /\ ~Grad(h) =>
              /\ lot[h].amt > 0 /\ lot[h].unknown = FALSE /\ h \in positions /\ recov[h].phase = "OFF"
              /\ timers[h].live["RECOVER"] = 0
              /\ lot[h].status = "EXITING" /\ h \notin corePending
  BY HeadLot
<1>2. lot \in [Lots -> LotRecord] /\ timers \in [Lots -> TimerRecord] /\ IInv
  BY DEF LInv, IInv, StoreOK, MemOK
<1>3. /\ lot' = [lot EXCEPT ![h] = Ended(@, {"SELL"}, "CLOSED")] /\ positions' = positions \ {h}
      /\ timers' = [timers EXCEPT ![h] = Cleared(@)] /\ exitQ' = [exitQ EXCEPT ![m] = Tail(@)]
  BY <1>1 DEF CloseLot, TaskDone
<1>4. /\ lot'[h] = Ended(lot[h], {"SELL"}, "CLOSED") /\ timers'[h] = Cleared(timers[h])
      /\ \A k \in Lots : k # h => lot'[k] = lot[k] /\ timers'[k] = timers[k]
  BY <1>2, <1>3
<1>5. /\ lot'[h].status = "CLOSED" /\ lot'[h].amt = lot[h].amt /\ (lot'[h].sig <=> lot[h].sig)
      /\ (lot'[h].unknown <=> lot[h].unknown) /\ lot'[h].mode = lot[h].mode /\ (lot'[h].aged <=> lot[h].aged)
      /\ lot'[h].mint = lot[h].mint
  BY <1>1, <1>4 DEF Ended, LotRecord
<1>6. Entered(h)' /\ Watched(h)'
  BY <1>5 DEF Entered, Watched
<1>7. timers'[h].live["RECOVER"] \in Nat /\ timers'[h].live["RECOVER"] <= timers[h].live["RECOVER"]
  BY <1>2, <1>4, ClearedLives DEF TimerKinds
<1>8. ~Grad(h) => timers'[h].live["RECOVER"] = 0
  BY <1>1, <1>7
<1>. QED BY <1>1, <1>3, <1>4, <1>5, <1>6, <1>8, HeadDone

LEMMA SaleFateBuys ==
    ASSUME NEW l, NEW q, SaleFate(l, q)
    PROVE  buyTx' = buyTx
BY DEF SaleFate, chainVars

LEMMA SaleLot ==
    ASSUME LInv, IInv', NEW m \in Mints,
           AlreadyEmpty(m) \/ SaleConfirmed(m) \/ SaleUnverified(m) \/ SaleUnanswered(m) \/ SellThrows(m)
    PROVE  LInv'
<1>1. Running(m, ExitReasons) /\ UNCHANGED <<run, corePending, entering, recov, buyTx>>
  BY SaleFateBuys DEF AlreadyEmpty, SaleConfirmed, SaleUnverified, SaleUnanswered, SellThrows, procVars, memVars,
                      chainVars
<1>2. Alive /\ exitQ[m] # <<>> /\ Head1(m).kind # "CORE"
  BY <1>1 DEF Running, ExitReasons
<1>3. \/ CloseLot(m, Head1(m).lot)
      \/ /\ \E kinds \in {{"SELL"}, {"SELL", "PARTIAL"}} : ExitAttemptOver(m, kinds)
         /\ UNCHANGED <<positions, timers>>
  BY DEF AlreadyEmpty, SaleConfirmed, SaleUnverified, SaleUnanswered, SellThrows, memVars
<1>. QED BY <1>1, <1>2, <1>3, AttemptOverLot, CloseLotLot

LEMMA TakeProfitRejectedLot == ASSUME LInv, IInv', NEW m \in Mints, TakeProfitRejected(m) PROVE LInv'
<1>1. /\ Alive /\ exitQ[m] # <<>> /\ Head1(m).kind = "TAKE_PROFIT"
      /\ lot' = [lot EXCEPT ![Head1(m).lot] = Ended(@, {}, "OPEN")]
      /\ timers' = [timers EXCEPT ![Head1(m).lot] = Armed(@, "HOLD")]
      /\ exitQ' = [exitQ EXCEPT ![m] = Tail(@)]
      /\ UNCHANGED <<run, positions, corePending, entering, recov, buyTx>>
  BY DEF TakeProfitRejected, Running, TaskDone, procVars, chainVars
<1>2. PICK h \in Lots :
         /\ h = Head1(m).lot /\ lot[h] \in LotRecord
         /\ entering.lot = h => ~Calling
         /\ lot[h].mode = "PLAIN"
         /\ ~Grad(h) =>
              /\ lot[h].amt > 0 /\ lot[h].unknown = FALSE /\ h \in positions /\ recov[h].phase = "OFF"
              /\ timers[h].live["RECOVER"] = 0
              /\ lot[h].status = "EXITING" /\ h \notin corePending
  BY <1>1, HeadLot
<1>3. lot \in [Lots -> LotRecord] /\ timers \in [Lots -> TimerRecord] /\ ~Grad(h)
  BY <1>2 DEF LInv, IInv, StoreOK, MemOK, Grad
<1>4. /\ lot'[h] = Ended(lot[h], {}, "OPEN") /\ timers'[h] = Armed(timers[h], "HOLD")
      /\ \A k \in Lots : k # h => lot'[k] = lot[k] /\ timers'[k] = timers[k]
  BY <1>1, <1>2, <1>3
<1>5. /\ lot'[h].status = "OPEN" /\ lot'[h].amt = lot[h].amt /\ (lot'[h].sig <=> lot[h].sig)
      /\ (lot'[h].unknown <=> lot[h].unknown) /\ lot'[h].mode = lot[h].mode /\ (lot'[h].aged <=> lot[h].aged)
      /\ lot'[h].mint = lot[h].mint
  BY <1>2, <1>4 DEF Ended, LotRecord
<1>6. timers'[h].live["HOLD"] > 0
  BY <1>3, <1>4, ArmedLives DEF TimerKinds
<1>7. timers'[h].live["RECOVER"] \in Nat /\ timers'[h].live["RECOVER"] <= timers[h].live["RECOVER"]
  BY <1>3, <1>4, ArmedLives DEF TimerKinds
<1>8. timers'[h].live["RECOVER"] = 0
  BY <1>2, <1>3, <1>7
<1>9. Entered(h)' /\ Watched(h)'
  BY <1>2, <1>3, <1>5, <1>6 DEF Entered, Watched
<1>. QED BY <1>1, <1>2, <1>3, <1>4, <1>5, <1>8, <1>9, HeadDone

LEMMA ExitAbandonedLot == ASSUME LInv, IInv', NEW m \in Mints, ExitAbandoned(m) PROVE LInv'
<1>1. /\ Alive /\ exitQ[m] # <<>> /\ Head1(m).kind # "CORE"
      /\ lot' = [lot EXCEPT ![Head1(m).lot] = Ended(@, {}, "EXIT_FAILED")]
      /\ exitQ' = [exitQ EXCEPT ![m] = Tail(@)]
      /\ UNCHANGED <<run, positions, timers, corePending, entering, recov, buyTx>>
  BY DEF ExitAbandoned, Running, ExitReasons, TaskDone, procVars, memVars, chainVars
<1>2. PICK h \in Lots :
         /\ h = Head1(m).lot /\ lot[h] \in LotRecord
         /\ entering.lot = h => ~Calling
         /\ ~Grad(h) =>
              /\ lot[h].amt > 0 /\ lot[h].unknown = FALSE /\ h \in positions /\ recov[h].phase = "OFF"
              /\ timers[h].live["RECOVER"] = 0
              /\ lot[h].status = "EXITING" /\ h \notin corePending
  BY <1>1, HeadLot
<1>3. lot \in [Lots -> LotRecord]
  BY DEF LInv, IInv, StoreOK
<1>4. lot'[h] = Ended(lot[h], {}, "EXIT_FAILED") /\ \A k \in Lots : k # h => lot'[k] = lot[k]
  BY <1>1, <1>2, <1>3
<1>5. /\ lot'[h].status = "EXIT_FAILED" /\ lot'[h].amt = lot[h].amt /\ (lot'[h].sig <=> lot[h].sig)
      /\ (lot'[h].unknown <=> lot[h].unknown) /\ lot'[h].mode = lot[h].mode /\ (lot'[h].aged <=> lot[h].aged)
      /\ lot'[h].mint = lot[h].mint
  BY <1>2, <1>4 DEF Ended, LotRecord
<1>6. Entered(h)' /\ Watched(h)'
  BY <1>5 DEF Entered, Watched
<1>. QED BY <1>1, <1>2, <1>4, <1>5, <1>6, HeadDone

\* The core sale ends, whatever became of it.
LEMMA CoreLot == ASSUME LInv, IInv', NEW m \in Mints, CoreConfirmed(m) \/ CoreFails(m) PROVE LInv'
<1>1. /\ Alive /\ exitQ[m] # <<>> /\ Head1(m).kind = "CORE"
      /\ corePending' = corePending \ {Head1(m).lot}
      /\ exitQ' = [exitQ EXCEPT ![m] = Tail(@)]
      /\ UNCHANGED <<run, positions, timers, entering, recov, buyTx>>
  BY SaleFateBuys DEF CoreConfirmed, CoreFails, Running, TaskDone, procVars, chainVars
<1>2. PICK h \in Lots :
         /\ h = Head1(m).lot /\ Entered(h) /\ lot[h] \in LotRecord /\ LotInv(h)
         /\ entering.lot = h => ~Calling
         /\ ~Grad(h) =>
              /\ lot[h].amt > 0 /\ lot[h].unknown = FALSE /\ h \in positions /\ recov[h].phase = "OFF"
              /\ timers[h].live["RECOVER"] = 0 /\ lot[h].status = "OPEN"
  BY <1>1, HeadLot
<1>3. lot \in [Lots -> LotRecord] /\ seller[m].want \in Nat /\ lot[h].amt \in Nat
  BY <1>1, <1>2, RunningType, Amounts DEF LInv, IInv, StoreOK
<1>4. /\ \A k \in Lots : k # h => lot'[k] = lot[k]
      /\ \/ lot'[h] = lot[h]
         \/ lot'[h] = Ordered(lot[h], {"SELL"})
         \/ lot'[h] = CoreSold(lot[h], seller[m].want) /\ lot[h].amt > seller[m].want
  BY <1>2, <1>3 DEF CoreConfirmed, CoreFails
<1>5. /\ lot'[h].status = lot[h].status /\ (lot'[h].sig <=> lot[h].sig)
      /\ (lot'[h].unknown <=> lot[h].unknown) /\ lot'[h].mode = lot[h].mode /\ (lot'[h].aged <=> lot[h].aged)
      /\ lot'[h].mint = lot[h].mint /\ (lot[h].amt > 0 => lot'[h].amt > 0)
  <2>1. CASE lot'[h] = lot[h]
    BY <2>1
  <2>2. CASE lot'[h] = Ordered(lot[h], {"SELL"})
    BY <1>2, <2>2 DEF Ordered, LotRecord
  <2>3. CASE lot'[h] = CoreSold(lot[h], seller[m].want) /\ lot[h].amt > seller[m].want
    <3>. DEFINE left == lot[h].amt - seller[m].want
    <3>1. left > 0
      BY <1>3, <2>3
    <3>2. lot'[h] = [lot[h] EXCEPT !.amt = left, !.coreDone = TRUE, !.orders = @ \cup {"SELL", "PARTIAL"}]
      BY <2>3 DEF CoreSold
    <3>. HIDE DEF left
    <3>. QED BY <1>2, <3>1, <3>2 DEF LotRecord
  <2>. QED BY <1>4, <2>1, <2>2, <2>3
<1>6. Entered(h)' /\ Watched(h)'
  BY <1>1, <1>2, <1>5 DEF Entered, Watched, LotInv
<1>7. h \notin corePending' /\ \A k \in Lots : k # h => (k \in corePending' <=> k \in corePending)
  BY <1>1, <1>2
<1>. QED BY <1>1, <1>2, <1>4, <1>5, <1>6, <1>7, HeadDone

LEMMA ExitLot == ASSUME LInv, IInv', NEW m \in Mints, ExitStep(m) PROVE LInv'
BY SellLot, SaleLot, TakeProfitRejectedLot, ExitAbandonedLot, CoreLot DEF ExitStep
-----------------------------------------------------------------------------
(* Locks, the chain, the clock *)

\* Steps after which no lot, task or call looks different.
LEMMA NothingMoves ==
    ASSUME LInv, IInv', UNCHANGED <<run, lot, positions, timers, corePending, entering, recov, exitQ, buyTx>>
    PROVE  LInv'
<1>1. Called'
  BY DEF LInv, Called, CallInv, Calling
<1>2. Queues'
  BY SteadySame, QueuesStay DEF LInv, Alive
<1>3. \A k \in Lots : LotInv(k)'
  BY UntouchedInv DEF LInv, Untouched
<1>4. Empty'
  BY DEF LInv, Empty
<1>. QED BY <1>1, <1>2, <1>3, <1>4 DEF LInv

LEMMA QuietLot ==
    ASSUME LInv, IInv', \/ \E m \in Mints : RecheckLock(m) \/ SoldByHand(m)
                        \/ \E l \in Lots : FlyingSaleEnds(l)
    PROVE  LInv'
BY NothingMoves DEF RecheckLock, SoldByHand, FlyingSaleEnds, procVars, storeVars, memVars, taskVars, chainVars

LEMMA FlyingBuyLot == ASSUME LInv, IInv', NEW l \in Lots, FlyingBuyEnds(l) PROVE LInv'
<1>1. /\ buyTx[l] = "FLYING" /\ \A k \in Lots : k # l => buyTx'[k] = buyTx[k]
      /\ UNCHANGED <<run, lot, positions, timers, corePending, entering, recov, exitQ>>
  BY FateOf DEF FlyingBuyEnds, LInv, procVars, storeVars, memVars, taskVars
<1>2. LotInv(l) /\ \A k \in Lots : LotInv(k)
  BY DEF LInv
<1>3. ~lot[l].aged /\ lot[l].status # "NONE" /\ ~(lot[l].status = "ENTRY_FAILED" /\ lot[l].sig)
  BY <1>1, <1>2 DEF LotInv, Fated, Fresh
<1>4. LotInv(l)'
  <2>1. Fresh(l)' /\ Watched(l)' /\ Fated(l)' /\ lot'[l].mode \in ExitModes \cup {"PLAIN"}
    BY <1>1, <1>2, <1>3 DEF Fresh, Watched, Fated, LotInv
  <2>2. ASSUME ~Grad(l)' PROVE RowInv(l)' /\ MemInv(l)'
    BY <1>1, <1>2, <2>2 DEF LotInv, RowInv, MemInv, Seeks, Alive, Grad
  <2>. QED BY <2>1, <2>2 DEF LotInv
<1>5. \A k \in Lots : k # l => Untouched(k)
  BY <1>1 DEF Untouched
<1>6. Queues'
  BY <1>1, <1>2, SteadySame, QueuesStay DEF Alive
<1>7. Called'
  <2>1. CASE entering.lot \in Lots \ {l}
    BY <1>1, <1>5, <2>1, CalledStays
  <2>2. CASE entering.lot \notin Lots
    BY <1>1, <2>2, CalledStays
  <2>3. CASE entering.lot = l
    <3>1. ~Calling
      BY <1>1, <2>3 DEF LInv, Called, CallInv
    <3>. QED BY <1>1, <2>3, <3>1 DEF LInv, Called, Calling
  <2>. QED BY <2>1, <2>2, <2>3
<1>8. \A k \in Lots : LotInv(k)'
  BY <1>1, <1>2, <1>4, <1>5, UntouchedInv
<1>9. Empty'
  BY <1>1 DEF LInv, Empty
<1>. QED BY <1>6, <1>7, <1>8, <1>9 DEF LInv

LEMMA AgeLot == ASSUME LInv, IInv', NEW l \in Lots, Age(l) PROVE LInv'
<1>1. /\ buyTx[l] # "FLYING" /\ recov[l].phase # "DELAY" /\ lot[l].status \in Active
      /\ entering.lot = l => ~Calling
      /\ lot' = [lot EXCEPT ![l] = [@ EXCEPT !.aged = TRUE]]
      /\ UNCHANGED <<run, positions, timers, corePending, entering, recov, exitQ, buyTx>>
  BY DEF Age, Calling, procVars, memVars, taskVars, chainVars
<1>2. /\ LotInv(l) /\ lot[l] \in LotRecord /\ lot \in [Lots -> LotRecord] /\ \A k \in Lots : LotInv(k)
  BY DEF LInv, IInv, StoreOK
<1>3. /\ lot'[l] = [lot[l] EXCEPT !.aged = TRUE]
      /\ \A k \in Lots : k # l => lot'[k] = lot[k]
  BY <1>1, <1>2
<1>4. /\ lot'[l].status = lot[l].status /\ lot'[l].amt = lot[l].amt /\ (lot'[l].sig <=> lot[l].sig)
      /\ (lot'[l].unknown <=> lot[l].unknown) /\ lot'[l].aged
      /\ lot'[l].mode = lot[l].mode /\ lot'[l].mint = lot[l].mint
  BY <1>2, <1>3 DEF LotRecord
<1>5. LotInv(l)'
  <2>1. Fresh(l)' /\ Watched(l)' /\ Fated(l)' /\ lot'[l].mode \in ExitModes \cup {"PLAIN"}
    BY <1>1, <1>2, <1>4 DEF Fresh, Watched, Fated, LotInv, Active
  <2>2. ASSUME ~Grad(l)' PROVE RowInv(l)' /\ MemInv(l)'
    <3>1. ~Grad(l) /\ RowInv(l) /\ MemInv(l)
      BY <1>2, <1>4, <2>2 DEF Grad, LotInv
    <3>2. RowInv(l)'
      BY <1>4, <3>1 DEF RowInv
    <3>3. MemInv(l)'
      BY <1>1, <1>4, <3>1 DEF MemInv, Seeks, Alive
    <3>. QED BY <3>2, <3>3
  <2>. QED BY <2>1, <2>2 DEF LotInv
<1>6. \A k \in Lots : k # l => Untouched(k)
  BY <1>1, <1>3 DEF Untouched
<1>7. Queues'
  <2>1. Steady(l)
    BY <1>1, <1>2, <1>4 DEF Steady, Entered, LotInv, MemInv, Grad
  <2>2. \A k \in Lots : k # l => Steady(k)
    BY <1>1, <1>2, <1>3, SteadySame
  <2>. QED BY <1>1, <2>1, <2>2, QueuesStay DEF Alive
<1>8. Called'
  <2>1. CASE entering.lot \in Lots \ {l}
    BY <1>1, <1>6, <2>1, CalledStays
  <2>2. CASE entering.lot \notin Lots
    BY <1>1, <2>2, CalledStays
  <2>3. CASE entering.lot = l
    BY <1>1, <2>3 DEF LInv, Called, Calling
  <2>. QED BY <2>1, <2>2, <2>3
<1>9. \A k \in Lots : LotInv(k)'
  BY <1>1, <1>2, <1>5, <1>6, UntouchedInv
<1>10. Empty'
  BY <1>1 DEF LInv, Empty
<1>. QED BY <1>7, <1>8, <1>9, <1>10 DEF LInv
-----------------------------------------------------------------------------
(* Stop, crash and start *)

LEMMA StopLots == ASSUME LInv, IInv', Stop PROVE LInv'
<1>1. /\ run = "UP" /\ run' = "STOPPING" /\ timers' = [l \in Lots |-> Cleared(timers[l])]
      /\ UNCHANGED <<lot, positions, corePending, entering, recov, exitQ, buyTx>>
  BY DEF Stop, storeVars, taskVars, chainVars
<1>2. ASSUME NEW l \in Lots PROVE LotInv(l)'
  <2>1. LotInv(l) /\ timers[l] \in TimerRecord /\ timers'[l] = Cleared(timers[l])
    BY <1>1, Lives DEF LInv, TimerKinds
  <2>2. \A k \in TimerKinds : /\ timers'[l].live[k] \in Nat /\ timers[l].live[k] \in Nat
                              /\ timers'[l].live[k] <= timers[l].live[k]
    BY <2>1, ClearedLives, Lives DEF LInv
  <2>3. Still(timers[l]) => Still(timers'[l])
    BY <2>2 DEF Still
  <2>4. Fresh(l)' /\ Watched(l)' /\ Fated(l)' /\ lot'[l].mode \in ExitModes \cup {"PLAIN"}
    BY <1>1, <2>1, <2>3 DEF Fresh, Watched, Fated, LotInv
  <2>5. ASSUME ~Grad(l)' PROVE RowInv(l)' /\ MemInv(l)'
    <3>1. RowInv(l) /\ MemInv(l)
      BY <1>1, <2>1, <2>5 DEF LotInv, Grad
    <3>2. RowInv(l)'
      BY <1>1, <3>1 DEF RowInv
    <3>3. /\ lot[l].amt = 0 => timers'[l].live["HOLD"] = 0 /\ timers'[l].live["DEFER"] = 0
          /\ timers'[l].live["RECOVER"] > 0 => timers[l].live["RECOVER"] > 0
          /\ timers'[l].live["RECOVER"] > 0 /\ timers[l].live["RECOVER"] = 1 => timers'[l].live["RECOVER"] = 1
      BY <2>2, <3>1 DEF MemInv, TimerKinds
    <3>4. MemInv(l)'
      BY <1>1, <3>1, <3>3 DEF MemInv, Seeks, Alive
    <3>. QED BY <3>2, <3>4
  <2>. QED BY <2>4, <2>5 DEF LotInv
<1>3. Called'
  BY <1>1 DEF LInv, Called, CallInv, Calling
<1>4. Queues'
  BY <1>1, SteadySame, QueuesStay DEF LInv, Alive
<1>. QED BY <1>1, <1>2, <1>3, <1>4 DEF LInv, Empty

\* The process ends, perhaps while the fate of the buy it had sent is open.
LEMMA MemoryLostLots ==
    ASSUME LInv, IInv', MemoryLost,
           \A l \in Lots : buyTx'[l] = buyTx[l] \/ (Calling /\ l = entering.lot)
    PROVE  LInv'
<1>1. /\ run' = "DOWN" /\ positions' = {} /\ corePending' = {} /\ entering' = NoEntry
      /\ \A l \in Lots : /\ timers'[l] = NoTimer /\ recov'[l] = NoRecov
                         /\ lot'[l] = [lot[l] EXCEPT !.coreDone = FALSE, !.coreTried = FALSE]
      /\ \A m \in Mints : exitQ'[m] = <<>>
  BY DEF MemoryLost
<1>2. \A l \in Lots : recov'[l].phase = "OFF" /\ \A k \in TimerKinds : timers'[l].live[k] = 0
  <2>1. \A k \in TimerKinds : NoTimer.live[k] = 0
    BY DEF NoTimer
  <2>2. NoRecov.phase = "OFF"
    BY DEF NoRecov
  <2>3. \A l \in Lots : timers'[l] = NoTimer /\ recov'[l] = NoRecov
    BY <1>1
  <2>. QED BY <2>1, <2>2, <2>3
<1>3. ASSUME NEW l \in Lots PROVE LotInv(l)'
  <2>1. LotInv(l) /\ lot[l] \in LotRecord
    BY DEF LInv, IInv, StoreOK
  <2>2. /\ lot'[l].status = lot[l].status /\ lot'[l].amt = lot[l].amt /\ (lot'[l].sig <=> lot[l].sig)
        /\ (lot'[l].unknown <=> lot[l].unknown) /\ (lot'[l].aged <=> lot[l].aged)
        /\ lot'[l].mode = lot[l].mode /\ lot'[l].mint = lot[l].mint
    BY <1>1, <2>1 DEF LotRecord
  <2>3. buyTx'[l] = buyTx[l] \/ (lot[l].status = "OPENING" /\ ~lot[l].aged)
    BY DEF LInv, Called, CallInv
  <2>4. Fresh(l)'
    <3>1. l \notin positions' /\ l \notin corePending' /\ entering'.lot # l
      <4>1. NoEntry.lot # l
        BY DEF NoEntry, NoLot, Lots
      <4>. QED BY <1>1, <4>1
    <3>2. Still(timers'[l])
      BY <1>2 DEF Still
    <3>. QED BY <1>2, <2>1, <2>2, <2>3, <3>1, <3>2 DEF Fresh, LotInv
  <2>5. Watched(l)' /\ lot'[l].mode \in ExitModes \cup {"PLAIN"}
    BY <1>1, <2>1, <2>2 DEF Watched, LotInv
  <2>6. Fated(l)'
    BY <1>2, <2>1, <2>2, <2>3 DEF Fated, LotInv
  <2>7. ASSUME ~Grad(l)' PROVE RowInv(l)' /\ MemInv(l)'
    <3>1. RowInv(l)'
      BY <2>1, <2>2, <2>7 DEF LotInv, Grad, RowInv
    <3>2. /\ timers'[l].live["HOLD"] = 0 /\ timers'[l].live["DEFER"] = 0 /\ timers'[l].live["RECOVER"] = 0
      BY <1>2 DEF TimerKinds
    <3>3. l \notin corePending' /\ recov'[l].phase = "OFF" /\ ~Alive'
      BY <1>1, <1>2 DEF Alive
    <3>4. MemInv(l)'
      BY <3>2, <3>3 DEF MemInv
    <3>. QED BY <3>1, <3>4
  <2>. QED BY <2>4, <2>5, <2>6, <2>7 DEF LotInv
<1>4. Called'
  BY <1>1 DEF Called, Calling, NoEntry, NoLot
<1>5. Empty'
  BY <1>1, <1>2 DEF Empty
<1>6. Queues'
  <2>a. exitQ' = [m \in Mints |-> <<>>]
    BY DEF MemoryLost
  <2>1. \A m \in Mints : DOMAIN exitQ'[m] = {}
    BY <2>a
  <2>2. \A l \in Lots : HasTask(l)'
    BY <1>1 DEF HasTask, Alive
  <2>. QED BY <2>1, <2>2 DEF Queues
<1>. QED BY <1>3, <1>4, <1>5, <1>6 DEF LInv

LEMMA StopDoneLots == ASSUME LInv, IInv', StopDone PROVE LInv'
BY MemoryLostLots DEF StopDone, chainVars

LEMMA CrashLots == ASSUME LInv, IInv', Crash PROVE LInv'
<1>1. MemoryLost /\ IInv
  BY DEF Crash, LInv
<1>2. CASE /\ entering.step = "SENT"
           /\ \E fate \in {"DROPPED", "FLYING", "LANDED", "ERR"} : Fate(entering.lot, fate)
  <2>1. Calling /\ entering.lot \in Lots
    BY <1>1, <1>2 DEF Calling, IInv, EntryOK, EntryRecord
  <2>2. PICK l \in Lots : l = entering.lot
    BY <2>1
  <2>3. PICK fate : Fate(l, fate)
    BY <1>2, <2>2
  <2>. QED BY <1>1, <2>1, <2>2, <2>3, FateOf, MemoryLostLots
<1>3. CASE buyTx' = buyTx
  BY <1>1, <1>3, MemoryLostLots
<1>. QED BY <1>2, <1>3, SaleFateBuys DEF Crash, chainVars

LEMMA OrderOnce ==
    ASSUME NEW s, NEW S, InCreationOrder(s, S), S \subseteq Int, NEW n \in Nat, DOMAIN s = 1..n,
           NEW i \in DOMAIN s, NEW j \in DOMAIN s, s[i] = s[j]
    PROVE  i = j
<1>1. s[i] \in Int /\ s[j] \in Int /\ i \in Int /\ j \in Int
  <2>1. s[i] \in S /\ s[j] \in S
    BY DEF InCreationOrder
  <2>2. i \in Int /\ j \in Int
    <3>1. i \in 1..n /\ j \in 1..n
      OBVIOUS
    <3>. QED BY <3>1
  <2>3. s[i] \in Int /\ s[j] \in Int
    BY <2>1
  <2>. QED BY <2>2, <2>3
<1>2. ~(i < j) /\ ~(j < i)
  BY <1>1 DEF InCreationOrder
<1>. QED BY <1>1, <1>2

LEMMA StartLots == ASSUME LInv, IInv', Start PROVE LInv'
<1>1. /\ run = "DOWN" /\ run' = "UP" /\ positions' = ActiveRows
      /\ lot' = [l \in Lots |-> IF l \in ActiveRows THEN Restored(l) ELSE lot[l]]
      /\ recov' = [l \in Lots |->
                     IF l \in ActiveRows /\ Unresolved(l)
                     THEN [Attempt(l, 1, lot[l].expired) EXCEPT !.allow = RestoredBefore(l) # {}]
                     ELSE NoRecov]
      /\ UNCHANGED <<corePending, entering, buyTx>>
  BY DEF Start, chainVars
<1>2. corePending = {} /\ entering = NoEntry /\ IInv /\ \A l \in Lots : LotInv(l)
  BY <1>1 DEF LInv, Empty
<1>3. PICK order \in [Mints -> UNION {[1..n -> Lots] : n \in 0..MaxLots}] :
         /\ \A m \in Mints : InCreationOrder(order[m], InterruptedOf(m))
         /\ exitQ' = [m \in Mints |-> [i \in DOMAIN order[m] |->
                                          [lot |-> order[m][i], kind |-> "RESTART"]]]
  BY DEF Start
<1>4. PICK tracked \in SUBSET graduated :
         timers' = [l \in Lots |->
                      IF /\ l \in ActiveRows
                         /\ \/ ~Unresolved(l) /\ ~Interrupted(l)
                            \/ lot[l].mode = "GRAD" /\ lot[l].mint \in tracked
                      THEN Armed(NoTimer, "HOLD") ELSE NoTimer]
  BY DEF Start
<1>5. ASSUME NEW l \in Lots
      PROVE  /\ lot[l] \in LotRecord /\ LotInv(l)
             /\ lot'[l].status = IF l \in ActiveRows /\ Interrupted(l) THEN "EXITING" ELSE lot[l].status
             /\ lot'[l].amt = lot[l].amt /\ (lot'[l].sig <=> lot[l].sig)
             /\ (lot'[l].unknown <=> lot[l].unknown) /\ (lot'[l].aged <=> lot[l].aged)
             /\ lot'[l].mode = lot[l].mode /\ lot'[l].mint = lot[l].mint
             /\ l \in ActiveRows <=> lot[l].status \in Active
             /\ l \in positions' <=> l \in ActiveRows
             /\ l \notin corePending' /\ entering'.lot # l
  <2>1. lot[l] \in LotRecord /\ LotInv(l)
    BY <1>2 DEF IInv, StoreOK
  <2>2. lot'[l] = IF l \in ActiveRows THEN Restored(l) ELSE lot[l]
    BY <1>1
  <2>3. /\ Restored(l).status = IF Interrupted(l) THEN "EXITING" ELSE lot[l].status
        /\ Restored(l).amt = lot[l].amt /\ (Restored(l).sig <=> lot[l].sig)
        /\ (Restored(l).unknown <=> lot[l].unknown) /\ (Restored(l).aged <=> lot[l].aged)
        /\ Restored(l).mode = lot[l].mode /\ Restored(l).mint = lot[l].mint
    BY <2>1 DEF Restored, LotRecord
  <2>4. l \in ActiveRows <=> lot[l].status \in Active
    BY DEF ActiveRows
  <2>5. l \notin corePending' /\ entering'.lot # l
    BY <1>1, <1>2 DEF NoEntry, NoLot, Lots
  <2>. QED BY <1>1, <2>1, <2>2, <2>3, <2>4, <2>5
<1>6. ASSUME NEW l \in Lots
      PROVE  /\ recov'[l].phase = IF l \in ActiveRows /\ Unresolved(l) THEN "WAIT" ELSE "OFF"
             /\ timers'[l].live["RECOVER"] = 0 /\ timers'[l].live["DEFER"] = 0
             /\ timers'[l].live["HOLD"] = 0 \/ l \in ActiveRows
             /\ timers'[l].live["HOLD"] = 0 \/ Grad(l) \/ (~Unresolved(l) /\ ~Interrupted(l))
             /\ l \in ActiveRows /\ ~Unresolved(l) /\ ~Interrupted(l) => timers'[l].live["HOLD"] > 0
  <2>1. /\ Armed(NoTimer, "HOLD").live["RECOVER"] = 0 /\ Armed(NoTimer, "HOLD").live["DEFER"] = 0
        /\ Armed(NoTimer, "HOLD").live["HOLD"] > 0
    BY DEF Armed, Scheduled, Cleared, NoTimer, TimerKinds
  <2>2. \A k \in TimerKinds : NoTimer.live[k] = 0
    BY DEF NoTimer
  <2>3. timers'[l] = IF /\ l \in ActiveRows
                        /\ (~Unresolved(l) /\ ~Interrupted(l)) \/ (Grad(l) /\ lot[l].mint \in tracked)
                     THEN Armed(NoTimer, "HOLD") ELSE NoTimer
    BY <1>4 DEF Grad
  <2>4. recov'[l].phase = IF l \in ActiveRows /\ Unresolved(l) THEN "WAIT" ELSE "OFF"
    BY <1>1 DEF Attempt, NoRecov
  <2>. QED BY <2>1, <2>2, <2>3, <2>4 DEF TimerKinds
\* What start() takes for interrupted was exiting, a GRAD lot apart.
<1>7. ASSUME NEW l \in Lots, ~Grad(l)
      PROVE  /\ RowInv(l) /\ lot[l].amt \in Nat
             /\ Interrupted(l) <=> lot[l].status = "EXITING"
             /\ lot'[l].status = lot[l].status
             /\ Unresolved(l) => Seeks(l)
             /\ lot[l].amt = 0 /\ l \in ActiveRows => Unresolved(l)
  <2>1. RowInv(l) /\ lot[l].amt \in Nat
    BY <1>5, <1>7 DEF LotInv, LotRecord
  <2>2. Interrupted(l) <=> lot[l].status = "EXITING"
    BY <2>1 DEF RowInv, Interrupted, Unresolved
  <2>3. Unresolved(l) => Seeks(l)
    BY <2>1 DEF RowInv, Unresolved, Seeks
  <2>4. lot'[l].status = lot[l].status
    BY <1>5, <2>2
  <2>5. lot[l].amt = 0 /\ l \in ActiveRows => Unresolved(l)
    BY <1>5, <2>1 DEF RowInv, Unresolved, Active
  <2>. QED BY <2>1, <2>2, <2>3, <2>4, <2>5
<1>8. ASSUME NEW l \in Lots PROVE LotInv(l)'
  <2>1. Fresh(l)'
    <3>1. lot'[l].status = "NONE" => lot[l].status = "NONE" /\ l \notin ActiveRows
      BY <1>5 DEF Active
    <3>. QED BY <1>1, <1>5, <1>6, <3>1 DEF Fresh, Still, TimerKinds, LotInv
  <2>2. Watched(l)'
    <3>1. lot'[l].status = "OPEN" => lot[l].status = "OPEN" /\ ~lot[l].unknown /\ l \in ActiveRows
      BY <1>5 DEF Active, LotInv, Watched
    <3>2. lot'[l].status = "OPEN" => ~Unresolved(l) /\ ~Interrupted(l)
      BY <3>1 DEF Unresolved, Interrupted
    <3>. QED BY <1>5, <1>6, <3>1, <3>2 DEF Watched
  <2>3. Fated(l)'
    <3>1. recov'[l].phase # "DELAY"
      BY <1>6
    <3>2. lot'[l].status = "ENTRY_FAILED" => lot[l].status = "ENTRY_FAILED"
      BY <1>5
    <3>. QED BY <1>1, <1>5, <3>1, <3>2 DEF Fated, LotInv
  <2>4. ASSUME ~Grad(l)' PROVE RowInv(l)' /\ MemInv(l)'
    <3>1. ~Grad(l)
      BY <1>5, <2>4 DEF Grad
    <3>2. RowInv(l)'
      BY <1>5, <1>7, <3>1 DEF RowInv
    <3>3. Seeks(l) => Seeks(l)'
      BY <1>5, <1>7, <3>1 DEF Seeks
    <3>4. lot'[l].amt = 0 => timers'[l].live["HOLD"] = 0
      BY <1>5, <1>6, <1>7, <3>1
    <3>5. MemInv(l)'
      BY <1>5, <1>6, <1>7, <3>1, <3>3, <3>4 DEF MemInv
    <3>. QED BY <3>2, <3>5
  <2>. QED BY <1>5, <2>1, <2>2, <2>3, <2>4 DEF LotInv
<1>9. Called' /\ Empty'
  BY <1>1, <1>2 DEF Called, Calling, Empty, NoEntry, NoLot
<1>10. ASSUME NEW m \in Mints
       PROVE  /\ \E n \in Nat : DOMAIN order[m] = 1..n
              /\ DOMAIN exitQ'[m] = DOMAIN order[m]
              /\ \A i \in DOMAIN order[m] : exitQ'[m][i].lot = order[m][i] /\ exitQ'[m][i].kind = "RESTART"
  <2>1. order[m] \in UNION {[1..k -> Lots] : k \in 0..MaxLots}
    BY <1>3
  <2>2. PICK n \in 0..MaxLots : order[m] \in [1..n -> Lots]
    BY <2>1, Zenon
  <2>3. n \in Nat /\ DOMAIN order[m] = 1..n
    BY <2>2, LiveAssumption
  <2>4. exitQ'[m] = [i \in DOMAIN order[m] |-> [lot |-> order[m][i], kind |-> "RESTART"]]
    BY <1>3
  <2>5. DOMAIN exitQ'[m] = DOMAIN order[m]
    BY <2>4
  <2>6. \A i \in DOMAIN order[m] : exitQ'[m][i].lot = order[m][i] /\ exitQ'[m][i].kind = "RESTART"
    BY <2>4
  <2>. QED BY <2>3, <2>5, <2>6
<1>11. ASSUME NEW m \in Mints, NEW i \in DOMAIN exitQ'[m] PROVE TaskInv(m, i)'
  <2>1. i \in DOMAIN order[m] /\ InCreationOrder(order[m], InterruptedOf(m))
    BY <1>3, <1>10, <1>11
  <2>2. order[m][i] \in InterruptedOf(m)
    BY <2>1 DEF InCreationOrder
  <2>3. PICK k \in Lots : k = order[m][i] /\ k \in ActiveRows /\ Interrupted(k) /\ lot[k].mint = m
    BY <2>2 DEF InterruptedOf, ActiveRows
  <2>4. lot'[k].mint = m /\ lot'[k].status = "EXITING" /\ exitQ'[m][i].lot = k /\ exitQ'[m][i].kind = "RESTART"
    BY <1>5, <1>10, <2>1, <2>3
  <2>5. ASSUME NEW j \in DOMAIN exitQ'[m], exitQ'[m][j].lot = k PROVE j = i
    <3>1. j \in DOMAIN order[m] /\ order[m][j] = order[m][i]
      BY <1>10, <2>3, <2>5
    <3>2. InterruptedOf(m) \subseteq Int
      BY DEF InterruptedOf, ActiveRows, Lots
    <3>3. PICK n \in Nat : DOMAIN order[m] = 1..n
      BY <1>10
    <3>. QED BY <2>1, <3>1, <3>2, <3>3, OrderOnce
  <2>. QED BY <2>4, <2>5 DEF TaskInv, Entered, Grad
<1>12. ASSUME NEW l \in Lots, ~Grad(l)' PROVE HasTask(l)'
  <2>1. ~Grad(l) /\ l \notin corePending'
    BY <1>5, <1>12 DEF Grad
  <2>2. ASSUME lot'[l].status = "EXITING" PROVE \E i \in DOMAIN exitQ'[lot'[l].mint] : ExitTask(l, i)'
    <3>1. lot[l].status = "EXITING" /\ Interrupted(l)
      BY <1>7, <2>1, <2>2
    <3>2. PICK n \in Mints : n = lot[l].mint
      BY <1>5 DEF LotRecord
    <3>3. l \in InterruptedOf(n)
      BY <3>1, <3>2 DEF InterruptedOf, ActiveRows, Active
    <3>4. PICK i \in DOMAIN order[n] : order[n][i] = l
      BY <1>3, <3>3 DEF InCreationOrder
    <3>5. i \in DOMAIN exitQ'[n] /\ exitQ'[n][i].lot = l /\ exitQ'[n][i].kind = "RESTART" /\ lot'[l].mint = n
      BY <1>5, <1>10, <3>2, <3>4
    <3>. QED BY <3>5 DEF ExitTask
  <2>. QED BY <2>1, <2>2 DEF HasTask
<1>13. Queues'
  BY <1>11, <1>12 DEF Queues
<1>. QED BY <1>8, <1>9, <1>13 DEF LInv

LEMMA InitLots == Init => LInv
<1>. SUFFICES ASSUME Init PROVE LInv
  OBVIOUS
<1>1. IInv
  BY InitInv
<1>2. Called /\ Empty
  BY DEF Init, Called, Calling, Empty, NoEntry, NoLot
<1>3. ASSUME NEW l \in Lots PROVE LotInv(l) /\ HasTask(l)
  <2>1. /\ lot[l].status = "NONE" /\ lot[l].amt = 0 /\ lot[l].mode = "PLAIN" /\ lot[l].unknown = FALSE
        /\ lot[l].aged = FALSE
    BY <1>3 DEF Init, NoRow
  <2>2. recov[l].phase = "OFF" /\ Still(timers[l]) /\ buyTx[l] = "NONE" /\ l \notin positions /\ l \notin corePending
        /\ entering.lot # l
    BY <1>3 DEF Init, NoRecov, NoTimer, Still, NoEntry, NoLot, Lots
  <2>3. Fresh(l) /\ Watched(l) /\ Fated(l) /\ RowInv(l)
    BY <2>1, <2>2 DEF Fresh, Watched, Fated, RowInv
  <2>4. MemInv(l)
    BY <2>1, <2>2 DEF MemInv, Still, TimerKinds, Active
  <2>. QED BY <2>1, <2>2, <2>3, <2>4 DEF LotInv, HasTask
<1>4. \A m \in Mints : DOMAIN exitQ[m] = {}
  BY DEF Init
<1>. QED BY <1>1, <1>2, <1>3, <1>4 DEF LInv, Queues

LEMMA NextLots == LInv /\ [Next]_vars => LInv'
<1>. SUFFICES ASSUME LInv, [Next]_vars PROVE LInv'
  OBVIOUS
<1>1. IInv'
  BY NextInv DEF LInv
<1>2. ASSUME NEW l \in Lots, LotStep(l) PROVE LInv'
  <2>1. CASE \E m \in Mints, mode \in ExitModes : Enter(l, m, mode)
    BY <1>1, <2>1, EnterLot
  <2>2. CASE EntryStep(l)
    BY <1>1, <2>2, EntryFailures, EntryMoves, BuyReceivedLot, EntryUnknownLot DEF EntryStep
  <2>3. CASE RecoveryStep(l)
    BY <1>1, <2>3, RecoveryConfirmsLot, RecoveryFailsLot, RecoveryUnsureLot, RecoveryRetriesLot DEF RecoveryStep
  <2>4. CASE TimerStep(l)
    BY <1>1, <2>4, TimerFires, RecoverFiresLot DEF TimerStep
  <2>5. CASE \E reason \in {"NORMAL", "TAKE_PROFIT"} : PriceExit(l, reason)
    BY <1>1, <2>5, PriceExitLot
  <2>6. CASE RequestCoreExit(l)
    BY <1>1, <2>6, RequestCoreExitLot
  <2>7. CASE FlyingBuyEnds(l) \/ FlyingSaleEnds(l) \/ Age(l)
    BY <1>1, <2>7, FlyingBuyLot, QuietLot, AgeLot
  <2>. QED BY <1>2, <2>1, <2>2, <2>3, <2>4, <2>5, <2>6, <2>7 DEF LotStep
<1>3. ASSUME NEW m \in Mints, MintStep(m) PROVE LInv'
  BY <1>1, <1>3, GraduateLot, ExitLot, QuietLot DEF MintStep
<1>4. CASE Stop \/ StopDone \/ Crash \/ Start
  BY <1>1, <1>4, StopLots, StopDoneLots, CrashLots, StartLots
<1>5. CASE UNCHANGED vars
  BY <1>1, <1>5, NothingMoves DEF vars, procVars, storeVars, memVars, taskVars, chainVars
<1>. QED BY <1>2, <1>3, <1>4, <1>5 DEF Next

-----------------------------------------------------------------------------
(* All lots, GRAD lots too                                                  *)
(*                                                                          *)
(* What is left of the above when a lot may be recovered and exited at once: *)
(* the positions Map holds no ended lot, an exiting lot has its task, and    *)
(* core tasks and coreExitPending agree.                                    *)

HeldRow(l) ==
    /\ Alive /\ l \in positions => lot[l].status \in Active
    /\ lot[l].unknown => lot[l].status \in {"EXIT_FAILED", "CLOSED"}

CoreOnce(m) ==
    \A i \in DOMAIN exitQ[m] :
        exitQ[m][i].kind = "CORE" =>
            /\ exitQ[m][i].lot \in corePending
            /\ \A j \in DOMAIN exitQ[m] :
                  exitQ[m][j].kind = "CORE" /\ exitQ[m][j].lot = exitQ[m][i].lot => j = i

Held ==
    /\ \A l \in Lots : HeldRow(l) /\ HasTask(l)
    /\ \A m \in Mints : CoreOnce(m)

HInv == LInv /\ Held

\* What a row may do without a task.
Idles(k) ==
    /\ lot[k].status = "NONE" \/ lot'[k].mint = lot[k].mint
    /\ lot'[k].status = "EXITING" => lot[k].status = "EXITING"

\* A step that changes at most the row of l.
LEMMA RowsHeld ==
    ASSUME Held, NEW l \in Lots, Alive' => Alive, HeldRow(l)', Idles(l),
           \A k \in Lots : k # l => lot'[k] = lot[k] /\ (k \in positions' => k \in positions)
    PROVE  \A k \in Lots : HeldRow(k)' /\ Idles(k)
<1>. SUFFICES ASSUME NEW k \in Lots, k # l PROVE HeldRow(k)' /\ Idles(k)
  OBVIOUS
<1>1. HeldRow(k) /\ lot'[k] = lot[k] /\ (k \in positions' => k \in positions)
  BY DEF Held
<1>. QED BY <1>1 DEF HeldRow, Idles

\* A lot with a task, or with a core exit pending, was entered.
LEMMA TaskEntered ==
    ASSUME LInv
    PROVE  /\ \A m \in Mints : \A i \in DOMAIN exitQ[m] :
                 exitQ[m][i].lot \in Lots /\ lot[exitQ[m][i].lot].status # "NONE" /\ lot[exitQ[m][i].lot].mint = m
           /\ \A l \in corePending : l \in Lots /\ lot[l].status # "NONE"
           /\ \A l \in Lots : lot[l].mint \in Mints
<1>1. IInv /\ Queues /\ \A l \in Lots : LotInv(l)
  BY DEF LInv
<1>2. ASSUME NEW m \in Mints, NEW i \in DOMAIN exitQ[m]
      PROVE  exitQ[m][i].lot \in Lots /\ lot[exitQ[m][i].lot].status # "NONE" /\ lot[exitQ[m][i].lot].mint = m
  <2>1. TaskInv(m, i)
    BY <1>1 DEF Queues
  <2>. QED BY <1>1, <2>1, QueueTyped DEF TaskInv, Entered
<1>3. ASSUME NEW l \in corePending PROVE l \in Lots /\ lot[l].status # "NONE"
  <2>1. l \in Lots
    BY <1>1 DEF IInv, MemOK
  <2>. QED BY <1>1, <2>1 DEF LotInv, Fresh
<1>. QED BY <1>1, <1>2, <1>3, MintType

\* The queues stay as they are.
LEMMA HeldStays ==
    ASSUME HInv, Alive' => Alive, exitQ' = exitQ, corePending' = corePending,
           \A k \in Lots : HeldRow(k)' /\ Idles(k)
    PROVE  Held'
<1>1. ASSUME NEW l \in Lots PROVE HasTask(l)'
  <2>1. HasTask(l) /\ (l \in corePending => lot[l].status # "NONE")
    BY TaskEntered DEF HInv, Held
  <2>2. lot'[l].mint = lot[l].mint \/ (lot[l].status = "NONE" /\ lot'[l].status # "EXITING")
    BY DEF Idles
  <2>3. CASE lot'[l].mint = lot[l].mint
    BY <2>1, <2>3 DEF HasTask, ExitTask, CoreTask, Idles
  <2>4. CASE lot[l].status = "NONE" /\ lot'[l].status # "EXITING"
    BY <2>1, <2>4 DEF HasTask
  <2>. QED BY <2>2, <2>3, <2>4
<1>2. \A m \in Mints : CoreOnce(m)'
  BY DEF HInv, Held, CoreOnce
<1>. QED BY <1>1, <1>2 DEF Held

\* A task joins the queue of its mint.
LEMMA HeldAdds ==
    ASSUME HInv, Alive' => Alive, NEW l \in Lots, NEW kind \in TaskKinds, exitQ' = Enqueued(l, kind),
           lot'[l].mint = lot[l].mint,
           \A k \in Lots : HeldRow(k)' /\ (k # l => Idles(k)),
           IF kind = "CORE" THEN corePending' = corePending \cup {l} /\ l \notin corePending /\ Idles(l)
                            ELSE corePending' = corePending
    PROVE  Held'
<1>. DEFINE new == [lot |-> l, kind |-> kind]
<1>1. LInv /\ IInv /\ Held
  BY DEF HInv, LInv
<1>n. PICK n \in Mints : n = lot[l].mint
  BY <1>1, MintType
<1>e. PICK e \in Nat : e = Len(exitQ[n]) + 1
  BY <1>1, QueueTyped
<1>2. new.lot = l /\ new.kind = kind /\ new \in Task
  BY DEF Task
<1>3. /\ exitQ'[n] = Append(exitQ[n], new)
      /\ \A m \in Mints : m # n => exitQ'[m] = exitQ[m]
  BY <1>1, <1>n DEF Enqueued, IInv, ExitOK
<1>. HIDE DEF new
<1>4. /\ DOMAIN exitQ'[n] = DOMAIN exitQ[n] \cup {e}
      /\ \A i \in DOMAIN exitQ[n] : exitQ'[n][i] = exitQ[n][i] /\ i # e
      /\ exitQ'[n][e] = new
  <2>1. exitQ[n] \in Seq(Task) /\ DOMAIN exitQ[n] = 1..Len(exitQ[n]) /\ Len(exitQ[n]) \in Nat
    BY <1>1, QueueTyped
  <2>2. /\ Len(exitQ'[n]) = Len(exitQ[n]) + 1 /\ DOMAIN exitQ'[n] = 1..Len(exitQ'[n])
        /\ \A i \in 1..Len(exitQ[n]) : exitQ'[n][i] = exitQ[n][i]
        /\ exitQ'[n][Len(exitQ[n]) + 1] = new
    BY <1>2, <1>3, <2>1, AppendProperties
  <2>. QED BY <1>e, <2>1, <2>2
<1>5. \A m \in Mints : \A i \in DOMAIN exitQ[m] : i \in DOMAIN exitQ'[m] /\ exitQ'[m][i] = exitQ[m][i]
  BY <1>3, <1>4
<1>6. ASSUME NEW k \in Lots PROVE HasTask(k)'
  <2>1. HasTask(k) /\ (k \in corePending => lot[k].status # "NONE") /\ lot[k].mint \in Mints
    BY <1>1, TaskEntered DEF Held
  <2>2. ASSUME Alive', lot'[k].status = "EXITING"
        PROVE  \E i \in DOMAIN exitQ'[lot'[k].mint] : ExitTask(k, i)'
    <3>1. CASE lot[k].status = "EXITING" /\ lot'[k].mint = lot[k].mint
      <4>1. PICK i \in DOMAIN exitQ[lot[k].mint] : ExitTask(k, i)
        BY <2>1, <2>2, <3>1 DEF HasTask
      <4>. QED BY <1>5, <2>1, <3>1, <4>1 DEF ExitTask
    <3>2. CASE k = l /\ kind # "CORE"
      BY <1>n, <1>2, <1>4, <3>2 DEF ExitTask
    <3>. QED BY <2>2, <3>1, <3>2 DEF Idles
  <2>3. ASSUME k \in corePending'
        PROVE  \E i \in DOMAIN exitQ'[lot'[k].mint] : CoreTask(k, i)'
    <3>1. CASE k \in corePending
      <4>1. PICK i \in DOMAIN exitQ[lot[k].mint] : CoreTask(k, i)
        BY <2>1, <3>1 DEF HasTask
      <4>2. lot'[k].mint = lot[k].mint
        BY <2>1, <3>1 DEF Idles
      <4>. QED BY <1>5, <2>1, <4>1, <4>2 DEF CoreTask
    <3>2. CASE k \notin corePending
      <4>1. k = l /\ kind = "CORE"
        BY <2>3, <3>2
      <4>. QED BY <1>n, <1>2, <1>4, <4>1 DEF CoreTask
    <3>. QED BY <3>1, <3>2
  <2>. QED BY <2>2, <2>3 DEF HasTask
<1>7. ASSUME NEW m \in Mints PROVE CoreOnce(m)'
  <2>1. CoreOnce(m)
    BY <1>1 DEF Held
  <2>2. ASSUME NEW i \in DOMAIN exitQ[m], NEW j \in DOMAIN exitQ'[m], exitQ[m][i].kind = "CORE"
        PROVE  /\ exitQ[m][i].lot \in corePending'
               /\ exitQ'[m][j].kind = "CORE" /\ exitQ'[m][j].lot = exitQ[m][i].lot => j = i
    <3>1. exitQ[m][i].lot \in corePending
      BY <2>1, <2>2 DEF CoreOnce
    <3>2. CASE j \in DOMAIN exitQ[m]
      BY <1>5, <2>1, <2>2, <3>1, <3>2 DEF CoreOnce
    <3>3. CASE j \notin DOMAIN exitQ[m]
      <4>1. m = n /\ j = e
        BY <1>3, <1>4, <2>2, <3>3
      <4>2. exitQ'[m][j].kind = "CORE" => exitQ[m][i].lot # l
        BY <1>2, <1>4, <3>1, <4>1
      <4>. QED BY <1>2, <1>4, <3>1, <4>1, <4>2
    <3>. QED BY <3>2, <3>3
  <2>3. ASSUME NEW i \in DOMAIN exitQ'[m], exitQ'[m][i].kind = "CORE", i \notin DOMAIN exitQ[m],
               NEW j \in DOMAIN exitQ'[m], exitQ'[m][j].kind = "CORE", exitQ'[m][j].lot = exitQ'[m][i].lot
        PROVE  exitQ'[m][i].lot \in corePending' /\ j = i
    <3>1. m = n /\ i = e /\ kind = "CORE" /\ exitQ'[m][i].lot = l
      BY <1>2, <1>3, <1>4, <2>3
    <3>2. CASE j \in DOMAIN exitQ[m]
      <4>1. exitQ[m][j].kind = "CORE" /\ exitQ[m][j].lot = l
        BY <1>5, <2>3, <3>1, <3>2
      <4>. QED BY <2>1, <3>1, <3>2, <4>1 DEF CoreOnce
    <3>3. CASE j \notin DOMAIN exitQ[m]
      BY <1>4, <2>3, <3>1, <3>3
    <3>. QED BY <3>1, <3>2, <3>3
  <2>4. ASSUME NEW i \in DOMAIN exitQ'[m], exitQ'[m][i].kind = "CORE"
        PROVE  /\ exitQ'[m][i].lot \in corePending'
               /\ \A j \in DOMAIN exitQ'[m] :
                     exitQ'[m][j].kind = "CORE" /\ exitQ'[m][j].lot = exitQ'[m][i].lot => j = i
    <3>1. CASE i \in DOMAIN exitQ[m]
      BY <1>5, <2>2, <2>4, <3>1
    <3>2. CASE i \notin DOMAIN exitQ[m]
      BY <2>3, <2>4, <3>2
    <3>. QED BY <3>1, <3>2
  <2>. QED BY <2>4 DEF CoreOnce
<1>. QED BY <1>6, <1>7 DEF Held

\* The task at the head of the queue of m has ended.
LEMMA HeldDrops ==
    ASSUME HInv, Alive' => Alive, NEW m \in Mints, exitQ[m] # <<>>, exitQ' = [exitQ EXCEPT ![m] = Tail(@)],
           \A k \in Lots : HeldRow(k)' /\ Idles(k),
           IF Head1(m).kind = "CORE" THEN corePending' = corePending \ {Head1(m).lot}
           ELSE corePending' = corePending /\ lot'[Head1(m).lot].status # "EXITING"
    PROVE  Held'
<1>. DEFINE q == exitQ[m]
            h == Head1(m).lot
<1>1. LInv /\ IInv /\ Held
  BY DEF HInv, LInv
<1>2. q \in Seq(Task) /\ q # <<>> /\ 1 \in DOMAIN q /\ Head1(m) = q[1]
  <2>1. q \in Seq(Task) /\ q # <<>>
    BY <1>1, QueueTyped
  <2>2. Len(q) \in Nat \ {0} /\ Head(q) = q[1] /\ DOMAIN q = 1..Len(q)
    BY <2>1, HeadTailProperties
  <2>. QED BY <2>1, <2>2 DEF Head1
<1>3. exitQ'[m] = Tail(q) /\ \A n \in Mints : n # m => exitQ'[n] = exitQ[n]
  BY <1>1 DEF IInv, ExitOK
<1>4. /\ Len(q) \in Nat /\ DOMAIN q = 1..Len(q) /\ DOMAIN exitQ'[m] = 1..(Len(q) - 1)
      /\ \A i \in DOMAIN exitQ'[m] : i + 1 \in DOMAIN q /\ i + 1 # 1 /\ exitQ'[m][i] = q[i + 1] /\ i \in Int
  <2>1. /\ Len(q) \in Nat \ {0} /\ Len(Tail(q)) = Len(q) - 1 /\ Tail(q) \in Seq(Task)
        /\ \A i \in 1..Len(Tail(q)) : Tail(q)[i] = q[i + 1]
    BY <1>2, HeadTailProperties
  <2>2. DOMAIN Tail(q) = 1..Len(Tail(q)) /\ DOMAIN q = 1..Len(q)
    BY <1>2, <2>1
  <2>3. \A i \in 1..(Len(q) - 1) : i + 1 \in 1..Len(q) /\ i + 1 # 1 /\ i \in Int
    BY <2>1
  <2>. QED BY <1>3, <2>1, <2>2, <2>3
<1>5. \A i \in DOMAIN q : i # 1 => i - 1 \in DOMAIN exitQ'[m] /\ exitQ'[m][i - 1] = q[i]
  <2>1. \A i \in 1..Len(q) : i # 1 => i - 1 \in 1..(Len(q) - 1) /\ (i - 1) + 1 = i
    BY <1>4
  <2>. QED BY <1>4, <2>1
<1>6. h \in Lots /\ lot[h].mint = m /\ lot[h].status # "NONE"
  BY <1>1, <1>2, TaskEntered
<1>. HIDE DEF q, h
<1>7. ASSUME NEW k \in Lots PROVE HasTask(k)'
  <2>1. HasTask(k) /\ (k \in corePending => lot[k].status # "NONE") /\ lot[k].mint \in Mints
    BY <1>1, TaskEntered DEF Held
  <2>2. ASSUME Alive', lot'[k].status = "EXITING"
        PROVE  \E i \in DOMAIN exitQ'[lot'[k].mint] : ExitTask(k, i)'
    <3>1. lot[k].status = "EXITING" /\ lot'[k].mint = lot[k].mint
      BY <2>2 DEF Idles
    <3>2. PICK i \in DOMAIN exitQ[lot[k].mint] : ExitTask(k, i)
      BY <2>1, <2>2, <3>1 DEF HasTask
    <3>3. CASE lot[k].mint # m
      BY <1>3, <2>1, <3>1, <3>2, <3>3 DEF ExitTask
    <3>4. CASE lot[k].mint = m
      <4>1. i \in DOMAIN q /\ q[i].lot = k /\ q[i].kind # "CORE"
        BY <3>2, <3>4 DEF ExitTask, q
      <4>2. i # 1
        BY <1>2, <2>2, <4>1 DEF h
      <4>. QED BY <1>5, <3>1, <3>4, <4>1, <4>2 DEF ExitTask
    <3>. QED BY <3>3, <3>4
  <2>3. ASSUME k \in corePending'
        PROVE  \E i \in DOMAIN exitQ'[lot'[k].mint] : CoreTask(k, i)'
    <3>1. k \in corePending /\ (Head1(m).kind = "CORE" => k # h)
      BY <2>3 DEF h
    <3>2. PICK i \in DOMAIN exitQ[lot[k].mint] : CoreTask(k, i)
      BY <2>1, <3>1 DEF HasTask
    <3>3. lot'[k].mint = lot[k].mint
      BY <2>1, <3>1 DEF Idles
    <3>4. CASE lot[k].mint # m
      BY <1>3, <2>1, <3>2, <3>3, <3>4 DEF CoreTask
    <3>5. CASE lot[k].mint = m
      <4>1. i \in DOMAIN q /\ q[i].lot = k /\ q[i].kind = "CORE"
        BY <3>2, <3>5 DEF CoreTask, q
      <4>2. i # 1
        BY <1>2, <3>1, <4>1 DEF h
      <4>. QED BY <1>5, <3>3, <3>5, <4>1, <4>2 DEF CoreTask
    <3>. QED BY <3>4, <3>5
  <2>. QED BY <2>2, <2>3 DEF HasTask
<1>8. ASSUME NEW n \in Mints PROVE CoreOnce(n)'
  <2>1. CoreOnce(n)
    BY <1>1 DEF Held
  <2>2. CASE n = m
    <3>1. ASSUME NEW i \in DOMAIN exitQ'[m], exitQ'[m][i].kind = "CORE"
          PROVE  /\ exitQ'[m][i].lot \in corePending'
                 /\ \A j \in DOMAIN exitQ'[m] :
                       exitQ'[m][j].kind = "CORE" /\ exitQ'[m][j].lot = exitQ'[m][i].lot => j = i
      <4>1. i + 1 \in DOMAIN q /\ i + 1 # 1 /\ exitQ'[m][i] = q[i + 1] /\ i \in Int
        BY <1>4, <3>1
      <4>2. /\ q[i + 1].lot \in corePending
            /\ \A j \in DOMAIN q : q[j].kind = "CORE" /\ q[j].lot = q[i + 1].lot => j = i + 1
        BY <2>1, <2>2, <3>1, <4>1 DEF CoreOnce, q
      <4>3. Head1(m).kind = "CORE" => q[i + 1].lot # h
        BY <1>2, <4>1, <4>2 DEF h
      <4>4. exitQ'[m][i].lot \in corePending'
        BY <4>1, <4>2, <4>3 DEF h
      <4>5. ASSUME NEW j \in DOMAIN exitQ'[m], exitQ'[m][j].kind = "CORE", exitQ'[m][j].lot = exitQ'[m][i].lot
            PROVE  j = i
        <5>1. j + 1 \in DOMAIN q /\ exitQ'[m][j] = q[j + 1] /\ j \in Int
          BY <1>4
        <5>2. j + 1 = i + 1
          BY <4>1, <4>2, <4>5, <5>1
        <5>. QED BY <4>1, <5>1, <5>2
      <4>. QED BY <4>4, <4>5
    <3>. QED BY <2>2, <3>1 DEF CoreOnce
  <2>3. CASE n # m
    <3>1. \A i \in DOMAIN exitQ[n] : exitQ[n][i].lot # h
      BY <1>1, <1>6, <2>3, TaskEntered
    <3>2. \A x : x # h /\ x \in corePending => x \in corePending'
      BY DEF h
    <3>. QED BY <1>3, <2>1, <2>3, <3>1, <3>2 DEF CoreOnce
  <2>. QED BY <2>2, <2>3
<1>. QED BY <1>7, <1>8 DEF Held

\* A step that changes at most the row of l, and no queue.
LEMMA OneHeld ==
    ASSUME HInv, NEW l \in Lots, Alive' => Alive, exitQ' = exitQ, corePending' = corePending,
           HeldRow(l)', Idles(l),
           \A k \in Lots : k # l => lot'[k] = lot[k] /\ (k \in positions' => k \in positions)
    PROVE  Held'
BY RowsHeld, HeldStays DEF HInv

\* A step that changes no row, and no queue.
LEMMA RowsStay ==
    ASSUME HInv, Alive' => Alive, lot' = lot, exitQ' = exitQ, corePending' = corePending, positions' \subseteq positions
    PROVE  Held'
<1>1. \A k \in Lots : HeldRow(k)' /\ Idles(k)
  BY DEF HInv, Held, HeldRow, Idles
<1>. QED BY <1>1, HeldStays

LEMMA StillHeld ==
    ASSUME HInv, \/ \E l \in Lots : \/ SendBuy(l) \/ RefreshQuote(l) \/ BuyConfirmed(l)
                                    \/ RecoverFires(l) \/ FlyingBuyEnds(l) \/ FlyingSaleEnds(l)
                 \/ \E m \in Mints : Graduate(m) \/ Sell(m) \/ RecheckLock(m) \/ SoldByHand(m)
                 \/ Stop \/ UNCHANGED vars
    PROVE  Held'
<1>1. (Alive' => Alive) /\ lot' = lot /\ exitQ' = exitQ /\ corePending' = corePending /\ positions' = positions
  BY DEF SendBuy, RefreshQuote, BuyConfirmed, RecoverFires, FlyingBuyEnds, FlyingSaleEnds, Graduate, Sell,
         RecheckLock, SoldByHand, Stop, vars, procVars, storeVars, memVars, taskVars, chainVars, Alive
<1>. QED BY <1>1, RowsStay

LEMMA EnterHeld ==
    ASSUME HInv, NEW l \in Lots, NEW m \in Mints, NEW mode \in ExitModes, Enter(l, m, mode)
    PROVE  Held'
<1>1. /\ run = "UP" /\ run' = run /\ lot[l].status = "NONE" /\ positions' = positions \cup {l}
      /\ exitQ' = exitQ /\ corePending' = corePending
  BY DEF Enter, procVars
<1>2. /\ lot'[l] = [NoRow EXCEPT !.mint = m, !.mode = mode, !.status = "OPENING"]
      /\ \A k \in Lots : k # l => lot'[k] = lot[k]
  BY DEF Enter, HInv, LInv, IInv, StoreOK
<1>3. lot'[l].status = "OPENING" /\ lot'[l].unknown = FALSE
  BY <1>2 DEF NoRow
<1>4. HeldRow(l)' /\ Idles(l)
  BY <1>1, <1>3 DEF HeldRow, Idles, Active
<1>. QED BY <1>1, <1>2, <1>4, OneHeld DEF Alive

LEMMA EntryFailuresHeld ==
    ASSUME HInv, NEW l \in Lots, WalletHolds(l) \/ EntryRejected(l) \/ BuyErred(l) \/ SendThrows(l) \/ ReadThrows(l)
    PROVE  Held'
<1>1. PICK sig \in BOOLEAN : EntryFails(l, sig)
  BY DEF WalletHolds, EntryRejected, BuyErred, SendThrows, ReadThrows
<1>2. /\ run' = run /\ exitQ' = exitQ /\ corePending' = corePending /\ positions' = positions \ {l}
      /\ lot'[l] = Failed(lot[l], sig) /\ (\A k \in Lots : k # l => lot'[k] = lot[k]) /\ lot[l] \in LotRecord
  BY <1>1 DEF EntryFails, procVars, HInv, LInv, IInv, StoreOK
<1>3. lot'[l].status = "ENTRY_FAILED" /\ lot'[l].unknown = FALSE /\ lot'[l].mint = lot[l].mint
  BY <1>2 DEF Failed, LotRecord
<1>4. HeldRow(l)' /\ Idles(l)
  BY <1>2, <1>3 DEF HeldRow, Idles
<1>. QED BY <1>2, <1>4, OneHeld DEF Alive

LEMMA BuyReceivedHeld == ASSUME HInv, NEW l \in Lots, BuyReceived(l) PROVE Held'
<1>1. PICK received : lot' = [lot EXCEPT ![l] = Opened(@, TRUE, received)]
  BY DEF BuyReceived
<1>2. /\ run' = run /\ exitQ' = exitQ /\ corePending' = corePending /\ positions' = positions
      /\ lot'[l] = Opened(lot[l], TRUE, received) /\ (\A k \in Lots : k # l => lot'[k] = lot[k]) /\ lot[l] \in LotRecord
  BY <1>1 DEF BuyReceived, procVars, HInv, LInv, IInv, StoreOK
<1>3. lot'[l].status = "OPEN" /\ lot'[l].unknown = FALSE /\ lot'[l].mint = lot[l].mint
  BY <1>2 DEF Opened, LotRecord
<1>4. HeldRow(l)' /\ Idles(l)
  BY <1>2, <1>3 DEF HeldRow, Idles, Active
<1>. QED BY <1>2, <1>4, OneHeld DEF Alive

\* The recovery gives up, whatever became of the lot in the meantime.
LEMMA RecoveryEndsHeld ==
    ASSUME HInv, NEW l \in Lots, NEW L \in [Lots -> LotRecord], NEW r, RecoveryEnds(l, L, r), run' = run,
           exitQ' = exitQ, corePending' = corePending, L[l].mint = lot[l].mint,
           \A k \in Lots : k # l => L[k] = lot[k]
    PROVE  Held'
<1>1. PICK released \in BOOLEAN :
         /\ lot' = [L EXCEPT ![l] = IF released THEN Failed(@, TRUE) ELSE Unsettled(@, @.sig, r.expired)]
         /\ positions' = IF released THEN positions \ {l} ELSE positions
  BY DEF RecoveryEnds
<1>2. /\ lot'[l] = IF released THEN Failed(L[l], TRUE) ELSE Unsettled(L[l], L[l].sig, r.expired)
      /\ \A k \in Lots : k # l => lot'[k] = lot[k]
  BY <1>1
<1>3. /\ lot'[l].status = IF released THEN "ENTRY_FAILED" ELSE "EXIT_FAILED"
      /\ lot'[l].mint = lot[l].mint /\ (lot'[l].unknown => ~released)
  <2>1. L[l] \in LotRecord
    OBVIOUS
  <2>2. CASE released
    BY <1>2, <2>1, <2>2 DEF Failed, LotRecord
  <2>3. CASE ~released
    BY <1>2, <2>1, <2>3 DEF Unsettled, LotRecord
  <2>. QED BY <2>2, <2>3
<1>4. HeldRow(l)' /\ Idles(l)
  BY <1>1, <1>3 DEF HeldRow, Idles, Active
<1>. QED BY <1>1, <1>2, <1>4, OneHeld DEF Alive

LEMMA EntryUnknownHeld ==
    ASSUME HInv, NEW l \in Lots, BuyTimesOut(l) \/ BuyUnseen(l)
    PROVE  Held'
<1>1. PICK expired \in BOOLEAN : EntryUnknown(l, expired)
  BY DEF BuyTimesOut, BuyUnseen
<1>. DEFINE L == [lot EXCEPT ![l] = Unsettled(@, TRUE, expired)]
<1>2. /\ L \in [Lots -> LotRecord] /\ L[l] = Unsettled(lot[l], TRUE, expired) /\ \A k \in Lots : k # l => L[k] = lot[k]
      /\ lot[l] \in LotRecord
  BY UnsettledType DEF HInv, LInv, IInv, StoreOK
<1>3. L[l].status = "EXIT_FAILED" /\ L[l].mint = lot[l].mint
  BY <1>2 DEF Unsettled, LotRecord
<1>4. /\ run' = run /\ exitQ' = exitQ /\ corePending' = corePending
      /\ \/ lot' = L /\ positions' = positions
         \/ RecoveryEnds(l, L, Unasked(expired))
  BY <1>1 DEF EntryUnknown, procVars
<1>. HIDE DEF L
<1>5. CASE RecoveryEnds(l, L, Unasked(expired))
  <2>1. PICK M \in [Lots -> LotRecord] : M = L
    BY <1>2
  <2>. QED BY <1>2, <1>3, <1>4, <1>5, <2>1, RecoveryEndsHeld
<1>6. CASE lot' = L /\ positions' = positions
  <2>1. HeldRow(l)' /\ Idles(l)
    BY <1>3, <1>6 DEF HeldRow, Idles, Active
  <2>. QED BY <1>2, <1>4, <1>6, <2>1, OneHeld DEF Alive
<1>. QED BY <1>4, <1>5, <1>6

LEMMA RecoveryGoesHeld ==
    ASSUME HInv, NEW l \in Lots, RecoveryUnsure(l) \/ RecoveryRetries(l)
    PROVE  Held'
<1>1. run' = run /\ exitQ' = exitQ /\ corePending' = corePending
  BY DEF RecoveryUnsure, RecoveryRetries, procVars
<1>5. (lot' = lot /\ positions' = positions) \/ \E r : RecoveryEnds(l, lot, r)
  <2>1. CASE RecoveryUnsure(l)
    <3>1. PICK expired \in BOOLEAN, absent \in BOOLEAN :
             /\ Unseen(l, expired, absent)
             /\ \/ /\ recov' = [recov EXCEPT ![l] = [[recov[l] EXCEPT !.expired = expired, !.absent = absent]
                                                       EXCEPT !.phase = "DELAY"]]
                   /\ UNCHANGED <<lot, positions, timers, entering>>
                \/ RecoveryEnds(l, lot, [recov[l] EXCEPT !.expired = expired, !.absent = absent])
      BY <2>1 DEF RecoveryUnsure
    <3>. QED BY <3>1, Zenon
  <2>2. CASE RecoveryRetries(l)
    <3>1. UNCHANGED <<lot, positions, timers, entering>> \/ RecoveryEnds(l, lot, recov[l])
      BY <2>2, Zenon DEF RecoveryRetries
    <3>. QED BY <3>1, Zenon
  <2>. QED BY <2>1, <2>2
<1>2. PICK L \in [Lots -> LotRecord] : L = lot
  BY DEF HInv, LInv, IInv, StoreOK
<1>3. ASSUME NEW r, RecoveryEnds(l, lot, r) PROVE Held'
  <2>1. RecoveryEnds(l, L, r)
    BY <1>2, <1>3
  <2>. QED BY <1>1, <1>2, <2>1, RecoveryEndsHeld
<1>4. CASE lot' = lot /\ positions' = positions
  BY <1>1, <1>4, RowsStay DEF Alive
<1>. QED BY <1>3, <1>4, <1>5

LEMMA RecoveryFailsHeld == ASSUME HInv, NEW l \in Lots, RecoveryFails(l) PROVE Held'
<1>1. /\ run' = run /\ exitQ' = exitQ /\ corePending' = corePending /\ positions' = positions \ {l}
      /\ lot'[l] = Failed(lot[l], TRUE) /\ (\A k \in Lots : k # l => lot'[k] = lot[k]) /\ lot[l] \in LotRecord
  BY DEF RecoveryFails, procVars, HInv, LInv, IInv, StoreOK
<1>2. lot'[l].status = "ENTRY_FAILED" /\ lot'[l].unknown = FALSE /\ lot'[l].mint = lot[l].mint
  BY <1>1 DEF Failed, LotRecord
<1>3. HeldRow(l)' /\ Idles(l)
  BY <1>1, <1>2 DEF HeldRow, Idles
<1>. QED BY <1>1, <1>3, OneHeld DEF Alive

\* A request for an exit, on lots that differ from the present ones in l alone.
LEMMA RequestHeld ==
    ASSUME HInv, NEW l \in Lots, NEW reason \in ExitReasons, NEW L \in [Lots -> LotRecord],
           NEW T, RequestExit(l, reason, L, T), run' = run, positions' = positions, corePending' = corePending,
           \A k \in Lots : k # l => L[k] = lot[k], L[l].mint = lot[l].mint,
           L[l] = lot[l] \/ (L[l].status = "OPEN" /\ ~L[l].unknown)
    PROVE  Held'
<1>1. CASE lot' = L /\ exitQ' = exitQ
  <2>1. HeldRow(l)' /\ Idles(l)
    BY <1>1 DEF HInv, Held, HeldRow, Idles, Active, Alive
  <2>. QED BY <1>1, <2>1, OneHeld DEF Alive
<1>2. CASE lot' = [L EXCEPT ![l] = Exiting(@)] /\ exitQ' = Enqueued(l, reason)
  <2>1. lot'[l] = Exiting(L[l]) /\ L[l] \in LotRecord /\ \A k \in Lots : k # l => lot'[k] = lot[k]
    BY <1>2
  <2>2. lot'[l].status = "EXITING" /\ lot'[l].unknown = FALSE /\ lot'[l].mint = lot[l].mint
    BY <2>1 DEF Exiting, LotRecord
  <2>3. HeldRow(l)'
    BY <2>2 DEF HeldRow, Active
  <2>4. \A k \in Lots : HeldRow(k)' /\ (k # l => Idles(k))
    BY <2>1, <2>3 DEF HInv, Held, HeldRow, Idles, Alive
  <2>5. reason \in TaskKinds /\ reason # "CORE" /\ (Alive' => Alive)
    BY DEF TaskKinds, ExitReasons, Alive
  <2>. QED BY <1>2, <2>2, <2>4, <2>5, HeldAdds
<1>. QED BY <1>1, <1>2 DEF RequestExit

LEMMA AskingHeld ==
    ASSUME HInv, NEW l \in Lots,
           HoldFires(l) \/ DeferFires(l) \/ \E reason \in {"NORMAL", "TAKE_PROFIT"} : PriceExit(l, reason)
    PROVE  Held'
<1>1. PICK reason \in ExitReasons :
         \E T : RequestExit(l, reason, lot, T) /\ run' = run /\ positions' = positions /\ corePending' = corePending
  BY DEF HoldFires, DeferFires, PriceExit, procVars, ExitReasons
<1>2. PICK T :
         RequestExit(l, reason, lot, T) /\ run' = run /\ positions' = positions /\ corePending' = corePending
  BY <1>1
<1>3. PICK L \in [Lots -> LotRecord] : L = lot
  BY DEF HInv, LInv, IInv, StoreOK
<1>4. RequestExit(l, reason, L, T)
  BY <1>2, <1>3
<1>. QED BY <1>2, <1>3, <1>4, RequestHeld

LEMMA RecoveryConfirmsHeld == ASSUME HInv, NEW l \in Lots, RecoveryConfirms(l) PROVE Held'
<1>1. /\ run' = run /\ positions' = positions /\ corePending' = corePending
      /\ \E amount \in {LotAmount, wallet[lot[l].mint]} :
            LET L == [lot EXCEPT ![l] = Opened(@, @.sig, amount)]
            IN  RequestExit(l, "NORMAL", L, timers) \/ (lot' = L /\ exitQ' = exitQ)
  BY DEF RecoveryConfirms, procVars
<1>2. PICK amount \in {LotAmount, wallet[lot[l].mint]} :
            LET L == [lot EXCEPT ![l] = Opened(@, @.sig, amount)]
            IN  RequestExit(l, "NORMAL", L, timers) \/ (lot' = L /\ exitQ' = exitQ)
  BY <1>1
<1>3. amount \in Nat /\ lot \in [Lots -> LotRecord] /\ lot[l] \in LotRecord
  BY MintType, LiveAssumption DEF HInv, LInv, IInv, StoreOK, ChainOK
<1>. DEFINE L == [lot EXCEPT ![l] = Opened(@, @.sig, amount)]
<1>4. /\ L[l] = Opened(lot[l], lot[l].sig, amount) /\ \A k \in Lots : k # l => L[k] = lot[k]
      /\ L \in [Lots -> LotRecord]
  <2>1. Opened(lot[l], lot[l].sig, amount) \in LotRecord
    BY <1>3 DEF Opened, LotRecord, Statuses
  <2>. QED BY <1>3, <2>1
<1>5. L[l].status = "OPEN" /\ L[l].unknown = FALSE /\ L[l].mint = lot[l].mint
  BY <1>3, <1>4 DEF Opened, LotRecord
<1>6. RequestExit(l, "NORMAL", L, timers) \/ (lot' = L /\ exitQ' = exitQ)
  BY <1>2
<1>7. PICK M \in [Lots -> LotRecord] : M = L
  BY <1>4
<1>. HIDE DEF L
<1>8. CASE RequestExit(l, "NORMAL", L, timers)
  <2>1. RequestExit(l, "NORMAL", M, timers)
    BY <1>7, <1>8
  <2>. QED BY <1>1, <1>4, <1>5, <1>7, <2>1, RequestHeld DEF ExitReasons
<1>9. CASE lot' = L /\ exitQ' = exitQ
  <2>1. HeldRow(l)' /\ Idles(l)
    BY <1>5, <1>9 DEF HeldRow, Idles, Active
  <2>. QED BY <1>1, <1>4, <1>9, <2>1, OneHeld DEF Alive
<1>. QED BY <1>6, <1>8, <1>9

LEMMA RequestCoreExitHeld == ASSUME HInv, NEW l \in Lots, RequestCoreExit(l) PROVE Held'
<1>1. /\ run' = run /\ positions' = positions /\ l \notin corePending /\ corePending' = corePending \cup {l}
      /\ exitQ' = Enqueued(l, "CORE") /\ lot[l].status = "OPEN"
      /\ lot'[l] = [lot[l] EXCEPT !.coreTried = TRUE] /\ (\A k \in Lots : k # l => lot'[k] = lot[k])
      /\ lot[l] \in LotRecord
  BY DEF RequestCoreExit, procVars, HInv, LInv, IInv, StoreOK
<1>2. lot'[l].status = "OPEN" /\ (lot'[l].unknown <=> lot[l].unknown) /\ lot'[l].mint = lot[l].mint
  BY <1>1 DEF LotRecord
<1>3. HeldRow(l)' /\ Idles(l)
  BY <1>1, <1>2 DEF HInv, Held, HeldRow, Idles, Active
<1>4. \A k \in Lots : HeldRow(k)' /\ Idles(k)
  BY <1>1, <1>3, RowsHeld DEF HInv, Alive
<1>. QED BY <1>1, <1>2, <1>3, <1>4, HeldAdds DEF TaskKinds, Alive

LEMMA AgeHeld == ASSUME HInv, NEW l \in Lots, Age(l) PROVE Held'
<1>1. /\ run' = run /\ exitQ' = exitQ /\ corePending' = corePending /\ positions' = positions
      /\ lot'[l] = [lot[l] EXCEPT !.aged = TRUE] /\ (\A k \in Lots : k # l => lot'[k] = lot[k]) /\ lot[l] \in LotRecord
  BY DEF Age, procVars, memVars, taskVars, HInv, LInv, IInv, StoreOK
<1>2. lot'[l].status = lot[l].status /\ (lot'[l].unknown <=> lot[l].unknown) /\ lot'[l].mint = lot[l].mint
  BY <1>1 DEF LotRecord
<1>3. HeldRow(l)' /\ Idles(l)
  BY <1>1, <1>2 DEF HInv, Held, HeldRow, Idles, Alive
<1>. QED BY <1>1, <1>3, OneHeld DEF Alive

\* The lot at the head of a queue.
LEMMA HeadOf ==
    ASSUME HInv, NEW m \in Mints, exitQ[m] # <<>>
    PROVE  Head1(m).lot \in Lots
<1>1. exitQ[m] \in Seq(Task) /\ LInv
  BY QueueTyped DEF HInv, LInv
<1>2. 1 \in DOMAIN exitQ[m] /\ Head1(m) = exitQ[m][1]
  BY <1>1, HeadTailProperties DEF Head1
<1>. QED BY <1>1, <1>2, TaskEntered

LEMMA AttemptOverHeld ==
    ASSUME HInv, NEW m \in Mints, exitQ[m] # <<>>, Head1(m).kind # "CORE", NEW kinds, ExitAttemptOver(m, kinds),
           UNCHANGED <<run, positions, corePending>>
    PROVE  Held'
<1>1. PICK h \in Lots : h = Head1(m).lot
  BY HeadOf
<1>2. lot[h] \in LotRecord /\ lot \in [Lots -> LotRecord] /\ HeldRow(h)
  BY DEF HInv, LInv, IInv, StoreOK, Held
<1>3. CASE lot' = [lot EXCEPT ![h] = Ordered(@, kinds)] /\ exitQ' = exitQ
  <2>1. lot'[h] = Ordered(lot[h], kinds) /\ \A k \in Lots : k # h => lot'[k] = lot[k]
    BY <1>2, <1>3
  <2>2. lot'[h].status = lot[h].status /\ (lot'[h].unknown <=> lot[h].unknown) /\ lot'[h].mint = lot[h].mint
    BY <1>2, <2>1 DEF Ordered, LotRecord
  <2>3. HeldRow(h)' /\ Idles(h)
    BY <1>2, <2>2 DEF HeldRow, Idles, Alive
  <2>. QED BY <1>3, <2>1, <2>3, OneHeld DEF Alive
<1>4. CASE lot' = [lot EXCEPT ![h] = Ended(@, kinds, "EXIT_FAILED")] /\ TaskDone(m)
  <2>1. lot'[h] = Ended(lot[h], kinds, "EXIT_FAILED") /\ \A k \in Lots : k # h => lot'[k] = lot[k]
    BY <1>2, <1>4
  <2>2. lot'[h].status = "EXIT_FAILED" /\ lot'[h].mint = lot[h].mint
    BY <1>2, <2>1 DEF Ended, LotRecord
  <2>3. HeldRow(h)' /\ Idles(h)
    BY <2>2 DEF HeldRow, Idles, Active
  <2>4. \A k \in Lots : HeldRow(k)' /\ Idles(k)
    BY <2>1, <2>3, RowsHeld DEF HInv, Alive
  <2>. QED BY <1>1, <1>4, <2>2, <2>4, HeldDrops DEF TaskDone, Alive
<1>. QED BY <1>1, <1>3, <1>4 DEF ExitAttemptOver

LEMMA CloseLotHeld ==
    ASSUME HInv, NEW m \in Mints, exitQ[m] # <<>>, Head1(m).kind # "CORE", CloseLot(m, Head1(m).lot),
           UNCHANGED <<run, corePending>>
    PROVE  Held'
<1>1. PICK h \in Lots : h = Head1(m).lot
  BY HeadOf
<1>2. /\ lot[h] \in LotRecord /\ lot'[h] = Ended(lot[h], {"SELL"}, "CLOSED") /\ \A k \in Lots : k # h => lot'[k] = lot[k]
      /\ positions' = positions \ {h} /\ exitQ' = [exitQ EXCEPT ![m] = Tail(@)]
  BY <1>1 DEF CloseLot, TaskDone, HInv, LInv, IInv, StoreOK
<1>3. lot'[h].status = "CLOSED" /\ lot'[h].mint = lot[h].mint
  BY <1>2 DEF Ended, LotRecord
<1>4. HeldRow(h)' /\ Idles(h)
  BY <1>2, <1>3 DEF HeldRow, Idles
<1>5. \A k \in Lots : HeldRow(k)' /\ Idles(k)
  BY <1>2, <1>4, RowsHeld DEF HInv, Alive
<1>. QED BY <1>1, <1>2, <1>3, <1>5, HeldDrops DEF Alive

LEMMA SaleHeld ==
    ASSUME HInv, NEW m \in Mints,
           AlreadyEmpty(m) \/ SaleConfirmed(m) \/ SaleUnverified(m) \/ SaleUnanswered(m) \/ SellThrows(m)
    PROVE  Held'
<1>1. Running(m, ExitReasons) /\ UNCHANGED <<run, corePending>>
  BY DEF AlreadyEmpty, SaleConfirmed, SaleUnverified, SaleUnanswered, SellThrows, procVars, memVars
<1>2. exitQ[m] # <<>> /\ Head1(m).kind # "CORE"
  BY <1>1 DEF Running, ExitReasons
<1>3. \/ CloseLot(m, Head1(m).lot)
      \/ /\ \E kinds \in {{"SELL"}, {"SELL", "PARTIAL"}} : ExitAttemptOver(m, kinds)
         /\ UNCHANGED positions
  BY DEF AlreadyEmpty, SaleConfirmed, SaleUnverified, SaleUnanswered, SellThrows, memVars
<1>. QED BY <1>1, <1>2, <1>3, AttemptOverHeld, CloseLotHeld

\* A take profit that was rejected is of a lot that is still exiting, and whose
\* entry is known.
LEMMA TakeProfitRejectedHeld == ASSUME HInv, NEW m \in Mints, TakeProfitRejected(m) PROVE Held'
<1>1. /\ Alive /\ exitQ[m] # <<>> /\ Head1(m).kind = "TAKE_PROFIT" /\ LInv
      /\ lot' = [lot EXCEPT ![Head1(m).lot] = Ended(@, {}, "OPEN")]
      /\ exitQ' = [exitQ EXCEPT ![m] = Tail(@)] /\ UNCHANGED <<run, positions, corePending>>
  BY DEF TakeProfitRejected, Running, TaskDone, procVars, HInv
<1>2. PICK h \in Lots : h = Head1(m).lot /\ lot[h].mode = "PLAIN" /\ (~Grad(h) => lot[h].unknown = FALSE)
  BY <1>1, HeadLot
<1>3. /\ lot[h].unknown = FALSE /\ lot[h] \in LotRecord
      /\ lot'[h] = Ended(lot[h], {}, "OPEN") /\ \A k \in Lots : k # h => lot'[k] = lot[k]
  BY <1>1, <1>2 DEF Grad, LInv, IInv, StoreOK
<1>4. lot'[h].status = "OPEN" /\ lot'[h].unknown = FALSE /\ lot'[h].mint = lot[h].mint
  BY <1>3 DEF Ended, LotRecord
<1>5. HeldRow(h)' /\ Idles(h)
  BY <1>4 DEF HeldRow, Idles, Active
<1>6. \A k \in Lots : HeldRow(k)' /\ Idles(k)
  BY <1>1, <1>3, <1>5, RowsHeld DEF HInv, Alive
<1>. QED BY <1>1, <1>2, <1>4, <1>6, HeldDrops DEF Alive

LEMMA ExitAbandonedHeld == ASSUME HInv, NEW m \in Mints, ExitAbandoned(m) PROVE Held'
<1>1. /\ exitQ[m] # <<>> /\ Head1(m).kind # "CORE"
      /\ lot' = [lot EXCEPT ![Head1(m).lot] = Ended(@, {}, "EXIT_FAILED")]
      /\ exitQ' = [exitQ EXCEPT ![m] = Tail(@)] /\ UNCHANGED <<run, positions, corePending>>
  BY DEF ExitAbandoned, Running, ExitReasons, TaskDone, procVars, memVars
<1>2. PICK h \in Lots : h = Head1(m).lot
  BY <1>1, HeadOf
<1>3. lot[h] \in LotRecord /\ lot'[h] = Ended(lot[h], {}, "EXIT_FAILED") /\ \A k \in Lots : k # h => lot'[k] = lot[k]
  BY <1>1, <1>2 DEF HInv, LInv, IInv, StoreOK
<1>4. lot'[h].status = "EXIT_FAILED" /\ lot'[h].mint = lot[h].mint
  BY <1>3 DEF Ended, LotRecord
<1>5. HeldRow(h)' /\ Idles(h)
  BY <1>4 DEF HeldRow, Idles, Active
<1>6. \A k \in Lots : HeldRow(k)' /\ Idles(k)
  BY <1>1, <1>3, <1>5, RowsHeld DEF HInv, Alive
<1>. QED BY <1>1, <1>2, <1>4, <1>6, HeldDrops DEF Alive

LEMMA CoreHeld == ASSUME HInv, NEW m \in Mints, CoreConfirmed(m) \/ CoreFails(m) PROVE Held'
<1>1. /\ exitQ[m] # <<>> /\ Head1(m).kind = "CORE" /\ corePending' = corePending \ {Head1(m).lot}
      /\ exitQ' = [exitQ EXCEPT ![m] = Tail(@)] /\ UNCHANGED <<run, positions>>
      /\ \/ lot' = lot
         \/ lot' = [lot EXCEPT ![Head1(m).lot] = Ordered(@, {"SELL"})]
         \/ lot' = [lot EXCEPT ![Head1(m).lot] = CoreSold(@, seller[m].want)]
  BY DEF CoreConfirmed, CoreFails, Running, TaskDone, procVars
<1>2. PICK h \in Lots : h = Head1(m).lot
  BY <1>1, HeadOf
<1>3. lot[h] \in LotRecord /\ lot \in [Lots -> LotRecord] /\ HeldRow(h)
  BY DEF HInv, LInv, IInv, StoreOK, Held
<1>4. /\ lot'[h] \in {lot[h], Ordered(lot[h], {"SELL"}), CoreSold(lot[h], seller[m].want)}
      /\ \A k \in Lots : k # h => lot'[k] = lot[k]
  BY <1>1, <1>2, <1>3
<1>5. lot'[h].status = lot[h].status /\ (lot'[h].unknown <=> lot[h].unknown) /\ lot'[h].mint = lot[h].mint
  <2>1. CASE lot'[h] = lot[h]
    BY <2>1
  <2>2. CASE lot'[h] = Ordered(lot[h], {"SELL"})
    BY <1>3, <2>2 DEF Ordered, LotRecord
  <2>3. CASE lot'[h] = CoreSold(lot[h], seller[m].want)
    BY <1>3, <2>3 DEF CoreSold, LotRecord
  <2>. QED BY <1>4, <2>1, <2>2, <2>3
<1>6. HeldRow(h)' /\ Idles(h)
  BY <1>1, <1>3, <1>5 DEF HeldRow, Idles, Alive
<1>7. \A k \in Lots : HeldRow(k)' /\ Idles(k)
  BY <1>1, <1>4, <1>6, RowsHeld DEF HInv, Alive
<1>. QED BY <1>1, <1>7, HeldDrops DEF Alive

LEMMA MemoryLostHeld == ASSUME HInv, MemoryLost PROVE Held'
<1>1. /\ run' = "DOWN" /\ corePending' = {}
      /\ \A l \in Lots : lot'[l] = [lot[l] EXCEPT !.coreDone = FALSE, !.coreTried = FALSE]
  BY DEF MemoryLost
<1>2. ~Alive'
  BY <1>1 DEF Alive
<1>3. ASSUME NEW l \in Lots PROVE HeldRow(l)' /\ HasTask(l)'
  <2>1. lot[l] \in LotRecord /\ HeldRow(l)
    BY DEF HInv, LInv, IInv, StoreOK, Held
  <2>2. lot'[l].status = lot[l].status /\ (lot'[l].unknown <=> lot[l].unknown)
    BY <1>1, <2>1 DEF LotRecord
  <2>. QED BY <1>1, <1>2, <2>1, <2>2 DEF HeldRow, HasTask
<1>4. \A m \in Mints : DOMAIN exitQ'[m] = {}
  <2>1. exitQ' = [m \in Mints |-> <<>>]
    BY DEF MemoryLost
  <2>. QED BY <2>1
<1>. QED BY <1>3, <1>4 DEF Held, CoreOnce

\* start() queues every row that was exiting: the row of an exiting lot never
\* says that its entry is unknown.
LEMMA StartHeld == ASSUME HInv, Start PROVE Held'
<1>1. /\ run = "DOWN" /\ run' = "UP" /\ positions' = ActiveRows /\ corePending' = corePending
      /\ lot' = [l \in Lots |-> IF l \in ActiveRows THEN Restored(l) ELSE lot[l]]
  BY DEF Start
<1>2. corePending' = {}
  BY <1>1 DEF HInv, LInv, Empty
<1>3. PICK order \in [Mints -> UNION {[1..n -> Lots] : n \in 0..MaxLots}] :
         /\ \A m \in Mints : InCreationOrder(order[m], InterruptedOf(m))
         /\ exitQ' = [m \in Mints |-> [i \in DOMAIN order[m] |->
                                          [lot |-> order[m][i], kind |-> "RESTART"]]]
  BY DEF Start
<1>4. ASSUME NEW l \in Lots
      PROVE  /\ lot'[l].status = IF l \in ActiveRows /\ Interrupted(l) THEN "EXITING" ELSE lot[l].status
             /\ (lot'[l].unknown <=> lot[l].unknown) /\ lot'[l].mint = lot[l].mint /\ lot[l].mint \in Mints
             /\ HeldRow(l)
  <2>1. lot[l] \in LotRecord /\ HeldRow(l)
    BY DEF HInv, LInv, IInv, StoreOK, Held
  <2>2. lot'[l] = IF l \in ActiveRows THEN Restored(l) ELSE lot[l]
    BY <1>1
  <2>3. /\ Restored(l).status = IF Interrupted(l) THEN "EXITING" ELSE lot[l].status
        /\ (Restored(l).unknown <=> lot[l].unknown) /\ Restored(l).mint = lot[l].mint
    BY <2>1 DEF Restored, LotRecord
  <2>. QED BY <2>1, <2>2, <2>3 DEF LotRecord
<1>5. ASSUME NEW l \in Lots PROVE HeldRow(l)'
  <2>1. Interrupted(l) => ~lot[l].unknown
    BY <1>4 DEF HeldRow, Interrupted
  <2>. QED BY <1>1, <1>4, <2>1 DEF HeldRow, ActiveRows, Active
<1>6. \A m \in Mints : /\ DOMAIN exitQ'[m] = DOMAIN order[m]
                       /\ \A i \in DOMAIN order[m] : exitQ'[m][i].lot = order[m][i] /\ exitQ'[m][i].kind = "RESTART"
  BY <1>3
<1>7. ASSUME NEW l \in Lots PROVE HasTask(l)'
  <2>1. ASSUME lot'[l].status = "EXITING" PROVE \E i \in DOMAIN exitQ'[lot'[l].mint] : ExitTask(l, i)'
    <3>1. l \in ActiveRows /\ Interrupted(l)
      BY <1>4, <2>1 DEF HeldRow, Interrupted, Unresolved, ActiveRows, Active
    <3>2. PICK n \in Mints : n = lot[l].mint
      BY <1>4
    <3>3. l \in InterruptedOf(n)
      BY <3>1, <3>2 DEF InterruptedOf
    <3>4. PICK i \in DOMAIN order[n] : order[n][i] = l
      BY <1>3, <3>3 DEF InCreationOrder
    <3>. QED BY <1>4, <1>6, <3>2, <3>4 DEF ExitTask
  <2>. QED BY <1>2, <2>1 DEF HasTask
<1>8. \A m \in Mints : CoreOnce(m)'
  BY <1>6 DEF CoreOnce
<1>. QED BY <1>5, <1>7, <1>8 DEF Held

LEMMA InitHeld == Init => Held
<1>. SUFFICES ASSUME Init PROVE Held
  OBVIOUS
<1>1. ASSUME NEW l \in Lots PROVE HeldRow(l) /\ HasTask(l)
  <2>1. lot[l].status = "NONE" /\ lot[l].unknown = FALSE /\ l \notin positions /\ l \notin corePending
    BY DEF Init, NoRow
  <2>. QED BY <2>1 DEF HeldRow, HasTask
<1>2. \A m \in Mints : DOMAIN exitQ[m] = {}
  BY DEF Init
<1>. QED BY <1>1, <1>2 DEF Held, CoreOnce

\* Every step keeps it.
LEMMA NextHeld == HInv /\ [Next]_vars => HInv'
<1>. SUFFICES ASSUME HInv, [Next]_vars PROVE Held'
  BY NextLots DEF HInv
<1>1. ASSUME NEW l \in Lots, LotStep(l) PROVE Held'
  <2>1. CASE \E m \in Mints, mode \in ExitModes : Enter(l, m, mode)
    BY <2>1, EnterHeld
  <2>2. CASE EntryStep(l)
    BY <2>2, StillHeld, EntryFailuresHeld, BuyReceivedHeld, EntryUnknownHeld DEF EntryStep
  <2>3. CASE RecoveryStep(l)
    BY <2>3, RecoveryConfirmsHeld, RecoveryFailsHeld, RecoveryGoesHeld DEF RecoveryStep
  <2>4. CASE TimerStep(l) \/ \E reason \in {"NORMAL", "TAKE_PROFIT"} : PriceExit(l, reason)
    BY <2>4, AskingHeld, StillHeld DEF TimerStep
  <2>5. CASE RequestCoreExit(l) \/ FlyingBuyEnds(l) \/ FlyingSaleEnds(l) \/ Age(l)
    BY <2>5, RequestCoreExitHeld, StillHeld, AgeHeld
  <2>. QED BY <1>1, <2>1, <2>2, <2>3, <2>4, <2>5 DEF LotStep
<1>2. ASSUME NEW m \in Mints, MintStep(m) PROVE Held'
  <2>1. CASE ExitStep(m)
    BY <2>1, StillHeld, SaleHeld, TakeProfitRejectedHeld, ExitAbandonedHeld, CoreHeld DEF ExitStep
  <2>2. CASE Graduate(m) \/ RecheckLock(m) \/ SoldByHand(m)
    BY <2>2, StillHeld
  <2>. QED BY <1>2, <2>1, <2>2 DEF MintStep
<1>3. CASE Stop \/ StopDone \/ Crash \/ Start
  BY <1>3, StillHeld, MemoryLostHeld, StartHeld DEF StopDone, Crash
<1>4. CASE UNCHANGED vars
  BY <1>4, StillHeld
<1>. QED BY <1>1, <1>2, <1>3, <1>4 DEF Next

\* With GRAD lots too: no ended lot is in the positions Map, no lot waits for an
\* exit that nobody was asked for, and coreExitPending holds exactly the lots with
\* a core task, each once (_requestExit, _requestCoreExit, _exit, start).
THEOREM HeldInvariant == Spec => []HInv
<1>1. Init => HInv
  BY InitLots, InitHeld DEF HInv
<1>2. HInv /\ [Next]_vars => HInv'
  BY NextHeld
<1>. QED BY <1>1, <1>2, PTL DEF Spec

-----------------------------------------------------------------------------
(* What follows for each lot *)

\* The inductive invariant of the lots, for all exit modes and any number of
\* mints, lots, retries and restarts: what the row of a lot, the positions Map,
\* the timers, the running recoveries and the exit queues say of it agree
\* (LiveTradingManager._enter, _recoverUnknownEntry, _requestExit, _exit, start,
\* stop).
THEOREM LotsInvariant == Spec => []LInv
<1>1. Init => LInv
  BY InitLots
<1>2. LInv /\ [Next]_vars => LInv'
  BY NextLots
<1>. QED BY <1>1, <1>2, PTL DEF Spec

\* Whatever deferrals, stray timers, recoveries and restarts happened, an open
\* lot has a timer that will ask for its exit (_scheduleMaxHold, _requestExit,
\* start).
THEOREM OpenLotsAreArmed == Spec => []OpenIsArmed
<1>1. LInv => OpenIsArmed
  BY DEF LInv, IInv, MemOK, LotInv, Watched, OpenIsArmed
<1>. QED BY <1>1, LotsInvariant, PTL

\* An entry that was given up although its signature is known did not buy and
\* never will: the release after expiredEntryReleaseMs never drops a purchase
\* (_recoverUnknownEntry, _recoverOpeningPosition).
THEOREM ReleasedEntriesBoughtNothing == Spec => []ReleasedNeverBought
<1>1. LInv => ReleasedNeverBought
  BY DEF LInv, LotInv, Fated, ReleasedNeverBought
<1>. QED BY <1>1, LotsInvariant, PTL

LEMMA NotGrad ==
    ASSUME LInv, "GRAD" \notin ExitModes, NEW l \in Lots
    PROVE  ~Grad(l) /\ LotInv(l) /\ RowInv(l) /\ MemInv(l) /\ HasTask(l)
<1>1. LotInv(l) /\ Queues
  BY DEF LInv
<1>2. ~Grad(l)
  BY <1>1 DEF LotInv, Grad
<1>. QED BY <1>1, <1>2 DEF LotInv, Queues

LEMMA OtherLot ==
    ASSUME LInv, NEW l \in Lots, ~Grad(l)
    PROVE  MemInv(l) /\ HasTask(l)
BY DEF LInv, LotInv, Queues

\* While the manager runs it keeps no lot that ended, and it keeps every active
\* row unless that is of a GRAD lot (_enter, _recoverUnknownEntry, _exit, start).
THEOREM PositionsMirrorTheStore == Spec => []MirrorsStore
<1>1. HInv => MirrorsStore
  <2>. SUFFICES ASSUME HInv, run = "UP" PROVE MirrorsStore
    BY DEF MirrorsStore
  <2>1. LInv /\ Held /\ Alive /\ positions \subseteq Lots
    BY DEF HInv, Alive, LInv, IInv, MemOK
  <2>2. ASSUME NEW l \in positions PROVE l \in ActiveRows
    BY <2>1 DEF Held, HeldRow, ActiveRows
  <2>3. ASSUME NEW l \in ActiveRows, lot[l].mode # "GRAD" PROVE l \in positions
    BY <2>1, <2>3, OtherLot DEF MemInv, Grad, ActiveRows
  <2>. QED BY <2>2, <2>3 DEF MirrorsStore
<1>. QED BY <1>1, HeldInvariant, PTL

\* Without GRAD strategies positions and active rows are the same.
THEOREM PositionsAreTheStore ==
    ASSUME "GRAD" \notin ExitModes
    PROVE  Spec => [](run = "UP" => positions = ActiveRows)
<1>1. LInv => (run = "UP" => positions = ActiveRows)
  <2>. SUFFICES ASSUME LInv, run = "UP" PROVE positions = ActiveRows
    OBVIOUS
  <2>1. \A l \in Lots : l \in positions <=> lot[l].status \in Active
    BY NotGrad DEF MemInv, Alive
  <2>2. positions \subseteq Lots
    BY DEF LInv, IInv, MemOK
  <2>. QED BY <2>1, <2>2 DEF ActiveRows
<1>. QED BY <1>1, LotsInvariant, PTL

LEMMA AtMostOne ==
    ASSUME NEW S, \A x, y \in S : x = y
    PROVE  Cardinality(S) <= 1
<1>1. CASE S = {}
  BY <1>1, FS_EmptySet
<1>2. CASE S # {}
  <2>1. PICK x : S = {x}
    BY <1>2
  <2>. QED BY <2>1, FS_Singleton
<1>. QED BY <1>1, <1>2

\* The tasks of a lot are those of the queue of its mint.
LEMMA TasksAre ==
    ASSUME IInv, NEW l \in Lots, NEW kinds
    PROVE  /\ lot[l].mint \in Mints
           /\ \A i : i \in TasksOf(l, kinds) <=> /\ i \in DOMAIN exitQ[lot[l].mint]
                                                 /\ exitQ[lot[l].mint][i].lot = l
                                                 /\ exitQ[lot[l].mint][i].kind \in kinds
           /\ \A i \in DOMAIN exitQ[lot[l].mint] : exitQ[lot[l].mint][i].kind \in TaskKinds
<1>1. lot[l].mint \in Mints
  BY MintType
<1>2. /\ DOMAIN exitQ[lot[l].mint] = 1..Len(exitQ[lot[l].mint])
      /\ \A i \in DOMAIN exitQ[lot[l].mint] : exitQ[lot[l].mint][i] \in Task
  BY <1>1, QueueTyped
<1>. QED BY <1>1, <1>2 DEF TasksOf, Task

\* What the queue says of any lot.
LEMMA LotTasks ==
    ASSUME HInv, NEW l \in Lots
    PROVE  /\ Alive /\ lot[l].status = "EXITING" => TasksOf(l, ExitReasons) # {}
           /\ l \in corePending <=> TasksOf(l, {"CORE"}) # {}
           /\ Cardinality(TasksOf(l, {"CORE"})) <= 1
<1>1. IInv /\ HasTask(l) /\ \A m \in Mints : CoreOnce(m)
  BY DEF HInv, LInv, Held
<1>2. PICK n \in Mints : n = lot[l].mint
  BY <1>1, MintType
<1>3. CoreOnce(n)
  BY <1>1
<1>4. ASSUME Alive, lot[l].status = "EXITING" PROVE TasksOf(l, ExitReasons) # {}
  <2>1. PICK i \in DOMAIN exitQ[n] : exitQ[n][i].lot = l /\ exitQ[n][i].kind # "CORE"
    BY <1>1, <1>2, <1>4 DEF HasTask, ExitTask
  <2>2. exitQ[n][i].kind \in ExitReasons
    BY <1>1, <1>2, <2>1, TasksAre DEF TaskKinds
  <2>. QED BY <1>1, <1>2, <2>1, <2>2, TasksAre
<1>5. ASSUME l \in corePending PROVE TasksOf(l, {"CORE"}) # {}
  <2>1. PICK i \in DOMAIN exitQ[n] : exitQ[n][i].lot = l /\ exitQ[n][i].kind = "CORE"
    BY <1>1, <1>2, <1>5 DEF HasTask, CoreTask
  <2>. QED BY <1>1, <1>2, <2>1, TasksAre
<1>6. ASSUME NEW i \in TasksOf(l, {"CORE"}), NEW j \in TasksOf(l, {"CORE"})
      PROVE  l \in corePending /\ i = j
  <2>1. /\ i \in DOMAIN exitQ[n] /\ exitQ[n][i].lot = l /\ exitQ[n][i].kind = "CORE"
        /\ j \in DOMAIN exitQ[n] /\ exitQ[n][j].lot = l /\ exitQ[n][j].kind = "CORE"
    BY <1>1, <1>2, TasksAre
  <2>. QED BY <1>3, <2>1 DEF CoreOnce
<1>7. Cardinality(TasksOf(l, {"CORE"})) <= 1
  BY <1>6, AtMostOne
<1>. QED BY <1>4, <1>5, <1>6, <1>7

\* And what it says of a lot that is no GRAD lot.
LEMMA OtherTasks ==
    ASSUME LInv, NEW l \in Lots, ~Grad(l)
    PROVE  /\ Cardinality(TasksOf(l, TaskKinds)) <= 1
           /\ TasksOf(l, ExitReasons) # {} => lot[l].status = "EXITING"
<1>1. IInv /\ Queues
  BY DEF LInv
<1>2. PICK n \in Mints : n = lot[l].mint
  BY <1>1, MintType
<1>3. \A i \in DOMAIN exitQ[n] : TaskInv(n, i)
  BY <1>1 DEF Queues
<1>4. ASSUME NEW i \in TasksOf(l, TaskKinds), NEW j \in TasksOf(l, TaskKinds) PROVE i = j
  <2>1. i \in DOMAIN exitQ[n] /\ exitQ[n][i].lot = l /\ j \in DOMAIN exitQ[n] /\ exitQ[n][j].lot = l
    BY <1>1, <1>2, TasksAre
  <2>2. TaskInv(n, i)
    BY <1>3, <2>1
  <2>. QED BY <2>1, <2>2 DEF TaskInv
<1>5. ASSUME NEW i \in TasksOf(l, ExitReasons) PROVE lot[l].status = "EXITING"
  <2>1. i \in DOMAIN exitQ[n] /\ exitQ[n][i].lot = l /\ exitQ[n][i].kind # "CORE"
    BY <1>1, <1>2, TasksAre DEF ExitReasons
  <2>2. TaskInv(n, i)
    BY <1>3, <2>1
  <2>. QED BY <2>1, <2>2 DEF TaskInv
<1>. QED BY <1>4, <1>5, AtMostOne

\* An exiting lot has a task in its queue, and coreExitPending is exactly what
\* the core tasks say, in every mode; of a lot that is no GRAD lot there is never
\* more than one task, and an exit task only while it exits (_requestExit,
\* _requestCoreExit, _enqueueExit, start).
THEOREM OneSaleOfALot == Spec => []OneSalePerLot
<1>1. HInv => OneSalePerLot
  <2>. SUFFICES ASSUME HInv, Alive, NEW l \in positions
                PROVE  /\ lot[l].status = "EXITING" => TasksOf(l, ExitReasons) # {}
                       /\ l \in corePending <=> TasksOf(l, {"CORE"}) # {}
                       /\ Cardinality(TasksOf(l, {"CORE"})) <= 1
                       /\ lot[l].mode # "GRAD" =>
                            /\ Cardinality(TasksOf(l, TaskKinds)) <= 1
                            /\ TasksOf(l, ExitReasons) # {} => lot[l].status = "EXITING"
    BY DEF OneSalePerLot
  <2>1. l \in Lots /\ LInv
    BY DEF HInv, LInv, IInv, MemOK
  <2>. QED BY <2>1, LotTasks, OtherTasks DEF Grad
<1>. QED BY <1>1, HeldInvariant, PTL

\* In every configuration and every mode: an open lot of a running manager is
\* armed, an exiting one is queued, and the manager keeps no lot that ended
\* (_scheduleMaxHold, _requestExit, _exit, start).
THEOREM EveryLotIsServed == Spec => []LotsAreServed
<1>1. OpenIsArmed /\ OneSalePerLot /\ MirrorsStore => LotsAreServed
  BY DEF LotsAreServed
<1>. QED BY <1>1, OpenLotsAreArmed, OneSaleOfALot, PositionsMirrorTheStore, PTL

SoldUnknown(l) == lot[l].unknown /\ lot'[l].status = "EXITING" /\ lot'[l].amt = 0

\* An entry of unknown outcome is not handed to the exit queue before an amount
\* was established for it, unless its lot is a GRAD lot: whatever else is
\* configured, graduation is the only way round it (_recoverOpeningPosition,
\* _requestExit, onGraduated).
THEOREM OtherEntriesAreNotSold == Spec => [][\A l \in Lots : SoldUnknown(l) => lot'[l].mode = "GRAD"]_vars
<1>1. LInv' => [\A l \in Lots : SoldUnknown(l) => lot'[l].mode = "GRAD"]_vars
  <2>. SUFFICES ASSUME LInv', NEW l \in Lots, lot'[l].status = "EXITING", lot'[l].amt = 0
                PROVE  lot'[l].mode = "GRAD"
    BY DEF SoldUnknown
  <2>1. LotInv(l)'
    BY DEF LInv
  <2>. QED BY <2>1 DEF LotInv, Grad, RowInv
<1>. QED BY <1>1, LotsInvariant, PTL

\* In every configuration without GRAD strategies an entry of unknown outcome
\* is not handed to the exit queue before an amount was established for it
\* (_recoverOpeningPosition, _requestExit).  The run unknown_sold shows the one
\* way round it.
THEOREM UnknownEntriesAreNotSold ==
    ASSUME "GRAD" \notin ExitModes
    PROVE  Spec => UnknownNotSold
<1>1. LInv /\ LInv' => [\A l \in Lots : lot[l].unknown /\ lot'[l].status = "EXITING" => lot'[l].amt > 0]_vars
  <2>. SUFFICES ASSUME LInv, LInv', NEW l \in Lots, lot'[l].status = "EXITING"
                PROVE  lot'[l].amt > 0
    OBVIOUS
  <2>1. LotInv(l)'
    BY DEF LInv
  <2>2. RowInv(l)'
    BY <2>1 DEF LotInv, Grad
  <2>. QED BY <2>2 DEF RowInv
<1>. QED BY <1>1, LotsInvariant, PTL DEF UnknownNotSold
-----------------------------------------------------------------------------
(* What a step does to the rows                                             *)

Alike(k) == lot'[k].mint = lot[k].mint /\ lot'[k].mode = lot[k].mode

Entering(l) == \E m \in Mints, mode \in ExitModes : Enter(l, m, mode)

\* A step of one lot: the buys of the others and the wallets of other mints stay.
LEMMA OneFate ==
    ASSUME IInv, NEW l \in Lots, LotStep(l)
    PROVE  /\ \A k \in Lots : k # l => buyTx'[k] = buyTx[k]
           /\ \A m \in Mints : m # lot[l].mint => wallet'[m] = wallet[m]
<1>1. CASE buyTx' = buyTx /\ wallet' = wallet
  BY <1>1
<1>2. ASSUME NEW fate, Fate(l, fate)
      PROVE  /\ \A k \in Lots : k # l => buyTx'[k] = buyTx[k]
             /\ \A m \in Mints : m # lot[l].mint => wallet'[m] = wallet[m]
  BY <1>2 DEF Fate, Landed, IInv, ChainOK
<1>3. CASE Entering(l) \/ RecoveryStep(l) \/ TimerStep(l) \/ RequestCoreExit(l) \/ Age(l)
  BY <1>1, <1>3 DEF Entering, Enter, RecoveryStep, RecoveryConfirms, RecoveryFails, RecoveryUnsure, RecoveryRetries,
                    TimerStep, HoldFires, DeferFires, RecoverFires, RequestCoreExit, Age, chainVars
<1>4. CASE \E reason \in {"NORMAL", "TAKE_PROFIT"} : PriceExit(l, reason)
  BY <1>1, <1>4 DEF PriceExit, chainVars
<1>5. CASE EntryStep(l)
  <2>1. \/ UNCHANGED chainVars
        \/ Landed(l) \/ \E fate : Fate(l, fate)
    BY <1>5 DEF EntryStep, WalletHolds, EntryRejected, SendBuy, BuyConfirmed, BuyErred, RefreshQuote, SendThrows,
                BuyTimesOut, BuyReceived, BuyUnseen, ReadThrows
  <2>2. Landed(l) => Fate(l, "LANDED")
    BY DEF Fate
  <2>. QED BY <1>1, <1>2, <2>1, <2>2 DEF chainVars
<1>6. CASE FlyingBuyEnds(l)
  BY <1>2, <1>6 DEF FlyingBuyEnds
<1>7. CASE FlyingSaleEnds(l)
  BY <1>1, <1>7 DEF FlyingSaleEnds, Sold, IInv, ChainOK
<1>. QED BY <1>3, <1>4, <1>5, <1>6, <1>7 DEF LotStep, Entering

\* An exit is asked for: of the lots the step was given, at most this one is moved.
LEMMA RequestRow ==
    ASSUME NEW l \in Lots, NEW reason, NEW L \in [Lots -> LotRecord], NEW T, RequestExit(l, reason, L, T)
    PROVE  /\ \A k \in Lots : k # l => lot'[k] = L[k]
           /\ lot'[l].mint = L[l].mint /\ lot'[l].mode = L[l].mode
           /\ L[l].status \notin Active => lot'[l] = L[l]
<1>1. lot' = L \/ (L[l].status \in {"OPEN", "EXIT_FAILED"} /\ lot' = [L EXCEPT ![l] = Exiting(@)])
  BY DEF RequestExit
<1>2. Exiting(L[l]).mint = L[l].mint /\ Exiting(L[l]).mode = L[l].mode
  BY DEF Exiting, LotRecord
<1>. QED BY <1>1, <1>2 DEF Active

\* No other row is touched, and the lot keeps its mint and its strategy.
LEMMA OneRow ==
    ASSUME LInv, NEW l \in Lots, LotStep(l), ~Entering(l)
    PROVE  Alike(l) /\ \A k \in Lots : k # l => lot'[k] = lot[k]
<1>1. lot \in [Lots -> LotRecord] /\ lot[l] \in LotRecord
  BY DEF LInv, IInv, StoreOK
<1>2. PICK L \in [Lots -> LotRecord] : L = lot
  BY <1>1
<1>3. CASE lot' = lot
  BY <1>3 DEF Alike
<1>4. ASSUME NEW p, lot' = [lot EXCEPT ![l] = p], p.mint = lot[l].mint, p.mode = lot[l].mode
      PROVE  Alike(l) /\ \A k \in Lots : k # l => lot'[k] = lot[k]
  BY <1>1, <1>4 DEF Alike
<1>5. ASSUME NEW reason, NEW T, RequestExit(l, reason, lot, T)
      PROVE  Alike(l) /\ \A k \in Lots : k # l => lot'[k] = lot[k]
  <2>1. RequestExit(l, reason, L, T)
    BY <1>2, <1>5
  <2>. QED BY <1>2, <2>1, RequestRow DEF Alike
<1>6. ASSUME NEW r, NEW M \in [Lots -> LotRecord], RecoveryEnds(l, M, r),
             \A k \in Lots : k # l => M[k] = lot[k],
             M[l].mint = lot[l].mint, M[l].mode = lot[l].mode
      PROVE  Alike(l) /\ \A k \in Lots : k # l => lot'[k] = lot[k]
  <2>1. \/ lot' = [M EXCEPT ![l] = Failed(@, TRUE)]
        \/ lot' = [M EXCEPT ![l] = Unsettled(@, @.sig, r.expired)]
    BY <1>6 DEF RecoveryEnds
  <2>2. /\ Failed(M[l], TRUE).mint = lot[l].mint /\ Failed(M[l], TRUE).mode = lot[l].mode
        /\ Unsettled(M[l], M[l].sig, r.expired).mint = lot[l].mint
        /\ Unsettled(M[l], M[l].sig, r.expired).mode = lot[l].mode
    BY <1>6 DEF Failed, Unsettled, LotRecord
  <2>3. \A k \in Lots : k # l => lot'[k] = lot[k]
    BY <1>6, <2>1
  <2>4. lot'[l] = Failed(M[l], TRUE) \/ lot'[l] = Unsettled(M[l], M[l].sig, r.expired)
    BY <2>1
  <2>. QED BY <2>2, <2>3, <2>4 DEF Alike
<1>7. CASE EntryStep(l)
  <2>1. ASSUME NEW sig, EntryFails(l, sig) PROVE Alike(l) /\ \A k \in Lots : k # l => lot'[k] = lot[k]
    <3>1. Failed(lot[l], sig).mint = lot[l].mint /\ Failed(lot[l], sig).mode = lot[l].mode
      BY <1>1 DEF Failed, LotRecord
    <3>2. lot' = [lot EXCEPT ![l] = Failed(lot[l], sig)]
      BY <1>1, <2>1 DEF EntryFails
    <3>. QED BY <1>4, <3>1, <3>2
  <2>2. CASE BuyReceived(l)
    <3>1. PICK amount : lot' = [lot EXCEPT ![l] = Opened(lot[l], TRUE, amount)]
      BY <1>1, <2>2 DEF BuyReceived
    <3>2. Opened(lot[l], TRUE, amount).mint = lot[l].mint /\ Opened(lot[l], TRUE, amount).mode = lot[l].mode
      BY <1>1 DEF Opened, LotRecord
    <3>. QED BY <1>4, <3>1, <3>2
  <2>3. ASSUME NEW expired \in BOOLEAN, EntryUnknown(l, expired)
        PROVE  Alike(l) /\ \A k \in Lots : k # l => lot'[k] = lot[k]
    <3>1. PICK p \in LotRecord : p = Unsettled(lot[l], TRUE, expired)
      BY <1>1, UnsettledType
    <3>2. p.mint = lot[l].mint /\ p.mode = lot[l].mode
      BY <1>1, <3>1 DEF Unsettled, LotRecord
    <3>3. PICK M \in [Lots -> LotRecord] : M = [lot EXCEPT ![l] = p]
      BY <1>1
    <3>4. M = [lot EXCEPT ![l] = Unsettled(@, TRUE, expired)]
      BY <1>1, <3>1, <3>3
    <3>5. lot' = M \/ RecoveryEnds(l, M, Unasked(expired))
      BY <2>3, <3>4 DEF EntryUnknown
    <3>6. M[l] = p /\ \A k \in Lots : k # l => M[k] = lot[k]
      BY <1>1, <3>3
    <3>. QED BY <1>4, <1>6, <3>2, <3>3, <3>5, <3>6
  <2>. QED BY <1>3, <1>7, <2>1, <2>2, <2>3
         DEF EntryStep, WalletHolds, EntryRejected, SendBuy, BuyConfirmed, BuyErred, RefreshQuote, SendThrows,
             BuyTimesOut, BuyUnseen, ReadThrows, storeVars
<1>8. CASE RecoveryStep(l)
  <2>1. CASE RecoveryConfirms(l)
    <3>1. PICK amount \in {LotAmount, wallet[lot[l].mint]} :
             LET M == [lot EXCEPT ![l] = Opened(@, @.sig, amount)]
             IN  RequestExit(l, "NORMAL", M, timers) \/ lot' = M
      BY <2>1 DEF RecoveryConfirms
    <3>2. PICK p \in LotRecord : p = Opened(lot[l], lot[l].sig, amount)
      <4>1. amount \in Nat /\ lot[l].sig \in BOOLEAN
        BY <1>1, LiveAssumption DEF LInv, IInv, ChainOK, LotRecord
      <4>. QED BY <1>1, <4>1, OpenedType
    <3>3. p.mint = lot[l].mint /\ p.mode = lot[l].mode
      BY <1>1, <3>2 DEF Opened, LotRecord
    <3>4. PICK M \in [Lots -> LotRecord] : M = [lot EXCEPT ![l] = p]
      BY <1>1
    <3>5. M = [lot EXCEPT ![l] = Opened(@, @.sig, amount)]
      BY <1>1, <3>2, <3>4
    <3>6. RequestExit(l, "NORMAL", M, timers) \/ lot' = M
      BY <3>1, <3>5
    <3>7. M[l] = p /\ \A k \in Lots : k # l => M[k] = lot[k]
      BY <1>1, <3>4
    <3>8. ASSUME RequestExit(l, "NORMAL", M, timers)
          PROVE  Alike(l) /\ \A k \in Lots : k # l => lot'[k] = lot[k]
      BY <3>3, <3>7, <3>8, RequestRow DEF Alike
    <3>. QED BY <1>4, <3>3, <3>4, <3>6, <3>8
  <2>2. CASE RecoveryFails(l)
    <3>1. lot' = [lot EXCEPT ![l] = Failed(lot[l], TRUE)]
      BY <1>1, <2>2 DEF RecoveryFails
    <3>2. Failed(lot[l], TRUE).mint = lot[l].mint /\ Failed(lot[l], TRUE).mode = lot[l].mode
      BY <1>1 DEF Failed, LotRecord
    <3>. QED BY <1>4, <3>1, <3>2
  <2>3. CASE RecoveryUnsure(l) \/ RecoveryRetries(l)
    <3>1. lot' = lot \/ \E r : RecoveryEnds(l, lot, r)
      BY <2>3 DEF RecoveryUnsure, RecoveryRetries
    <3>2. lot' = lot \/ \E r : RecoveryEnds(l, L, r)
      BY <1>2, <3>1
    <3>. QED BY <1>2, <1>3, <1>6, <3>2
  <2>. QED BY <1>8, <2>1, <2>2, <2>3 DEF RecoveryStep
<1>9. CASE TimerStep(l) \/ \E reason \in {"NORMAL", "TAKE_PROFIT"} : PriceExit(l, reason)
  BY <1>3, <1>5, <1>9 DEF TimerStep, HoldFires, DeferFires, RecoverFires, PriceExit, storeVars
<1>10. CASE RequestCoreExit(l) \/ Age(l)
  <2>1. \/ lot' = [lot EXCEPT ![l] = [lot[l] EXCEPT !.coreTried = TRUE]]
        \/ lot' = [lot EXCEPT ![l] = [lot[l] EXCEPT !.aged = TRUE]]
    BY <1>1, <1>10 DEF RequestCoreExit, Age
  <2>2. /\ [lot[l] EXCEPT !.coreTried = TRUE].mint = lot[l].mint /\ [lot[l] EXCEPT !.coreTried = TRUE].mode = lot[l].mode
        /\ [lot[l] EXCEPT !.aged = TRUE].mint = lot[l].mint /\ [lot[l] EXCEPT !.aged = TRUE].mode = lot[l].mode
    BY <1>1 DEF LotRecord
  <2>. QED BY <1>4, <2>1, <2>2
<1>11. CASE FlyingBuyEnds(l) \/ FlyingSaleEnds(l)
  BY <1>3, <1>11 DEF FlyingBuyEnds, FlyingSaleEnds, storeVars
<1>. QED BY <1>7, <1>8, <1>9, <1>10, <1>11 DEF LotStep, Entering

LEMMA SameTokens ==
    ASSUME IInv, wallet' = wallet
    PROVE  \A m \in Mints : wallet'[m] <= wallet[m]
<1>1. \A m \in Mints : wallet[m] \in Nat
  BY DEF IInv, ChainOK
<1>. QED BY <1>1

\* A sale takes tokens from the mint of its lot.
LEMMA SoldWallet ==
    ASSUME IInv, NEW l \in Lots, NEW q \in Nat, Sold(l, q), NEW n \in Mints, n = lot[l].mint
    PROVE  /\ q <= wallet[n] /\ wallet'[n] = wallet[n] - q
           /\ \A m \in Mints : m # n => wallet'[m] = wallet[m]
           /\ \A m \in Mints : wallet'[m] <= wallet[m]
<1>1. wallet \in [Mints -> Nat]
  BY DEF IInv, ChainOK
<1>2. q <= wallet[n] /\ wallet'[n] = wallet[n] - q /\ \A m \in Mints : m # n => wallet'[m] = wallet[m]
  BY <1>1 DEF Sold
<1>3. ASSUME NEW m \in Mints PROVE wallet'[m] <= wallet[m]
  BY <1>1, <1>2
<1>. QED BY <1>2, <1>3

LEMMA SaleFateWallet ==
    ASSUME IInv, NEW l \in Lots, NEW q \in Nat, SaleFate(l, q)
    PROVE  buyTx' = buyTx /\ \A m \in Mints : wallet'[m] <= wallet[m]
<1>1. CASE Sold(l, q) /\ buyTx' = buyTx
  BY <1>1, SoldWallet, Amounts
<1>2. CASE wallet' = wallet /\ buyTx' = buyTx
  BY <1>2, SameTokens
<1>. QED BY <1>1, <1>2 DEF SaleFate, chainVars

\* A step of a mint moves at most the row of the lot at the head of its queue.
LEMMA HeadRow ==
    ASSUME LInv, NEW m \in Mints, MintStep(m)
    PROVE  /\ buyTx' = buyTx /\ \A n \in Mints : wallet'[n] <= wallet[n]
           /\ \/ lot' = lot
              \/ \E h \in Lots :
                    /\ h = Head1(m).lot /\ exitQ[m] # <<>> /\ Alive /\ lot[h].mint = m /\ Alike(h)
                    /\ \A k \in Lots : k # h => lot'[k] = lot[k]
<1>1. IInv /\ lot \in [Lots -> LotRecord] /\ wallet \in [Mints -> Nat]
  BY DEF LInv, IInv, StoreOK, ChainOK
<1>2. CASE Graduate(m) \/ RecheckLock(m) \/ SoldByHand(m) \/ Sell(m)
  <2>1. lot' = lot /\ buyTx' = buyTx /\ (wallet' = wallet \/ wallet' = [wallet EXCEPT ![m] = 0])
    BY <1>2 DEF Graduate, RecheckLock, SoldByHand, Sell, storeVars, chainVars
  <2>. QED BY <1>1, <2>1
<1>3. CASE ExitStep(m) /\ ~Sell(m)
  <2>1. exitQ[m] # <<>> /\ Alive
    BY <1>3 DEF ExitStep, AlreadyEmpty, SaleConfirmed, SaleUnverified, SaleUnanswered, SellThrows,
                TakeProfitRejected, ExitAbandoned, CoreConfirmed, CoreFails, Running
  <2>2. PICK h \in Lots : h = Head1(m).lot /\ lot[h].mint = m /\ lot[h] \in LotRecord
    BY <2>1, HeadLot
  <2>3. PICK q \in Nat : q = seller[m].want
    BY <1>1, <2>1, RunningType
  <2>4. buyTx' = buyTx /\ \A n \in Mints : wallet'[n] <= wallet[n]
    <3>1. CASE UNCHANGED chainVars
      BY <1>1, <3>1, SameTokens DEF chainVars
    <3>2. CASE Sold(h, q) /\ buyTx' = buyTx
      BY <1>1, <2>2, <3>2, SoldWallet
    <3>3. CASE SaleFate(h, q)
      BY <1>1, <3>3, SaleFateWallet
    <3>. QED BY <1>3, <2>2, <2>3, <3>1, <3>2, <3>3
           DEF ExitStep, AlreadyEmpty, SaleConfirmed, SaleUnverified, SaleUnanswered, SellThrows,
               TakeProfitRejected, ExitAbandoned, CoreConfirmed, CoreFails
  <2>5. \/ lot' = lot
        \/ \E kinds, status : \/ lot' = [lot EXCEPT ![h] = Ended(lot[h], kinds, status)]
                              \/ lot' = [lot EXCEPT ![h] = Ordered(lot[h], kinds)]
        \/ lot' = [lot EXCEPT ![h] = CoreSold(lot[h], q)]
    <3>1. ASSUME NEW kinds, ExitAttemptOver(m, kinds)
          PROVE  \E status : \/ lot' = [lot EXCEPT ![h] = Ended(lot[h], kinds, status)]
                             \/ lot' = [lot EXCEPT ![h] = Ordered(lot[h], kinds)]
      BY <1>1, <2>2, <3>1 DEF ExitAttemptOver
    <3>2. CloseLot(m, h) => lot' = [lot EXCEPT ![h] = Ended(lot[h], {"SELL"}, "CLOSED")]
      BY <1>1 DEF CloseLot
    <3>3. CASE AlreadyEmpty(m) \/ SaleConfirmed(m) \/ SaleUnverified(m) \/ SaleUnanswered(m) \/ SellThrows(m)
      <4>1. CloseLot(m, h) \/ \E kinds : ExitAttemptOver(m, kinds)
        BY <2>2, <3>3 DEF AlreadyEmpty, SaleConfirmed, SaleUnverified, SaleUnanswered, SellThrows
      <4>. QED BY <3>1, <3>2, <4>1
    <3>4. CASE TakeProfitRejected(m) \/ ExitAbandoned(m)
      BY <1>1, <2>2, <3>4 DEF TakeProfitRejected, ExitAbandoned
    <3>5. CASE CoreConfirmed(m) \/ CoreFails(m)
      BY <1>1, <2>2, <2>3, <3>5 DEF CoreConfirmed, CoreFails
    <3>. QED BY <1>3, <3>3, <3>4, <3>5 DEF ExitStep
  <2>6. ASSUME NEW p, lot' = [lot EXCEPT ![h] = p], p.mint = lot[h].mint, p.mode = lot[h].mode
        PROVE  Alike(h) /\ \A k \in Lots : k # h => lot'[k] = lot[k]
    BY <1>1, <2>6 DEF Alike
  <2>7. \A kinds, status : /\ Ended(lot[h], kinds, status).mint = lot[h].mint
                           /\ Ended(lot[h], kinds, status).mode = lot[h].mode
                           /\ Ordered(lot[h], kinds).mint = lot[h].mint /\ Ordered(lot[h], kinds).mode = lot[h].mode
    BY <2>2 DEF Ended, Ordered, LotRecord
  <2>8. CoreSold(lot[h], q).mint = lot[h].mint /\ CoreSold(lot[h], q).mode = lot[h].mode
    BY <2>2 DEF CoreSold, LotRecord
  <2>9. lot' = lot \/ (Alike(h) /\ \A k \in Lots : k # h => lot'[k] = lot[k])
    BY <2>5, <2>6, <2>7, <2>8
  <2>. QED BY <2>1, <2>2, <2>4, <2>9
<1>. QED BY <1>2, <1>3 DEF MintStep

\* What start and the end of the process do to a row.
LEMMA ProcessRow ==
    ASSUME LInv, NEW k \in Lots, Stop \/ StopDone \/ Crash \/ Start
    PROVE  /\ Alike(k) /\ lot'[k].amt = lot[k].amt /\ lot'[k].sig = lot[k].sig
           /\ lot[k].status \notin Active => lot'[k].status = lot[k].status
           /\ lot[k].status \in Active => lot'[k].status \in Active
<1>1. IInv /\ lot[k] \in LotRecord
  BY Amounts DEF LInv
<1>2. CASE Stop
  BY <1>2 DEF Stop, storeVars, Alike
<1>3. CASE MemoryLost
  <2>1. lot'[k] = [lot[k] EXCEPT !.coreDone = FALSE, !.coreTried = FALSE]
    BY <1>3 DEF MemoryLost
  <2>. QED BY <1>1, <2>1 DEF Alike, LotRecord
<1>4. CASE Start
  <2>1. lot'[k] = IF k \in ActiveRows THEN Restored(k) ELSE lot[k]
    BY <1>4 DEF Start
  <2>2. /\ Restored(k).mint = lot[k].mint /\ Restored(k).mode = lot[k].mode /\ Restored(k).amt = lot[k].amt
        /\ Restored(k).sig = lot[k].sig /\ Restored(k).status \in {lot[k].status, "EXITING"}
    BY <1>1 DEF Restored, LotRecord
  <2>3. k \in ActiveRows <=> lot[k].status \in Active
    BY DEF ActiveRows
  <2>. QED BY <2>1, <2>2, <2>3 DEF Alike, Active
<1>. QED BY <1>2, <1>3, <1>4 DEF StopDone, Crash

\* A lot keeps its mint and its strategy once it was entered.
LEMMA RowsAlike ==
    ASSUME LInv, [Next]_vars, NEW k \in Lots
    PROVE  Alike(k) \/ Entering(k)
<1>1. ASSUME NEW l \in Lots, LotStep(l), ~Entering(l) PROVE Alike(k)
  BY <1>1, OneRow DEF Alike
<1>2. ASSUME NEW l \in Lots, Entering(l), k # l PROVE Alike(k)
  BY <1>2 DEF Entering, Enter, LInv, IInv, StoreOK, Alike
<1>3. ASSUME NEW m \in Mints, MintStep(m) PROVE Alike(k)
  BY <1>3, HeadRow DEF Alike
<1>4. CASE Stop \/ StopDone \/ Crash \/ Start
  BY <1>4, ProcessRow
<1>5. CASE UNCHANGED vars
  BY <1>5 DEF vars, storeVars, Alike
<1>. QED BY <1>1, <1>2, <1>3, <1>4, <1>5 DEF Next

\* What a lot that ended keeps for ever.
Stays(k) == lot'[k].status = lot[k].status /\ lot'[k].amt = lot[k].amt /\ lot'[k].sig = lot[k].sig

LEMMA EndedStay ==
    ASSUME LInv, [Next]_vars, NEW k \in Lots, ~Grad(k), lot[k].status \notin Active
    PROVE  Stays(k) \/ Entering(k)
<1>1. IInv /\ LotInv(k)
  BY DEF LInv
<1>2. CASE lot'[k] = lot[k]
  BY <1>2 DEF Stays
<1>3. ASSUME NEW l \in Lots, LotStep(l), ~Entering(l), l # k PROVE lot'[k] = lot[k]
  BY <1>3, OneRow
<1>4. ASSUME NEW l \in Lots, Entering(l), l # k PROVE lot'[k] = lot[k]
  BY <1>4 DEF Entering, Enter, LInv, IInv, StoreOK
<1>5. ASSUME LotStep(k), ~Entering(k) PROVE lot'[k] = lot[k]
  <2>1. CASE EntryStep(k)
    <3>1. entering.lot = k /\ Calling
      BY <2>1 DEF EntryStep, WalletHolds, EntryRejected, SendBuy, BuyConfirmed, BuyErred, RefreshQuote, SendThrows,
                  BuyTimesOut, BuyReceived, BuyUnseen, ReadThrows, Calling
    <3>. QED BY <3>1, Caller DEF CallInv, Active
  <2>2. CASE RecoveryStep(k)
    <3>1. recov[k].phase # "OFF"
      BY <2>2 DEF RecoveryStep, RecoveryConfirms, RecoveryFails, RecoveryUnsure, RecoveryRetries
    <3>. QED BY <3>1, Seeker DEF Seeks, Active
  <2>3. ASSUME NEW reason, NEW T, RequestExit(k, reason, lot, T) PROVE lot'[k] = lot[k]
    BY <2>3 DEF RequestExit, Active
  <2>4. CASE TimerStep(k) \/ \E reason \in {"NORMAL", "TAKE_PROFIT"} : PriceExit(k, reason)
    BY <2>3, <2>4 DEF TimerStep, HoldFires, DeferFires, RecoverFires, PriceExit, storeVars
  <2>5. CASE RequestCoreExit(k) \/ Age(k)
    BY <2>5 DEF RequestCoreExit, Age, Active
  <2>6. CASE FlyingBuyEnds(k) \/ FlyingSaleEnds(k)
    BY <2>6 DEF FlyingBuyEnds, FlyingSaleEnds, storeVars
  <2>. QED BY <1>5, <2>1, <2>2, <2>4, <2>5, <2>6 DEF LotStep, Entering
<1>6. ASSUME NEW m \in Mints, MintStep(m) PROVE lot'[k] = lot[k]
  <2>1. CASE lot' = lot
    BY <2>1
  <2>2. ASSUME NEW h \in Lots, h = Head1(m).lot, exitQ[m] # <<>>, Alive, \A j \in Lots : j # h => lot'[j] = lot[j]
        PROVE  lot'[k] = lot[k]
    <3>1. PICK g \in Lots :
             /\ g = Head1(m).lot /\ Entered(g) /\ lot[g].mint = m /\ lot[g] \in LotRecord /\ LotInv(g)
             /\ entering.lot = g => ~Calling
             /\ Head1(m).kind = "TAKE_PROFIT" => lot[g].mode = "PLAIN"
             /\ ~Grad(g) =>
                  /\ lot[g].amt > 0 /\ lot[g].unknown = FALSE /\ g \in positions /\ recov[g].phase = "OFF"
                  /\ timers[g].live["RECOVER"] = 0
                  /\ Head1(m).kind = "CORE" => lot[g].status = "OPEN"
                  /\ Head1(m).kind # "CORE" => lot[g].status = "EXITING" /\ g \notin corePending
      BY <2>2, HeadLot
    <3>2. k # h
      BY <2>2, <3>1 DEF Active
    <3>. QED BY <2>2, <3>2
  <2>. QED BY <1>6, <2>1, <2>2, HeadRow
<1>7. CASE Stop \/ StopDone \/ Crash \/ Start
  BY <1>7, ProcessRow DEF Stays
<1>8. CASE UNCHANGED vars
  BY <1>8 DEF vars, storeVars, Stays
<1>. QED BY <1>2, <1>3, <1>4, <1>5, <1>6, <1>7, <1>8 DEF Next

\* A lot that ended stays as it ended: no timer, late answer of a recovery, queued
\* exit or restart opens, sells or fails it again, unless it listens to graduation
\* (_recoverUnknownEntry, _requestExit, _exit, start).
THEOREM EndedLotsStay ==
    Spec => [][\A l \in Lots : lot[l].status \in Terminal /\ lot[l].mode # "GRAD" => Stays(l)]_vars
<1>1. LInv /\ [Next]_vars => [\A l \in Lots : lot[l].status \in Terminal /\ lot[l].mode # "GRAD" => Stays(l)]_vars
  <2>. SUFFICES ASSUME LInv, [Next]_vars, NEW l \in Lots, lot[l].status \in Terminal, lot[l].mode # "GRAD"
                PROVE  Stays(l)
    OBVIOUS
  <2>1. ~Grad(l) /\ lot[l].status \notin Active
    BY DEF Grad, Terminal, Active
  <2>2. ~Entering(l)
    BY DEF Entering, Enter, Terminal
  <2>. QED BY <2>1, <2>2, EndedStay
<1>. QED BY <1>1, LotsInvariant, PTL DEF Spec

-----------------------------------------------------------------------------
(* Who owns the tokens of a mint                                            *)
(*                                                                          *)
(* The balance of a mint can be told apart by lot only while no two active   *)
(* lots share it and none listens to graduation.  As long as that holds,     *)
(* what the wallet has of the mint is covered by the amount of its one       *)
(* active lot (or by the size of a buy while that is unknown), unless a buy  *)
(* whose signature was never learnt has landed.                             *)

Alone(z) ==
    /\ \A k, l \in ActiveRows : lot[k].mint = z /\ lot[l].mint = z => k = l
    /\ \A l \in Lots : lot[l].mint = z => ~Grad(l)

LeakedBy(l) == lot[l].status = "ENTRY_FAILED" /\ ~lot[l].sig /\ buyTx[l] = "LANDED"
Leaked(m) == \E l \in Lots : lot[l].mint = m /\ LeakedBy(l)

Cap(l) == IF lot[l].amt = 0 THEN LotAmount ELSE lot[l].amt

Covers(l, m) ==
    lot[l].mint = m /\ lot[l].status \in Active /\ buyTx[l] = "LANDED" /\ wallet[m] <= Cap(l)

Covered(m) ==
    /\ wallet[m] > 0 => \E l \in Lots : Covers(l, m)
    /\ \A l \in Lots : lot[l].mint = m /\ lot[l].amt > 0 => buyTx[l] = "LANDED"

Balanced(m) == Leaked(m) \/ Covered(m)

LEMMA LoneLot ==
    ASSUME LInv, NEW l \in Lots, Alone(lot[l].mint)
    PROVE  ~Grad(l) /\ LotInv(l) /\ RowInv(l) /\ MemInv(l) /\ HasTask(l)
BY DEF LInv, LotInv, Queues, Alone

\* What a step keeps of a lot as far as the balance is concerned.
Keeps(k) ==
    /\ lot'[k].mint = lot[k].mint /\ lot'[k].amt = lot[k].amt /\ buyTx'[k] = buyTx[k]
    /\ lot'[k].sig <=> lot[k].sig
    /\ lot'[k].status = "ENTRY_FAILED" <=> lot[k].status = "ENTRY_FAILED"
    /\ lot'[k].status \in Active <=> lot[k].status \in Active

LEMMA KeepsSame ==
    ASSUME NEW k \in Lots, lot'[k] = lot[k], buyTx'[k] = buyTx[k]
    PROVE  Keeps(k)
BY DEF Keeps

LEMMA CapType == ASSUME IInv, NEW l \in Lots, NEW m \in Mints PROVE Cap(l) \in Nat /\ Cap(l) > 0 /\ wallet[m] \in Nat
BY Amounts, LiveAssumption DEF Cap, IInv, ChainOK

LEMMA KeptCover ==
    ASSUME NEW k \in Lots, NEW m \in Mints, Keeps(k), wallet'[m] <= wallet[m], IInv, IInv'
    PROVE  /\ Covers(k, m) => Covers(k, m)'
           /\ lot[k].mint = m /\ LeakedBy(k) => LeakedBy(k)' /\ lot'[k].mint = m
<1>1. wallet[m] \in Nat /\ wallet'[m] \in Nat /\ Cap(k) \in Nat
  BY CapType DEF IInv, ChainOK
<1>2. Cap(k)' = Cap(k)
  BY DEF Cap, Keeps
<1>. QED BY <1>1, <1>2 DEF Covers, LeakedBy, Keeps

\* A step that keeps every lot of the mint and brings it no tokens.
LEMMA KeepsMint ==
    ASSUME IInv, IInv', NEW z \in Mints, Balanced(z), wallet'[z] <= wallet[z],
           \A k \in Lots : lot[k].mint = z \/ lot'[k].mint = z => Keeps(k)
    PROVE  Balanced(z)'
<1>1. CASE Leaked(z)
  BY <1>1, KeptCover DEF Leaked, Balanced
<1>2. CASE Covered(z)
  <2>1. wallet'[z] > 0 => wallet[z] > 0
    BY CapType DEF IInv, ChainOK
  <2>2. wallet'[z] > 0 => \E l \in Lots : Covers(l, z)'
    BY <1>2, <2>1, KeptCover DEF Covered, Covers
  <2>3. \A l \in Lots : lot'[l].mint = z /\ lot'[l].amt > 0 => buyTx'[l] = "LANDED"
    BY <1>2 DEF Covered, Keeps
  <2>. QED BY <2>2, <2>3 DEF Covered, Balanced
<1>. QED BY <1>1, <1>2 DEF Balanced

LEMMA KeepsAll ==
    ASSUME IInv, IInv', NEW z \in Mints, Balanced(z), \A k \in Lots : Keeps(k), \A m \in Mints : wallet'[m] <= wallet[m]
    PROVE  Balanced(z)'
BY KeepsMint

\* A lot of another mint makes a step.
LEMMA Elsewhere ==
    ASSUME LInv, IInv', NEW z \in Mints, Balanced(z), NEW l \in Lots, LotStep(l), ~Entering(l), lot[l].mint # z
    PROVE  Balanced(z)'
<1>1. /\ lot'[l].mint # z /\ \A k \in Lots : k # l => lot'[k] = lot[k] /\ buyTx'[k] = buyTx[k]
      /\ wallet'[z] = wallet[z] /\ IInv
  BY OneRow, OneFate DEF Alike, LInv
<1>2. \A k \in Lots : lot[k].mint = z \/ lot'[k].mint = z => Keeps(k)
  BY <1>1, KeepsSame
<1>3. wallet'[z] <= wallet[z]
  BY <1>1, CapType
<1>. QED BY <1>1, <1>2, <1>3, KeepsMint

\* What the balance says of the active lot of a mint.
Accounted(l) ==
    /\ wallet[lot[l].mint] > 0 => /\ lot[l].status \in Active /\ buyTx[l] = "LANDED"
                                  /\ wallet[lot[l].mint] <= Cap(l)
    /\ lot[l].amt > 0 => buyTx[l] = "LANDED"

\* A step of the active lot of a mint: what it holds stays balanced, or it leaks.
LEMMA OneKeeps ==
    ASSUME IInv, IInv', NEW z \in Mints, Alone(z), Balanced(z), NEW l \in Lots, lot[l].mint = z,
           lot[l].status \in Active, lot'[l].mint = lot[l].mint,
           \A k \in Lots : k # l => Keeps(k),
           Accounted(l) => Accounted(l)' \/ LeakedBy(l)'
    PROVE  Balanced(z)'
<1>1. CASE Leaked(z)
  <2>1. PICK k \in Lots : lot[k].mint = z /\ LeakedBy(k)
    BY <1>1 DEF Leaked
  <2>2. k # l
    BY <2>1 DEF LeakedBy, Active
  <2>3. lot'[k].mint = z /\ LeakedBy(k)'
    BY <2>1, <2>2 DEF LeakedBy, Keeps
  <2>. QED BY <2>3 DEF Leaked, Balanced
<1>2. CASE Covered(z)
  <2>1. Accounted(l)
    <3>1. ASSUME wallet[z] > 0 PROVE Covers(l, z)
      <4>1. PICK k \in Lots : Covers(k, z)
        BY <1>2, <3>1 DEF Covered
      <4>2. k \in ActiveRows /\ l \in ActiveRows /\ lot[k].mint = z
        BY <4>1 DEF Covers, ActiveRows
      <4>. QED BY <4>1, <4>2 DEF Alone
    <3>. QED BY <1>2, <3>1 DEF Covered, Covers, Accounted
  <2>2. CASE LeakedBy(l)'
    BY <2>2 DEF Leaked, Balanced
  <2>3. CASE Accounted(l)'
    <3>1. wallet'[z] > 0 => Covers(l, z)'
      BY <2>3 DEF Accounted, Covers
    <3>2. \A k \in Lots : lot'[k].mint = z /\ lot'[k].amt > 0 => buyTx'[k] = "LANDED"
      <4>1. lot'[l].amt > 0 => buyTx'[l] = "LANDED"
        BY <2>3 DEF Accounted
      <4>. QED BY <1>2, <4>1 DEF Covered, Keeps
    <3>. QED BY <3>1, <3>2 DEF Covered, Balanced
  <2>. QED BY <2>1, <2>2, <2>3
<1>. QED BY <1>1, <1>2 DEF Balanced

\* The fate of a buy, in tokens.
LEMMA FateWallet ==
    ASSUME IInv, NEW l \in Lots, NEW fate, Fate(l, fate), NEW n \in Mints, n = lot[l].mint
    PROVE  /\ \A m \in Mints : m # n => wallet'[m] = wallet[m]
           /\ fate = "LANDED" => wallet'[n] = wallet[n] + LotAmount
           /\ fate # "LANDED" => wallet'[n] = wallet[n]
BY DEF Fate, Landed, IInv, ChainOK

\* The buy of an active lot meets its fate.
LEMMA FateBalance ==
    ASSUME IInv, IInv', NEW z \in Mints, Alone(z), Balanced(z), NEW l \in Lots, lot[l].mint = z, NEW fate, Fate(l, fate),
           lot[l].status \in Active, lot'[l].status \in Active, buyTx[l] # "LANDED",
           lot'[l].mint = lot[l].mint, lot'[l].amt = lot[l].amt,
           \A k \in Lots : k # l => lot'[k].mint = lot[k].mint /\ lot'[k].amt = lot[k].amt
                                    /\ (lot'[k].sig <=> lot[k].sig) /\ lot'[k].status = lot[k].status
    PROVE  Balanced(z)'
<1>1. buyTx'[l] = fate /\ \A k \in Lots : k # l => buyTx'[k] = buyTx[k]
  BY FateOf
<1>2. /\ fate = "LANDED" => wallet'[z] = wallet[z] + LotAmount
      /\ fate # "LANDED" => wallet'[z] = wallet[z]
  BY FateWallet
<1>3. \A k \in Lots : k # l => Keeps(k)
  BY <1>1 DEF Keeps
<1>4. wallet[z] \in Nat /\ lot[l].amt \in Nat /\ LotAmount \in Nat
  BY CapType, Amounts, LiveAssumption
<1>5. Accounted(l) => Accounted(l)'
  <2>. SUFFICES ASSUME Accounted(l) PROVE Accounted(l)'
    OBVIOUS
  <2>1. wallet[z] = 0 /\ lot[l].amt = 0
    BY <1>4 DEF Accounted
  <2>2. lot'[l].mint = z /\ lot'[l].amt = 0 /\ Cap(l)' = LotAmount
    BY <2>1 DEF Cap
  <2>3. wallet'[z] > 0 => buyTx'[l] = "LANDED" /\ wallet'[z] <= LotAmount
    BY <1>1, <1>2, <1>4, <2>1
  <2>. QED BY <2>2, <2>3 DEF Accounted
<1>. QED BY <1>3, <1>5, OneKeeps

\* A lot that holds nothing is given up or changes hands without a purchase.
LEMMA EmptyBalance ==
    ASSUME IInv, IInv', NEW z \in Mints, Alone(z), Balanced(z), NEW l \in Lots, lot[l].mint = z,
           lot[l].status \in Active, lot'[l].mint = lot[l].mint,
           lot[l].amt = 0, lot'[l].amt = 0, buyTx[l] # "LANDED", wallet' = wallet,
           \A k \in Lots : k # l => lot'[k] = lot[k] /\ buyTx'[k] = buyTx[k]
    PROVE  Balanced(z)'
<1>1. wallet[z] \in Nat
  BY CapType
<1>2. Accounted(l) => Accounted(l)'
  <2>1. Accounted(l) => wallet[z] = 0
    BY <1>1 DEF Accounted
  <2>2. wallet'[z] = wallet[z] /\ lot'[l].mint = z
    OBVIOUS
  <2>. QED BY <2>1, <2>2 DEF Accounted
<1>. QED BY <1>2, KeepsSame, OneKeeps

\* A lot whose tokens arrived is given up without its signature.
LEMMA LeakBalance ==
    ASSUME IInv, IInv', NEW z \in Mints, Alone(z), Balanced(z), NEW l \in Lots, lot[l].mint = z,
           lot[l].status \in Active, lot'[l].mint = lot[l].mint, LeakedBy(l)',
           \A k \in Lots : k # l => lot'[k] = lot[k] /\ buyTx'[k] = buyTx[k]
    PROVE  Balanced(z)'
BY KeepsSame, OneKeeps

LEMMA EntryFailuresBalance ==
    ASSUME LInv, IInv', NEW z \in Mints, Alone(z), Balanced(z), NEW l \in Lots, lot[l].mint = z,
           WalletHolds(l) \/ EntryRejected(l) \/ BuyErred(l) \/ SendThrows(l) \/ ReadThrows(l)
    PROVE  Balanced(z)'
<1>1. entering.lot = l /\ Calling /\ IInv
  BY DEF WalletHolds, EntryRejected, BuyErred, SendThrows, ReadThrows, Calling, LInv
<1>2. CallInv(l) /\ lot[l] \in LotRecord /\ lot[l].amt = 0 /\ lot \in [Lots -> LotRecord]
  BY <1>1, Caller, LoneLot DEF IInv, StoreOK
<1>3. ASSUME NEW sig \in BOOLEAN, EntryFails(l, sig)
      PROVE  /\ lot'[l].status = "ENTRY_FAILED" /\ lot'[l].mint = lot[l].mint /\ lot'[l].amt = 0 /\ lot'[l].sig = sig
             /\ \A k \in Lots : k # l => lot'[k] = lot[k]
  <2>1. lot'[l] = Failed(lot[l], sig) /\ \A k \in Lots : k # l => lot'[k] = lot[k]
    BY <1>2, <1>3 DEF EntryFails
  <2>2. lot'[l].status = "ENTRY_FAILED" /\ lot'[l].mint = lot[l].mint /\ lot'[l].amt = 0 /\ lot'[l].sig = sig
    BY <1>2, <1>3, <2>1 DEF Failed, LotRecord
  <2>. QED BY <2>1, <2>2
<1>4. PICK n \in Mints : n = lot[l].mint
  BY <1>2 DEF LotRecord
<1>5. lot[l].status \in Active
  BY <1>2 DEF CallInv, Active
<1>6. CASE WalletHolds(l) \/ EntryRejected(l)
  <2>1. EntryFails(l, FALSE) /\ buyTx' = buyTx /\ wallet' = wallet /\ entering.step = "CHECK"
    BY <1>6 DEF WalletHolds, EntryRejected, chainVars
  <2>2. buyTx[l] # "LANDED"
    BY <1>2, <2>1 DEF CallInv
  <2>. QED BY <1>1, <1>2, <1>3, <1>5, <2>1, <2>2, EmptyBalance
<1>7. CASE ReadThrows(l)
  <2>1. EntryFails(l, FALSE) /\ buyTx' = buyTx /\ wallet' = wallet /\ entering.step = "READ"
    BY <1>7 DEF ReadThrows, chainVars
  <2>2. LeakedBy(l)'
    BY <1>2, <1>3, <2>1 DEF LeakedBy, CallInv
  <2>. QED BY <1>1, <1>3, <1>4, <1>5, <2>1, <2>2, LeakBalance
<1>8. ASSUME NEW fate, Fate(l, fate), NEW sig \in BOOLEAN, EntryFails(l, sig), entering.step = "SENT",
             fate = "LANDED" => sig = FALSE
      PROVE  Balanced(z)'
  <2>1. buyTx[l] # "LANDED" /\ buyTx'[l] = fate /\ \A k \in Lots : k # l => buyTx'[k] = buyTx[k]
    BY <1>1, <1>2, <1>8, FateOf DEF CallInv
  <2>2. CASE fate = "LANDED"
    <3>1. LeakedBy(l)'
      BY <1>3, <1>8, <2>1, <2>2 DEF LeakedBy
    <3>. QED BY <1>1, <1>3, <1>4, <1>5, <1>8, <2>1, <3>1, FateWallet, LeakBalance
  <2>3. CASE fate # "LANDED"
    <3>1. wallet' = wallet
      BY <1>8, <2>3 DEF Fate
    <3>. QED BY <1>1, <1>2, <1>3, <1>5, <1>8, <2>1, <3>1, EmptyBalance
  <2>. QED BY <2>2, <2>3
<1>9. CASE BuyErred(l)
  <2>1. Fate(l, "ERR") /\ EntryFails(l, TRUE) /\ entering.step = "SENT"
    BY <1>9 DEF BuyErred
  <2>2. lot'[l] = Failed(lot[l], TRUE) /\ \A k \in Lots : k # l => lot'[k] = lot[k]
    BY <1>2, <2>1 DEF EntryFails
  <2>3. lot'[l].mint = lot[l].mint /\ lot'[l].amt = 0
    BY <1>2, <2>2 DEF Failed, LotRecord
  <2>4. buyTx[l] # "LANDED" /\ wallet' = wallet /\ \A k \in Lots : k # l => buyTx'[k] = buyTx[k]
    BY <1>1, <1>2, <2>1, FateOf DEF CallInv, Fate
  <2>. QED BY <1>1, <1>2, <1>5, <2>2, <2>3, <2>4, EmptyBalance
<1>10. CASE SendThrows(l)
  <2>1. PICK fate : Fate(l, fate)
    BY <1>10 DEF SendThrows
  <2>2. EntryFails(l, FALSE) /\ entering.step = "SENT"
    BY <1>10 DEF SendThrows
  <2>. QED BY <1>8, <2>1, <2>2
<1>. QED BY <1>6, <1>7, <1>9, <1>10

\* A step after which the lots of the store are the same, and the tokens not more.
LEMMA StillBalance ==
    ASSUME IInv, IInv', NEW z \in Mints, Balanced(z), lot' = lot, buyTx' = buyTx, \A m \in Mints : wallet'[m] <= wallet[m]
    PROVE  Balanced(z)'
BY KeepsSame, KeepsAll

LEMMA EntryMovesBalance ==
    ASSUME LInv, IInv', NEW z \in Mints, Alone(z), Balanced(z), NEW l \in Lots, lot[l].mint = z,
           SendBuy(l) \/ RefreshQuote(l) \/ BuyConfirmed(l)
    PROVE  Balanced(z)'
<1>1. IInv
  BY DEF LInv
<1>2. CASE SendBuy(l) \/ RefreshQuote(l)
  BY <1>1, <1>2, StillBalance, SameTokens DEF SendBuy, RefreshQuote, storeVars, chainVars
<1>3. CASE BuyConfirmed(l)
  <2>1. entering.lot = l /\ Calling /\ entering.step = "SENT" /\ Landed(l) /\ lot' = lot
    BY <1>3 DEF BuyConfirmed, Calling, storeVars
  <2>2. CallInv(l)
    BY <2>1, Caller
  <2>3. lot[l].status \in Active /\ lot'[l].status \in Active /\ buyTx[l] # "LANDED"
    BY <2>1, <2>2 DEF CallInv, Active
  <2>4. Fate(l, "LANDED")
    BY <2>1 DEF Fate
  <2>. QED BY <1>1, <2>1, <2>3, <2>4, FateBalance
<1>. QED BY <1>2, <1>3

LEMMA EnterBalance ==
    ASSUME LInv, IInv', NEW z \in Mints, Balanced(z), NEW l \in Lots, NEW n \in Mints, NEW mode \in ExitModes,
           Enter(l, n, mode)
    PROVE  Balanced(z)'
<1>1. lot[l].status = "NONE" /\ buyTx' = buyTx /\ wallet' = wallet
  BY DEF Enter, chainVars
<1>2. /\ lot'[l] = [NoRow EXCEPT !.mint = n, !.mode = mode, !.status = "OPENING"]
      /\ \A k \in Lots : k # l => lot'[k] = lot[k]
  BY DEF Enter, LInv, IInv, StoreOK
<1>3. lot'[l].status = "OPENING" /\ lot'[l].amt = 0 /\ lot'[l].mint = n
  BY <1>2 DEF NoRow
<1>4. CASE Leaked(z)
  <2>1. PICK k \in Lots : lot[k].mint = z /\ LeakedBy(k)
    BY <1>4 DEF Leaked
  <2>2. k # l
    BY <1>1, <2>1 DEF LeakedBy
  <2>. QED BY <1>1, <1>2, <2>1, <2>2 DEF Leaked, LeakedBy, Balanced
<1>5. CASE Covered(z)
  <2>1. ASSUME wallet'[z] > 0 PROVE \E k \in Lots : Covers(k, z)'
    <3>1. PICK k \in Lots : Covers(k, z)
      BY <1>1, <1>5, <2>1 DEF Covered
    <3>2. k # l
      BY <1>1, <3>1 DEF Covers, Active
    <3>3. lot'[k] = lot[k]
      BY <1>2, <3>2
    <3>. QED BY <1>1, <3>1, <3>3 DEF Covers, Cap
  <2>2. ASSUME NEW k \in Lots, lot'[k].mint = z, lot'[k].amt > 0 PROVE buyTx'[k] = "LANDED"
    <3>1. k # l
      BY <1>3, <2>2
    <3>2. lot'[k] = lot[k]
      BY <1>2, <3>1
    <3>. QED BY <1>1, <1>5, <2>2, <3>2 DEF Covered
  <2>. QED BY <2>1, <2>2 DEF Covered, Balanced
<1>. QED BY <1>4, <1>5 DEF Balanced

LEMMA BuyReceivedBalance ==
    ASSUME LInv, IInv', NEW z \in Mints, Alone(z), Balanced(z), NEW l \in Lots, lot[l].mint = z, BuyReceived(l)
    PROVE  Balanced(z)'
<1>. DEFINE received == IF entering.allow \/ wallet[lot[l].mint] = 0 THEN LotAmount ELSE wallet[lot[l].mint]
<1>1. /\ entering.lot = l /\ Calling /\ entering.step = "READ"
      /\ lot' = [lot EXCEPT ![l] = Opened(@, TRUE, received)]
      /\ buyTx' = buyTx /\ wallet' = wallet
  BY DEF BuyReceived, Calling, chainVars
<1>2. /\ CallInv(l) /\ lot[l] \in LotRecord /\ lot[l].amt = 0 /\ lot \in [Lots -> LotRecord] /\ IInv
  BY <1>1, Caller, LoneLot DEF LInv, IInv, StoreOK
<1>3. PICK n \in Mints : n = lot[l].mint
  BY <1>2 DEF LotRecord
<1>4. wallet[n] \in Nat /\ LotAmount \in Nat /\ LotAmount > 0
  BY <1>2, CapType, LiveAssumption
<1>5. received > 0 /\ received \in Nat /\ (received = LotAmount \/ received = wallet[n])
  BY <1>3, <1>4
<1>. HIDE DEF received
<1>6. lot'[l] = Opened(lot[l], TRUE, received) /\ \A k \in Lots : k # l => lot'[k] = lot[k]
  BY <1>1, <1>2
<1>7. lot'[l].status = "OPEN" /\ lot'[l].amt = received /\ lot'[l].mint = n
  BY <1>2, <1>3, <1>6 DEF Opened, LotRecord
<1>8. buyTx[l] = "LANDED" /\ lot[l].status \in Active
  BY <1>1, <1>2 DEF CallInv, Active
<1>9. Accounted(l) => Accounted(l)'
  <2>. SUFFICES ASSUME Accounted(l) PROVE Accounted(l)'
    OBVIOUS
  <2>1. wallet[n] > 0 => wallet[n] <= LotAmount
    BY <1>2, <1>3 DEF Accounted, Cap
  <2>2. wallet'[n] = wallet[n] /\ (wallet[n] > 0 => wallet[n] <= received)
    BY <1>1, <1>4, <1>5, <2>1
  <2>3. Cap(l)' = received
    BY <1>5, <1>7 DEF Cap
  <2>. QED BY <1>1, <1>7, <1>8, <2>2, <2>3 DEF Accounted, Active
<1>10. \A m \in Mints : wallet'[m] <= wallet[m]
  BY <1>1, <1>2, SameTokens
<1>. QED BY <1>1, <1>2, <1>3, <1>6, <1>7, <1>8, <1>9, <1>10, KeepsSame, OneKeeps

\* The end of a recovery gives the entry up or leaves it EXIT_FAILED.
LEMMA RecoveryEndsRow ==
    ASSUME NEW l \in Lots, NEW L \in [Lots -> LotRecord], NEW r \in RecovRecord, RecoveryEnds(l, L, r)
    PROVE  /\ \A k \in Lots : k # l => lot'[k] = L[k]
           /\ lot'[l].mint = L[l].mint /\ lot'[l].amt = L[l].amt
           /\ \/ lot'[l].status = "ENTRY_FAILED" /\ L[l].sig /\ r.expired /\ r.absent /\ L[l].aged
              \/ lot'[l].status = "EXIT_FAILED" /\ (lot'[l].sig <=> L[l].sig)
<1>. DEFINE released == L[l].sig /\ r.expired /\ r.absent /\ L[l].aged
<1>1. lot' = [L EXCEPT ![l] = IF released THEN Failed(@, TRUE) ELSE Unsettled(@, @.sig, r.expired)]
  BY DEF RecoveryEnds
<1>2. L[l] \in LotRecord /\ \A k \in Lots : k # l => lot'[k] = L[k]
  BY <1>1
<1>3. CASE released
  <2>1. lot'[l] = Failed(L[l], TRUE)
    BY <1>1, <1>3
  <2>2. lot'[l].status = "ENTRY_FAILED" /\ lot'[l].mint = L[l].mint /\ lot'[l].amt = L[l].amt
    BY <1>2, <2>1 DEF Failed, LotRecord
  <2>. QED BY <1>2, <1>3, <2>2
<1>4. CASE ~released
  <2>1. lot'[l] = Unsettled(L[l], L[l].sig, r.expired)
    BY <1>1, <1>4
  <2>2. /\ lot'[l].status = "EXIT_FAILED" /\ lot'[l].mint = L[l].mint /\ lot'[l].amt = L[l].amt
        /\ lot'[l].sig <=> L[l].sig
    BY <1>2, <2>1 DEF Unsettled, LotRecord
  <2>. QED BY <1>2, <2>2
<1>. QED BY <1>3, <1>4

LEMMA RecoveryEndsBalance ==
    ASSUME IInv, IInv', NEW z \in Mints, Alone(z), Balanced(z), NEW l \in Lots, lot[l].mint = z, NEW r \in RecovRecord, RecoveryEnds(l, lot, r),
           buyTx' = buyTx, wallet' = wallet, lot[l].status \in Active, lot[l].amt = 0,
           lot[l].sig /\ r.expired /\ r.absent /\ lot[l].aged => buyTx[l] # "LANDED"
    PROVE  Balanced(z)'
<1>1. PICK L \in [Lots -> LotRecord] : L = lot
  BY DEF IInv, StoreOK
<1>2. RecoveryEnds(l, L, r)
  BY <1>1
<1>3. /\ \A k \in Lots : k # l => lot'[k] = lot[k]
      /\ lot'[l].mint = lot[l].mint /\ lot'[l].amt = lot[l].amt
      /\ \/ lot'[l].status = "ENTRY_FAILED" /\ lot[l].sig /\ r.expired /\ r.absent /\ lot[l].aged
         \/ lot'[l].status = "EXIT_FAILED" /\ (lot'[l].sig <=> lot[l].sig)
  BY <1>1, <1>2, RecoveryEndsRow
<1>4. CASE lot'[l].status = "ENTRY_FAILED"
  <2>1. buyTx[l] # "LANDED"
    BY <1>3, <1>4
  <2>. QED BY <1>3, <2>1, EmptyBalance
<1>5. CASE lot'[l].status = "EXIT_FAILED"
  <2>1. Keeps(l)
    BY <1>3, <1>5 DEF Keeps, Active
  <2>2. \A k \in Lots : Keeps(k)
    BY <1>3, <2>1, KeepsSame
  <2>. QED BY <2>2, SameTokens, KeepsAll
<1>. QED BY <1>3, <1>4, <1>5

\* The buy of the running entry has an unknown outcome.
LEMMA EntryUnknownRow ==
    ASSUME LInv, NEW l \in Lots, NEW expired \in BOOLEAN, EntryUnknown(l, expired), lot[l].aged = FALSE
    PROVE  /\ \A k \in Lots : k # l => lot'[k] = lot[k]
           /\ lot'[l].mint = lot[l].mint /\ lot'[l].amt = lot[l].amt /\ lot'[l].status = "EXIT_FAILED"
<1>1. lot[l] \in LotRecord /\ lot \in [Lots -> LotRecord] /\ Unsettled(lot[l], TRUE, expired) \in LotRecord
  BY UnsettledType DEF LInv, IInv, StoreOK
<1>2. PICK L \in [Lots -> LotRecord] : L = [lot EXCEPT ![l] = Unsettled(@, TRUE, expired)]
  BY <1>1
<1>3. L[l] = Unsettled(lot[l], TRUE, expired) /\ \A k \in Lots : k # l => L[k] = lot[k]
  BY <1>1, <1>2
<1>4. /\ L[l].mint = lot[l].mint /\ L[l].amt = lot[l].amt /\ L[l].status = "EXIT_FAILED" /\ L[l].aged = FALSE
  BY <1>1, <1>3 DEF Unsettled, LotRecord
<1>5. PICK r \in RecovRecord : r = Unasked(expired)
  BY AttemptType, LiveAssumption
<1>6. lot' = L \/ RecoveryEnds(l, L, r)
  BY <1>2, <1>5 DEF EntryUnknown
<1>7. CASE lot' = L
  BY <1>3, <1>4, <1>7
<1>8. CASE RecoveryEnds(l, L, r)
  <2>1. /\ \A k \in Lots : k # l => lot'[k] = L[k]
        /\ lot'[l].mint = L[l].mint /\ lot'[l].amt = L[l].amt
        /\ L[l].aged \/ lot'[l].status = "EXIT_FAILED"
    BY <1>8, RecoveryEndsRow
  <2>. QED BY <1>3, <1>4, <2>1
<1>. QED BY <1>6, <1>7, <1>8

LEMMA EntryUnknownBalance ==
    ASSUME LInv, IInv', NEW z \in Mints, Alone(z), Balanced(z), NEW l \in Lots, lot[l].mint = z, BuyTimesOut(l) \/ BuyUnseen(l)
    PROVE  Balanced(z)'
<1>1. entering.lot = l /\ Calling /\ IInv /\ \E expired \in BOOLEAN : EntryUnknown(l, expired)
  BY DEF BuyTimesOut, BuyUnseen, Calling, LInv
<1>2. CallInv(l) /\ lot[l].amt = 0 /\ lot[l].aged = FALSE
  BY <1>1, Caller, LoneLot, Amounts DEF CallInv
<1>3. PICK expired \in BOOLEAN : EntryUnknown(l, expired)
  BY <1>1
<1>4. /\ \A k \in Lots : k # l => lot'[k] = lot[k]
      /\ lot'[l].mint = lot[l].mint /\ lot'[l].amt = lot[l].amt /\ lot'[l].status = "EXIT_FAILED"
  BY <1>2, <1>3, EntryUnknownRow
<1>5. lot[l].status \in Active /\ lot'[l].status \in Active
  BY <1>2, <1>4 DEF CallInv, Active
<1>6. CASE BuyTimesOut(l)
  <2>1. PICK fate : Fate(l, fate)
    BY <1>6 DEF BuyTimesOut
  <2>2. buyTx[l] # "LANDED"
    BY <1>2, <1>6 DEF CallInv, BuyTimesOut
  <2>. QED BY <1>1, <1>4, <1>5, <2>1, <2>2, FateBalance
<1>7. CASE BuyUnseen(l)
  <2>1. buyTx' = buyTx /\ wallet' = wallet
    BY <1>7 DEF BuyUnseen, chainVars
  <2>2. \A m \in Mints : wallet'[m] <= wallet[m]
    BY <1>1, <2>1, SameTokens
  <2>3. Accounted(l) => Accounted(l)'
    BY <1>4, <1>5, <2>1 DEF Accounted, Cap
  <2>4. \A k \in Lots : k # l => Keeps(k)
    BY <1>4, <2>1, KeepsSame
  <2>. QED BY <1>1, <1>4, <1>5, <2>2, <2>3, <2>4, OneKeeps
<1>. QED BY <1>6, <1>7

\* An answer that released the entry says that it bought nothing.
LEMMA RecoveryGoesBalance ==
    ASSUME LInv, IInv', NEW z \in Mints, Alone(z), Balanced(z), NEW l \in Lots, lot[l].mint = z, RecoveryUnsure(l) \/ RecoveryRetries(l)
    PROVE  Balanced(z)'
<1>1. recov[l].phase # "OFF" /\ buyTx' = buyTx /\ wallet' = wallet /\ IInv
  BY DEF RecoveryUnsure, RecoveryRetries, chainVars, LInv
<1>2. lot[l].status \in Active /\ lot[l].amt = 0 /\ recov[l] \in RecovRecord
  BY <1>1, Seeker, LoneLot, Amounts DEF Seeks, Active
<1>3. CASE lot' = lot
  BY <1>1, <1>3, SameTokens, StillBalance
<1>4. ASSUME RecoveryUnsure(l), lot' # lot PROVE Balanced(z)'
  <2>1. PICK expired \in BOOLEAN, absent \in BOOLEAN :
           /\ Unseen(l, expired, absent)
           /\ RecoveryEnds(l, lot, [recov[l] EXCEPT !.expired = expired, !.absent = absent])
    BY <1>4 DEF RecoveryUnsure
  <2>2. PICK r \in RecovRecord : r = [recov[l] EXCEPT !.expired = expired, !.absent = absent]
    BY <1>2 DEF RecovRecord
  <2>3. (r.expired <=> expired) /\ (r.absent <=> absent)
    BY <1>2, <2>2 DEF RecovRecord
  <2>4. lot[l].sig /\ r.expired /\ r.absent /\ lot[l].aged => buyTx[l] # "LANDED"
    BY <2>1, <2>3 DEF Unseen
  <2>5. RecoveryEnds(l, lot, r)
    BY <2>1, <2>2
  <2>. QED BY <1>1, <1>2, <2>4, <2>5, RecoveryEndsBalance
<1>5. ASSUME RecoveryRetries(l), lot' # lot PROVE Balanced(z)'
  <2>1. RecoveryEnds(l, lot, recov[l]) /\ recov[l].phase = "DELAY"
    BY <1>5 DEF RecoveryRetries
  <2>2. PICK r \in RecovRecord : r = recov[l]
    BY <1>2
  <2>3. lot[l].sig /\ r.expired /\ r.absent /\ lot[l].aged => buyTx[l] # "LANDED"
    BY <2>1, <2>2, LoneLot DEF LotInv, Fated
  <2>4. RecoveryEnds(l, lot, r)
    BY <2>1, <2>2
  <2>. QED BY <1>1, <1>2, <2>3, <2>4, RecoveryEndsBalance
<1>. QED BY <1>3, <1>4, <1>5

LEMMA RecoveryFailsBalance ==
    ASSUME LInv, IInv', NEW z \in Mints, Alone(z), Balanced(z), NEW l \in Lots, lot[l].mint = z, RecoveryFails(l)
    PROVE  Balanced(z)'
<1>1. /\ recov[l].phase # "OFF" /\ buyTx' = buyTx /\ wallet' = wallet /\ IInv
      /\ buyTx[l] = "ERR" /\ lot' = [lot EXCEPT ![l] = Failed(@, TRUE)]
  BY DEF RecoveryFails, chainVars, LInv
<1>2. lot[l].status \in Active /\ lot[l].amt = 0 /\ lot[l] \in LotRecord /\ lot \in [Lots -> LotRecord]
  BY <1>1, Seeker, LoneLot DEF Seeks, Active, IInv, StoreOK
<1>3. lot'[l] = Failed(lot[l], TRUE) /\ \A k \in Lots : k # l => lot'[k] = lot[k]
  BY <1>1, <1>2
<1>4. lot'[l].amt = 0 /\ lot'[l].mint = lot[l].mint
  BY <1>2, <1>3 DEF Failed, LotRecord
<1>. QED BY <1>1, <1>2, <1>3, <1>4, EmptyBalance

LEMMA RecoveryConfirmsBalance ==
    ASSUME LInv, IInv', NEW z \in Mints, Alone(z), Balanced(z), NEW l \in Lots, lot[l].mint = z, RecoveryConfirms(l)
    PROVE  Balanced(z)'
<1>1. /\ recov[l].phase # "OFF" /\ buyTx' = buyTx /\ wallet' = wallet /\ IInv
  BY DEF RecoveryConfirms, chainVars, LInv
<1>2. /\ lot[l].status \in Active /\ lot[l].amt = 0 /\ lot[l] \in LotRecord /\ lot \in [Lots -> LotRecord]
      /\ timers \in [Lots -> TimerRecord] /\ lot[l].sig \in BOOLEAN
  BY <1>1, Seeker, LoneLot, Amounts DEF Seeks, Active, IInv, StoreOK, MemOK
<1>3. PICK n \in Mints : n = lot[l].mint
  BY <1>2 DEF LotRecord
<1>4. wallet[n] \in Nat /\ LotAmount \in Nat /\ LotAmount > 0
  BY <1>1, LiveAssumption DEF IInv, ChainOK
<1>5. PICK amount \in {LotAmount, wallet[n]} :
         /\ ReceiptSeen(l, amount) \/ BalanceSeen(l, amount)
         /\ LET L == [lot EXCEPT ![l] = Opened(@, @.sig, amount)]
            IN  RequestExit(l, "NORMAL", L, timers) \/ lot' = L
  BY <1>3 DEF RecoveryConfirms
<1>6. amount \in Nat /\ amount > 0
  BY <1>3, <1>4, <1>5 DEF ReceiptSeen, BalanceSeen
<1>7. PICK L \in [Lots -> LotRecord] : L = [lot EXCEPT ![l] = Opened(@, @.sig, amount)]
  BY <1>2, <1>6, OpenedType
<1>8. PICK T \in [Lots -> TimerRecord] : T = timers
  BY <1>2
<1>9. L[l] = Opened(lot[l], lot[l].sig, amount) /\ \A k \in Lots : k # l => L[k] = lot[k]
  BY <1>2, <1>7
<1>10. L[l].status = "OPEN" /\ L[l].amt = amount /\ L[l].mint = n
  BY <1>2, <1>3, <1>9 DEF Opened, LotRecord
<1>11. RequestExit(l, "NORMAL", L, T) \/ lot' = L
  BY <1>5, <1>7, <1>8
<1>12. /\ \A k \in Lots : k # l => lot'[k] = lot[k]
       /\ lot'[l] = L[l] \/ lot'[l] = Exiting(L[l])
  BY <1>9, <1>11, RequestCases DEF ExitReasons
<1>13. lot'[l].status \in Active /\ lot'[l].amt = amount /\ lot'[l].mint = n
  BY <1>7, <1>10, <1>12 DEF Exiting, LotRecord, Active
<1>14. Accounted(l) => Accounted(l)'
  <2>. SUFFICES ASSUME Accounted(l) PROVE Accounted(l)'
    OBVIOUS
  <2>1. wallet[n] > 0 => buyTx[l] = "LANDED" /\ wallet[n] <= LotAmount
    BY <1>2, <1>3 DEF Accounted, Cap
  <2>2. buyTx[l] = "LANDED"
    BY <1>3, <1>5, <2>1 DEF ReceiptSeen, BalanceSeen
  <2>3. wallet[n] > 0 => wallet[n] <= amount
    BY <1>3, <1>4, <1>5, <2>1
  <2>4. Cap(l)' = amount
    BY <1>6, <1>13 DEF Cap
  <2>. QED BY <1>1, <1>13, <2>2, <2>3, <2>4 DEF Accounted
<1>15. \A m \in Mints : wallet'[m] <= wallet[m]
  BY <1>1, SameTokens
<1>. QED BY <1>1, <1>2, <1>3, <1>12, <1>13, <1>14, <1>15, KeepsSame, OneKeeps

\* A request for an exit, and the other steps that keep what a lot has.
LEMMA RequestBalance ==
    ASSUME LInv, IInv', NEW z \in Mints, Balanced(z), NEW l \in Lots, NEW reason \in ExitReasons, NEW T \in [Lots -> TimerRecord],
           RequestExit(l, reason, lot, T), buyTx' = buyTx, wallet' = wallet
    PROVE  Balanced(z)'
<1>1. IInv /\ lot[l] \in LotRecord
  BY Amounts DEF LInv
<1>2. PICK L \in [Lots -> LotRecord] : L = lot
  BY <1>1 DEF IInv, StoreOK
<1>3. RequestExit(l, reason, L, T)
  BY <1>2
<1>4. /\ \A k \in Lots : k # l => lot'[k] = lot[k]
      /\ lot'[l] = lot[l] \/ (lot[l].status \in {"OPEN", "EXIT_FAILED"} /\ lot'[l] = Exiting(lot[l]))
  BY <1>2, <1>3, RequestCases
<1>5. Keeps(l)
  <2>1. CASE lot'[l] = lot[l]
    BY <2>1, KeepsSame
  <2>2. CASE lot[l].status \in {"OPEN", "EXIT_FAILED"} /\ lot'[l] = Exiting(lot[l])
    <3>1. /\ lot'[l].status = "EXITING" /\ lot'[l].amt = lot[l].amt /\ lot'[l].mint = lot[l].mint
          /\ lot'[l].sig = lot[l].sig
      BY <1>1, <2>2 DEF Exiting, LotRecord
    <3>. QED BY <2>2, <3>1 DEF Keeps, Active
  <2>. QED BY <1>4, <2>1, <2>2
<1>. QED BY <1>1, <1>4, <1>5, KeepsSame, SameTokens, KeepsAll

LEMMA AskingBalance ==
    ASSUME LInv, IInv', NEW z \in Mints, Balanced(z), NEW l \in Lots,
           \/ HoldFires(l) \/ DeferFires(l) \/ PriceExit(l, "NORMAL") \/ PriceExit(l, "TAKE_PROFIT")
    PROVE  Balanced(z)'
<1>1. buyTx' = buyTx /\ wallet' = wallet /\ IInv /\ timers \in [Lots -> TimerRecord]
  BY DEF HoldFires, DeferFires, PriceExit, chainVars, LInv, IInv, MemOK
<1>2. CASE HoldFires(l)
  <2>1. PICK T \in [Lots -> TimerRecord] : T = [timers EXCEPT ![l] = Fired(@, "HOLD")]
    BY <1>1, <1>2, FiredUpdate DEF HoldFires, TimerKinds
  <2>. QED BY <1>1, <1>2, <2>1, RequestBalance DEF HoldFires, ExitReasons
<1>3. CASE DeferFires(l)
  <2>1. PICK T \in [Lots -> TimerRecord] : T = [timers EXCEPT ![l] = Fired(@, "DEFER")]
    BY <1>1, <1>3, FiredUpdate DEF DeferFires, TimerKinds
  <2>. QED BY <1>1, <1>3, <2>1, RequestBalance DEF DeferFires, ExitReasons
<1>4. ASSUME NEW reason \in ExitReasons, PriceExit(l, reason) PROVE Balanced(z)'
  <2>1. PICK T \in [Lots -> TimerRecord] : T = timers
    BY <1>1
  <2>2. RequestExit(l, reason, lot, T)
    BY <1>4, <2>1 DEF PriceExit
  <2>. QED BY <1>1, <2>2, RequestBalance
<1>. QED BY <1>2, <1>3, <1>4 DEF ExitReasons

\* Steps that change nothing the balance looks at.
LEMMA QuietBalance ==
    ASSUME LInv, IInv', NEW z \in Mints, Balanced(z),
           \/ \E l \in Lots : RecoverFires(l) \/ RequestCoreExit(l) \/ FlyingSaleEnds(l) \/ Age(l)
           \/ \E m \in Mints : Graduate(m) \/ RecheckLock(m) \/ SoldByHand(m) \/ Sell(m)
           \/ Stop
    PROVE  Balanced(z)'
<1>1. IInv /\ lot \in [Lots -> LotRecord] /\ wallet \in [Mints -> Nat]
  BY DEF LInv, IInv, StoreOK, ChainOK
<1>2. CASE \/ \E l \in Lots : RecoverFires(l)
           \/ \E m \in Mints : Graduate(m) \/ RecheckLock(m) \/ Sell(m)
           \/ Stop
  <2>1. lot' = lot /\ buyTx' = buyTx /\ wallet' = wallet
    BY <1>2 DEF RecoverFires, Graduate, RecheckLock, Sell, Stop, storeVars, chainVars
  <2>. QED BY <1>1, <2>1, SameTokens, StillBalance
<1>3. CASE \E m \in Mints : SoldByHand(m)
  <2>1. PICK n \in Mints : SoldByHand(n)
    BY <1>3
  <2>2. lot' = lot /\ buyTx' = buyTx /\ wallet' = [wallet EXCEPT ![n] = 0]
    BY <2>1 DEF SoldByHand, storeVars
  <2>3. \A m \in Mints : wallet'[m] <= wallet[m]
    BY <1>1, <2>2
  <2>. QED BY <1>1, <2>2, <2>3, StillBalance
<1>4. CASE \E l \in Lots : FlyingSaleEnds(l)
  <2>1. PICK l \in Lots : FlyingSaleEnds(l)
    BY <1>4
  <2>2. lot' = lot /\ buyTx' = buyTx /\ (Sold(l, sellTx[l]) \/ wallet' = wallet)
    BY <2>1 DEF FlyingSaleEnds, storeVars
  <2>3. sellTx[l] \in Nat
    BY <1>1 DEF IInv, ChainOK
  <2>4. \A m \in Mints : wallet'[m] <= wallet[m]
    BY <1>1, <2>2, <2>3 DEF Sold
  <2>. QED BY <1>1, <2>2, <2>4, StillBalance
<1>5. CASE \E l \in Lots : RequestCoreExit(l) \/ Age(l)
  <2>1. PICK l \in Lots : RequestCoreExit(l) \/ Age(l)
    BY <1>5
  <2>2. /\ buyTx' = buyTx /\ wallet' = wallet
        /\ \/ lot' = [lot EXCEPT ![l] = [@ EXCEPT !.coreTried = TRUE]]
           \/ lot' = [lot EXCEPT ![l] = [@ EXCEPT !.aged = TRUE]]
    BY <2>1 DEF RequestCoreExit, Age, chainVars
  <2>3. /\ \A k \in Lots : k # l => lot'[k] = lot[k]
        /\ lot'[l] = [lot[l] EXCEPT !.coreTried = TRUE] \/ lot'[l] = [lot[l] EXCEPT !.aged = TRUE]
    BY <1>1, <2>2
  <2>4. /\ lot'[l].mint = lot[l].mint /\ lot'[l].amt = lot[l].amt /\ lot'[l].sig = lot[l].sig
        /\ lot'[l].status = lot[l].status
    BY <1>1, <2>3 DEF LotRecord
  <2>5. Keeps(l)
    BY <2>2, <2>4 DEF Keeps
  <2>. QED BY <1>1, <2>2, <2>3, <2>5, KeepsSame, SameTokens, KeepsAll
<1>. QED BY <1>2, <1>3, <1>4, <1>5

-----------------------------------------------------------------------------
(* The balance and the exit queue *)

\* The lot at the head of the queue of a mint whose lots are alone.
LEMMA LoneHead ==
    ASSUME LInv, NEW m \in Mints, Alone(m), exitQ[m] # <<>>, Alive
    PROVE  \E h \in Lots :
             /\ h = Head1(m).lot /\ lot[h].mint = m /\ lot[h] \in LotRecord /\ lot[h].amt > 0
             /\ Head1(m).kind = "CORE" => lot[h].status = "OPEN"
             /\ Head1(m).kind # "CORE" => lot[h].status = "EXITING"
<1>1. PICK h \in Lots :
         /\ h = Head1(m).lot /\ Entered(h) /\ lot[h].mint = m /\ lot[h] \in LotRecord /\ LotInv(h)
         /\ entering.lot = h => ~Calling
         /\ Head1(m).kind = "TAKE_PROFIT" => lot[h].mode = "PLAIN"
         /\ ~Grad(h) =>
              /\ lot[h].amt > 0 /\ lot[h].unknown = FALSE /\ h \in positions /\ recov[h].phase = "OFF"
              /\ timers[h].live["RECOVER"] = 0
              /\ Head1(m).kind = "CORE" => lot[h].status = "OPEN"
              /\ Head1(m).kind # "CORE" => lot[h].status = "EXITING" /\ h \notin corePending
  BY HeadLot
<1>2. ~Grad(h)
  BY <1>1, LoneLot
<1>. QED BY <1>1, <1>2

\* An attempt of the head task is over.
LEMMA AttemptBalance ==
    ASSUME LInv, IInv', NEW m \in Mints, Alone(m), Balanced(m), Running(m, ExitReasons),
           NEW kinds, ExitAttemptOver(m, kinds), buyTx' = buyTx, \A n \in Mints : wallet'[n] <= wallet[n]
    PROVE  Balanced(m)'
<1>1. Alive /\ exitQ[m] # <<>> /\ Head1(m).kind # "CORE" /\ IInv
  BY DEF Running, ExitReasons, LInv
<1>2. PICK h \in Lots : /\ h = Head1(m).lot /\ lot[h].status = "EXITING" /\ lot[h] \in LotRecord
  BY <1>1, LoneHead
<1>3. /\ \A k \in Lots : k # h => lot'[k] = lot[k]
      /\ lot'[h] = Ordered(lot[h], kinds) \/ lot'[h] = Ended(lot[h], kinds, "EXIT_FAILED")
  BY <1>1, <1>2 DEF ExitAttemptOver, IInv, StoreOK
<1>4. /\ lot'[h].mint = lot[h].mint /\ lot'[h].amt = lot[h].amt /\ lot'[h].sig = lot[h].sig
      /\ lot'[h].status \in {"EXITING", "EXIT_FAILED"}
  BY <1>2, <1>3 DEF Ordered, Ended, LotRecord
<1>5. Keeps(h)
  BY <1>2, <1>4 DEF Keeps, Active
<1>. QED BY <1>1, <1>3, <1>5, KeepsSame, KeepsAll

\* A sale that covers the lot takes all there is of its mint.
LEMMA CloseBalance ==
    ASSUME LInv, IInv', NEW m \in Mints, Alone(m), Balanced(m), Running(m, ExitReasons),
           CloseLot(m, Head1(m).lot), buyTx' = buyTx,
           wallet[m] <= lot[Head1(m).lot].amt => wallet'[m] = 0,
           wallet[m] = 0 => wallet'[m] = 0
    PROVE  Balanced(m)'
<1>1. Alive /\ exitQ[m] # <<>> /\ Head1(m).kind # "CORE" /\ IInv
  BY DEF Running, ExitReasons, LInv
<1>2. PICK h \in Lots : /\ h = Head1(m).lot /\ lot[h].status = "EXITING" /\ lot[h] \in LotRecord
                        /\ lot[h].amt > 0 /\ lot[h].mint = m
  BY <1>1, LoneHead
<1>3. lot'[h] = Ended(lot[h], {"SELL"}, "CLOSED") /\ \A k \in Lots : k # h => lot'[k] = lot[k]
  BY <1>1, <1>2 DEF CloseLot, IInv, StoreOK
<1>4. lot'[h].mint = m /\ lot'[h].amt = lot[h].amt
  BY <1>2, <1>3 DEF Ended, LotRecord
<1>5. wallet[m] \in Nat /\ lot[h].amt \in Nat
  BY <1>1, Amounts DEF IInv, ChainOK
<1>6. Accounted(h) => Accounted(h)'
  <2>. SUFFICES ASSUME Accounted(h) PROVE Accounted(h)'
    OBVIOUS
  <2>1. wallet[m] > 0 => wallet[m] <= lot[h].amt
    BY <1>2 DEF Accounted, Cap
  <2>2. wallet'[m] = 0
    BY <1>2, <1>5, <2>1
  <2>3. buyTx'[h] = "LANDED"
    BY <1>2 DEF Accounted
  <2>. QED BY <1>4, <2>2, <2>3 DEF Accounted
<1>. QED BY <1>1, <1>2, <1>3, <1>4, <1>6, KeepsSame, OneKeeps DEF Active

LEMMA SaleBalance ==
    ASSUME LInv, IInv', NEW m \in Mints, Alone(m), Balanced(m),
           AlreadyEmpty(m) \/ SaleConfirmed(m) \/ SaleUnverified(m) \/ SaleUnanswered(m) \/ SellThrows(m)
    PROVE  Balanced(m)'
<1>1. Running(m, ExitReasons) /\ IInv
  BY DEF AlreadyEmpty, SaleConfirmed, SaleUnverified, SaleUnanswered, SellThrows, LInv
<1>2. PICK h \in Lots : h = Head1(m).lot /\ lot[h].mint = m /\ lot[h].amt \in Nat
  BY <1>1, HeadLot, Amounts DEF Running
<1>3. PICK q \in Nat : q = seller[m].want
  BY <1>1, RunningType DEF Running
<1>4. wallet[m] \in Nat
  BY <1>1 DEF IInv, ChainOK
<1>5. CASE AlreadyEmpty(m)
  <2>1. wallet' = wallet /\ buyTx' = buyTx /\ wallet[m] = 0
    BY <1>5 DEF AlreadyEmpty, chainVars
  <2>2. CASE CloseLot(m, Head1(m).lot)
    BY <1>1, <1>4, <2>1, <2>2, SameTokens, CloseBalance
  <2>3. CASE ExitAttemptOver(m, {"SELL"})
    BY <1>1, <2>1, <2>3, SameTokens, AttemptBalance
  <2>. QED BY <1>5, <2>2, <2>3 DEF AlreadyEmpty
<1>6. CASE SaleConfirmed(m)
  <2>1. Sold(h, q) /\ buyTx' = buyTx
    BY <1>2, <1>3, <1>6 DEF SaleConfirmed
  <2>2. /\ q <= wallet[m] /\ wallet'[m] = wallet[m] - q
        /\ \A n \in Mints : wallet'[n] <= wallet[n]
    BY <1>1, <1>2, <2>1, SoldWallet
  <2>3. CASE lot[h].amt <= q /\ CloseLot(m, h)
    <3>1. wallet[m] <= lot[h].amt => wallet'[m] = 0
      BY <1>2, <1>4, <2>2, <2>3
    <3>2. wallet[m] = 0 => wallet'[m] = 0
      BY <1>4, <2>2
    <3>. QED BY <1>1, <1>2, <2>1, <2>2, <2>3, <3>1, <3>2, CloseBalance
  <2>4. CASE ExitAttemptOver(m, {"SELL", "PARTIAL"})
    BY <1>1, <2>1, <2>2, <2>4, AttemptBalance
  <2>. QED BY <1>2, <1>3, <1>6, <2>3, <2>4 DEF SaleConfirmed
<1>7. CASE SaleUnverified(m)
  <2>1. Sold(h, q) /\ buyTx' = buyTx /\ ExitAttemptOver(m, {"SELL"})
    BY <1>2, <1>3, <1>7 DEF SaleUnverified
  <2>2. \A n \in Mints : wallet'[n] <= wallet[n]
    BY <1>1, <1>2, <2>1, SoldWallet
  <2>. QED BY <1>1, <2>1, <2>2, AttemptBalance
<1>8. CASE SaleUnanswered(m)
  <2>1. SaleFate(h, q) /\ ExitAttemptOver(m, {"SELL"})
    BY <1>2, <1>3, <1>8 DEF SaleUnanswered
  <2>. QED BY <1>1, <2>1, SaleFateWallet, AttemptBalance
<1>9. CASE SellThrows(m)
  <2>1. wallet' = wallet /\ buyTx' = buyTx /\ ExitAttemptOver(m, {"SELL"})
    BY <1>9 DEF SellThrows, chainVars
  <2>. QED BY <1>1, <2>1, SameTokens, AttemptBalance
<1>. QED BY <1>5, <1>6, <1>7, <1>8, <1>9

LEMMA BackBalance ==
    ASSUME LInv, IInv', NEW m \in Mints, Alone(m), Balanced(m), TakeProfitRejected(m) \/ ExitAbandoned(m)
    PROVE  Balanced(m)'
<1>1. Alive /\ exitQ[m] # <<>> /\ Head1(m).kind # "CORE" /\ IInv /\ buyTx' = buyTx /\ wallet' = wallet
  BY DEF TakeProfitRejected, ExitAbandoned, Running, ExitReasons, LInv, chainVars
<1>2. PICK h \in Lots : /\ h = Head1(m).lot /\ lot[h].status = "EXITING" /\ lot[h] \in LotRecord
  BY <1>1, LoneHead
<1>3. /\ \A k \in Lots : k # h => lot'[k] = lot[k]
      /\ lot'[h] = Ended(lot[h], {}, "OPEN") \/ lot'[h] = Ended(lot[h], {}, "EXIT_FAILED")
  BY <1>1, <1>2 DEF TakeProfitRejected, ExitAbandoned, IInv, StoreOK
<1>4. /\ lot'[h].mint = lot[h].mint /\ lot'[h].amt = lot[h].amt /\ lot'[h].sig = lot[h].sig
      /\ lot'[h].status \in {"OPEN", "EXIT_FAILED"}
  BY <1>2, <1>3 DEF Ended, LotRecord
<1>5. Keeps(h)
  BY <1>1, <1>2, <1>4 DEF Keeps, Active
<1>. QED BY <1>1, <1>3, <1>5, KeepsSame, SameTokens, KeepsAll

\* The core sale takes from the wallet what it takes from the amount.
LEMMA CoreBalance ==
    ASSUME LInv, IInv', NEW m \in Mints, Alone(m), Balanced(m), CoreConfirmed(m) \/ CoreFails(m)
    PROVE  Balanced(m)'
<1>1. Alive /\ exitQ[m] # <<>> /\ Head1(m).kind = "CORE" /\ IInv
  BY DEF CoreConfirmed, CoreFails, Running, LInv
<1>2. PICK h \in Lots : /\ h = Head1(m).lot /\ lot[h].status = "OPEN" /\ lot[h] \in LotRecord /\ lot[h].mint = m
                        /\ lot[h].amt > 0
  BY <1>1, LoneHead
<1>3. PICK q \in Nat : q = seller[m].want
  BY <1>1, RunningType
<1>4. wallet[m] \in Nat /\ lot[h].amt \in Nat /\ lot \in [Lots -> LotRecord]
  BY <1>1, Amounts DEF IInv, ChainOK, StoreOK
<1>5. CASE CoreConfirmed(m)
  <2>1. lot[h].amt > q /\ Sold(h, q) /\ lot' = [lot EXCEPT ![h] = CoreSold(@, q)] /\ buyTx' = buyTx
    BY <1>2, <1>3, <1>5 DEF CoreConfirmed
  <2>2. /\ q <= wallet[m] /\ wallet'[m] = wallet[m] - q
        /\ \A n \in Mints : wallet'[n] <= wallet[n]
    BY <1>1, <1>2, <2>1, SoldWallet
  <2>3. lot'[h] = CoreSold(lot[h], q) /\ \A k \in Lots : k # h => lot'[k] = lot[k]
    BY <1>4, <2>1
  <2>4. lot'[h].mint = m /\ lot'[h].amt = lot[h].amt - q /\ lot'[h].status = "OPEN"
    BY <1>2, <2>3 DEF CoreSold, LotRecord
  <2>5. Accounted(h) => Accounted(h)'
    <3>. SUFFICES ASSUME Accounted(h) PROVE Accounted(h)'
      OBVIOUS
    <3>1. wallet[m] > 0 => wallet[m] <= lot[h].amt
      BY <1>2 DEF Accounted, Cap
    <3>2. buyTx'[h] = "LANDED"
      BY <1>2, <2>1 DEF Accounted
    <3>3. Cap(h)' = lot[h].amt - q
      BY <1>4, <2>1, <2>4 DEF Cap
    <3>4. wallet'[m] > 0 => wallet'[m] <= lot[h].amt - q
      BY <1>4, <2>2, <3>1
    <3>. QED BY <2>4, <3>2, <3>3, <3>4 DEF Accounted, Active
  <2>. QED BY <1>1, <1>2, <2>1, <2>2, <2>3, <2>4, <2>5, KeepsSame, OneKeeps DEF Active
<1>6. CASE CoreFails(m)
  <2>1. /\ buyTx' = buyTx /\ \A n \in Mints : wallet'[n] <= wallet[n]
        /\ lot' = lot \/ lot' = [lot EXCEPT ![h] = Ordered(@, {"SELL"})]
    <3>1. lot' = lot \/ lot' = [lot EXCEPT ![h] = Ordered(@, {"SELL"})]
      BY <1>2, <1>6 DEF CoreFails
    <3>2. UNCHANGED chainVars \/ SaleFate(h, q)
      BY <1>2, <1>3, <1>6 DEF CoreFails
    <3>3. CASE UNCHANGED chainVars
      BY <1>1, <3>1, <3>3, SameTokens DEF chainVars
    <3>4. CASE SaleFate(h, q)
      BY <1>1, <3>1, <3>4, SaleFateWallet
    <3>. QED BY <3>2, <3>3, <3>4
  <2>2. CASE lot' = lot
    BY <1>1, <2>1, <2>2, StillBalance
  <2>3. CASE lot' = [lot EXCEPT ![h] = Ordered(@, {"SELL"})]
    <3>1. lot'[h] = Ordered(lot[h], {"SELL"}) /\ \A k \in Lots : k # h => lot'[k] = lot[k]
      BY <1>4, <2>3
    <3>2. /\ lot'[h].mint = lot[h].mint /\ lot'[h].amt = lot[h].amt /\ lot'[h].sig = lot[h].sig
          /\ lot'[h].status = lot[h].status
      BY <1>2, <3>1 DEF Ordered, LotRecord
    <3>3. Keeps(h)
      BY <2>1, <3>2 DEF Keeps
    <3>. QED BY <1>1, <2>1, <3>1, <3>3, KeepsSame, KeepsAll
  <2>. QED BY <2>1, <2>2, <2>3
<1>. QED BY <1>5, <1>6

-----------------------------------------------------------------------------
(* The balance, the chain, and the life of the process *)

\* A buy that was given up in flight meets its fate: it bought nothing, or its
\* tokens leak, for its signature was never learnt.
LEMMA LateBuyBalance ==
    ASSUME LInv, IInv', NEW z \in Mints, Alone(z), Balanced(z), NEW l \in Lots, lot[l].mint = z, NEW fate, Fate(l, fate),
           lot' = lot, buyTx[l] = "FLYING", lot[l].status \notin Active
    PROVE  Balanced(z)'
<1>1. IInv /\ LotInv(l) /\ RowInv(l) /\ lot[l].amt \in Nat /\ lot[l].status \in Statuses
  BY LoneLot, Amounts DEF LInv
<1>2. buyTx'[l] = fate /\ \A k \in Lots : k # l => buyTx'[k] = buyTx[k]
  BY <1>1, FateOf
<1>3. fate # "LANDED" => wallet'[z] = wallet[z]
  BY <1>1, FateWallet
<1>4. ASSUME NEW k \in Lots, k # l PROVE Keeps(k) /\ Cap(k)' = Cap(k)
  BY <1>2, <1>4 DEF Keeps, Cap
<1>5. CASE Leaked(z)
  <2>1. PICK k \in Lots : lot[k].mint = z /\ LeakedBy(k)
    BY <1>5 DEF Leaked
  <2>2. k # l
    BY <2>1 DEF LeakedBy
  <2>. QED BY <1>2, <2>1, <2>2 DEF Leaked, LeakedBy, Balanced
<1>6. CASE Covered(z) /\ fate # "LANDED"
  <2>1. ASSUME wallet'[z] > 0 PROVE \E k \in Lots : Covers(k, z)'
    <3>1. PICK k \in Lots : Covers(k, z)
      BY <1>3, <1>6, <2>1 DEF Covered
    <3>2. k # l
      BY <3>1 DEF Covers
    <3>. QED BY <1>2, <1>3, <1>4, <1>6, <3>1, <3>2 DEF Covers
  <2>2. ASSUME NEW k \in Lots, lot'[k].mint = z, lot'[k].amt > 0 PROVE buyTx'[k] = "LANDED"
    <3>1. buyTx[k] = "LANDED"
      BY <1>6, <2>2 DEF Covered
    <3>. QED BY <1>2, <3>1
  <2>. QED BY <2>1, <2>2 DEF Covered, Balanced
<1>7. CASE Covered(z) /\ fate = "LANDED"
  <2>1. lot[l].amt = 0
    BY <1>1, <1>7 DEF Covered
  <2>2. lot[l].status # "CLOSED"
    BY <1>1, <2>1 DEF RowInv
  <2>3. lot[l].status # "NONE"
    BY <1>1 DEF LotInv, Fresh
  <2>4. lot[l].status = "ENTRY_FAILED"
    BY <1>1, <2>2, <2>3 DEF Statuses, Active
  <2>5. ~lot[l].sig
    BY <1>1, <2>4 DEF LotInv, Fated
  <2>. QED BY <1>2, <1>7, <2>4, <2>5 DEF Leaked, LeakedBy, Balanced
<1>. QED BY <1>5, <1>6, <1>7 DEF Balanced

LEMMA FlyingBuyBalance ==
    ASSUME LInv, IInv', NEW z \in Mints, Alone(z), Balanced(z), NEW l \in Lots, lot[l].mint = z, FlyingBuyEnds(l)
    PROVE  Balanced(z)'
<1>1. lot' = lot /\ buyTx[l] = "FLYING" /\ IInv
  BY DEF FlyingBuyEnds, storeVars, LInv
<1>2. PICK fate : Fate(l, fate)
  BY DEF FlyingBuyEnds
<1>3. CASE lot[l].status \in Active
  BY <1>1, <1>2, <1>3, FateBalance
<1>4. CASE lot[l].status \notin Active
  BY <1>1, <1>2, <1>4, LateBuyBalance
<1>. QED BY <1>3, <1>4

\* What is lost with the memory is nothing of the balance.
LEMMA ForgottenRow ==
    ASSUME IInv, MemoryLost, NEW k \in Lots
    PROVE  /\ lot'[k].mint = lot[k].mint /\ lot'[k].amt = lot[k].amt /\ lot'[k].sig = lot[k].sig
           /\ lot'[k].status = lot[k].status
<1>1. lot[k] \in LotRecord
  BY Amounts
<1>2. lot'[k] = [lot[k] EXCEPT !.coreDone = FALSE, !.coreTried = FALSE]
  BY DEF MemoryLost
<1>. QED BY <1>1, <1>2 DEF LotRecord

LEMMA ForgottenBalance ==
    ASSUME IInv, IInv', NEW z \in Mints, Balanced(z), MemoryLost, wallet'[z] <= wallet[z],
           \A k \in Lots : lot[k].mint = z => buyTx'[k] = buyTx[k]
    PROVE  Balanced(z)'
<1>1. \A k \in Lots : lot[k].mint = z \/ lot'[k].mint = z => Keeps(k)
  BY ForgottenRow DEF Keeps
<1>. QED BY <1>1, KeepsMint

LEMMA StopDoneBalance == ASSUME LInv, IInv', NEW z \in Mints, Balanced(z), StopDone PROVE Balanced(z)'
<1>1. IInv /\ MemoryLost /\ buyTx' = buyTx /\ wallet' = wallet
  BY DEF LInv, StopDone, chainVars
<1>. QED BY <1>1, SameTokens, ForgottenBalance

LEMMA CrashBalance ==
    ASSUME LInv, IInv', NEW z \in Mints, Alone(z), Balanced(z), Crash
    PROVE  Balanced(z)'
<1>1. MemoryLost /\ IInv /\ Alive
  BY DEF Crash, LInv
<1>2. CASE entering.step = "SENT" /\ \E fate : Fate(entering.lot, fate)
  <2>1. PICK l : l = entering.lot
    OBVIOUS
  <2>2. l \in Lots /\ CallInv(l)
    BY <1>2, <2>1 DEF LInv, Called, Calling, CallInv
  <2>3. PICK fate : Fate(l, fate)
    BY <1>2, <2>1
  <2>4. lot[l].status \in Active /\ buyTx[l] # "LANDED"
    BY <1>2, <2>2 DEF CallInv, Active
  <2>5. CASE lot[l].mint = z
    <3>1. \A k \in Lots : /\ lot'[k].mint = lot[k].mint /\ lot'[k].amt = lot[k].amt /\ (lot'[k].sig <=> lot[k].sig)
                          /\ lot'[k].status = lot[k].status
      BY <1>1, ForgottenRow
    <3>2. lot'[l].status \in Active
      BY <2>2, <2>4, <3>1
    <3>. QED BY <1>1, <2>2, <2>3, <2>4, <2>5, <3>1, <3>2, FateBalance
  <2>6. CASE lot[l].mint # z
    <3>1. \A k \in Lots : k # l => buyTx'[k] = buyTx[k]
      BY <1>1, <2>2, <2>3, FateOf
    <3>2. PICK n \in Mints : n = lot[l].mint
      BY <1>1, <2>2, Amounts
    <3>3. wallet'[z] = wallet[z]
      BY <1>1, <2>2, <2>3, <2>6, <3>2, FateWallet
    <3>4. wallet'[z] <= wallet[z]
      BY <1>1, <2>2, <3>3, CapType
    <3>. QED BY <1>1, <2>6, <3>1, <3>4, ForgottenBalance
  <2>. QED BY <2>5, <2>6
<1>3. ASSUME NEW m \in Mints, exitQ[m] # <<>>, SaleFate(Head1(m).lot, seller[m].want) PROVE Balanced(z)'
  <2>1. PICK h \in Lots : h = Head1(m).lot
    BY <1>1, <1>3, RunningType
  <2>2. PICK q \in Nat : q = seller[m].want
    BY <1>1, <1>3, RunningType
  <2>3. SaleFate(h, q)
    BY <1>3, <2>1, <2>2
  <2>. QED BY <1>1, <2>3, SaleFateWallet, ForgottenBalance
<1>4. CASE UNCHANGED chainVars
  <2>1. buyTx' = buyTx /\ wallet' = wallet
    BY <1>4 DEF chainVars
  <2>. QED BY <1>1, <2>1, SameTokens, ForgottenBalance
<1>. QED BY <1>2, <1>3, <1>4 DEF Crash

LEMMA StartBalance == ASSUME LInv, IInv', NEW z \in Mints, Balanced(z), Start PROVE Balanced(z)'
<1>1. /\ IInv /\ buyTx' = buyTx /\ wallet' = wallet
      /\ lot' = [l \in Lots |-> IF l \in ActiveRows THEN Restored(l) ELSE lot[l]]
  BY DEF LInv, Start, chainVars
<1>2. ASSUME NEW k \in Lots PROVE Keeps(k)
  <2>1. CASE k \notin ActiveRows
    BY <1>1, <2>1, KeepsSame
  <2>2. CASE k \in ActiveRows
    <3>1. lot[k] \in LotRecord /\ lot'[k] = Restored(k) /\ lot[k].status \in Active
      BY <1>1, <2>2, Amounts DEF ActiveRows
    <3>2. /\ lot'[k].mint = lot[k].mint /\ lot'[k].amt = lot[k].amt /\ lot'[k].sig = lot[k].sig
          /\ lot'[k].status \in {lot[k].status, "EXITING"}
      BY <3>1 DEF Restored, LotRecord
    <3>. QED BY <1>1, <3>1, <3>2 DEF Keeps, Active
  <2>. QED BY <2>1, <2>2
<1>. QED BY <1>1, <1>2, SameTokens, KeepsAll

LEMMA InitBalance == ASSUME Init, NEW z \in Mints PROVE Balanced(z)
<1>1. \A l \in Lots : lot[l].amt = 0
  BY DEF Init, NoRow
<1>2. wallet[z] = 0
  BY DEF Init
<1>. QED BY <1>1, <1>2 DEF Covered, Balanced

\* Every step keeps it of a mint whose active lot was alone.
LEMMA NextBalance ==
    ASSUME LInv, NEW z \in Mints, Alone(z), Balanced(z), [Next]_vars
    PROVE  Balanced(z)'
<1>1. IInv' /\ IInv
  BY NextInv DEF LInv
<1>2. ASSUME NEW l \in Lots, LotStep(l) PROVE Balanced(z)'
  <2>1. CASE Entering(l)
    BY <1>1, <2>1, EnterBalance DEF Entering
  <2>2. CASE ~Entering(l) /\ lot[l].mint # z
    BY <1>1, <1>2, <2>2, Elsewhere
  <2>3. CASE lot[l].mint = z
    <3>1. CASE EntryStep(l)
      BY <1>1, <2>3, <3>1, EntryFailuresBalance, EntryMovesBalance, BuyReceivedBalance, EntryUnknownBalance DEF EntryStep
    <3>2. CASE RecoveryStep(l)
      BY <1>1, <2>3, <3>2, RecoveryConfirmsBalance, RecoveryFailsBalance, RecoveryGoesBalance DEF RecoveryStep
    <3>3. CASE TimerStep(l)
      BY <1>1, <3>3, AskingBalance, QuietBalance DEF TimerStep
    <3>4. CASE \E reason \in {"NORMAL", "TAKE_PROFIT"} : PriceExit(l, reason)
      BY <1>1, <3>4, AskingBalance
    <3>5. CASE FlyingBuyEnds(l)
      BY <1>1, <2>3, <3>5, FlyingBuyBalance
    <3>6. CASE RequestCoreExit(l) \/ FlyingSaleEnds(l) \/ Age(l)
      BY <1>1, <3>6, QuietBalance
    <3>. QED BY <1>2, <2>1, <3>1, <3>2, <3>3, <3>4, <3>5, <3>6 DEF LotStep, Entering
  <2>. QED BY <2>1, <2>2, <2>3
<1>3. ASSUME NEW m \in Mints, MintStep(m) PROVE Balanced(z)'
  <2>1. CASE Graduate(m) \/ RecheckLock(m) \/ SoldByHand(m) \/ Sell(m)
    BY <1>1, <2>1, QuietBalance
  <2>2. CASE ExitStep(m) /\ ~Sell(m) /\ m = z
    BY <1>1, <2>2, SaleBalance, BackBalance, CoreBalance DEF ExitStep
  <2>3. CASE m # z
    <3>1. buyTx' = buyTx /\ wallet'[z] <= wallet[z]
      BY <1>3, HeadRow
    <3>2. \A k \in Lots : lot[k].mint = z \/ lot'[k].mint = z => lot'[k] = lot[k]
      <4>1. CASE lot' = lot
        BY <4>1
      <4>2. ASSUME NEW h \in Lots, lot[h].mint = m, Alike(h), \A k \in Lots : k # h => lot'[k] = lot[k]
            PROVE  \A k \in Lots : lot[k].mint = z \/ lot'[k].mint = z => lot'[k] = lot[k]
        BY <2>3, <4>2 DEF Alike
      <4>. QED BY <1>3, <4>1, <4>2, HeadRow
    <3>. QED BY <1>1, <3>1, <3>2, KeepsSame, KeepsMint
  <2>. QED BY <1>3, <2>1, <2>2, <2>3 DEF MintStep
<1>4. CASE Stop \/ StopDone \/ Crash \/ Start
  BY <1>1, <1>4, QuietBalance, StopDoneBalance, CrashBalance, StartBalance
<1>5. CASE UNCHANGED vars
  <2>1. lot' = lot /\ buyTx' = buyTx /\ wallet' = wallet
    BY <1>5 DEF vars, storeVars, chainVars
  <2>. QED BY <1>1, <2>1, SameTokens, StillBalance
<1>. QED BY <1>2, <1>3, <1>4, <1>5 DEF Next

\* As long as a mint never has two active lots, or one that listens to graduation,
\* what the wallet holds of it is covered by the amount of its one active lot,
\* unless a buy landed whose signature was never learnt: no entry, recovery, sale,
\* crash or restart leaves more tokens behind than the lot that must sell them
\* accounts for, whatever the lots of other mints do (_enter, _recoverUnknownEntry,
\* _exit, _takeGraduationCore, start).
THEOREM TokensAreBalanced ==
    ASSUME NEW S \in SUBSET Mints
    PROVE  Spec /\ [](\A m \in S : Alone(m)) => [](\A m \in S : Balanced(m))
<1>1. Init => \A m \in S : Balanced(m)
  BY InitBalance
<1>2. LInv /\ (\A m \in S : Alone(m)) /\ (\A m \in S : Balanced(m)) /\ [Next]_vars => (\A m \in S : Balanced(m))'
  <2>. SUFFICES ASSUME LInv, \A m \in S : Alone(m), \A m \in S : Balanced(m), [Next]_vars, NEW m \in S
                PROVE  Balanced(m)'
    OBVIOUS
  <2>. QED BY NextBalance
<1>. QED BY <1>1, <1>2, LotsInvariant, PTL DEF Spec

LEMMA BalanceExplains == ASSUME NEW m \in Mints, Balanced(m), wallet[m] > 0 PROVE \E l \in Lots : Explains(l, m)
<1>1. CASE Leaked(m)
  BY <1>1 DEF Leaked, LeakedBy, Explains
<1>2. CASE Covered(m)
  BY <1>2 DEF Covered, Covers, Explains, Active
<1>. QED BY <1>1, <1>2 DEF Balanced

\* As long as no mint has two active lots at a time, or one that listens to
\* graduation, every token in the wallet belongs to a lot the store holds active or
\* to a buy whose signature was never learnt, and no entry is given up while it may
\* still bring tokens (_enter, _recoverUnknownEntry, _exit, start).
THEOREM EveryTokenIsExplained == Spec /\ [](\A m \in Mints : Alone(m)) => []WalletIsExplained
<1>1. (\A m \in Mints : Balanced(m)) => NoOrphanTokens
  BY BalanceExplains DEF NoOrphanTokens
<1>2. Mints \in SUBSET Mints
  OBVIOUS
<1>3. Spec /\ [](\A m \in Mints : Alone(m)) => [](\A m \in Mints : Balanced(m))
  BY <1>2, TokensAreBalanced
<1>. QED BY <1>1, <1>3, ReleasedEntriesBoughtNothing, PTL DEF WalletIsExplained

-----------------------------------------------------------------------------
(* Where the configuration keeps the lots apart *)

Exclusive == "GRAD" \notin ExitModes /\ MaxPerMint = 1

OneEach == \A k, l \in ActiveRows : lot[k].mint = lot[l].mint => k = l

\* Only an entry adds an active row, and it finds none of its mint.
LEMMA NextOneEach == ASSUME Exclusive, LInv, OneEach, [Next]_vars PROVE OneEach'
<1>1. ASSUME NEW k \in Lots PROVE ~Grad(k) /\ MemInv(k)
  BY NotGrad DEF Exclusive
<1>2. ASSUME NEW k \in Lots, k \in ActiveRows', ~Entering(k)
      PROVE  k \in ActiveRows /\ lot'[k].mint = lot[k].mint
  BY <1>1, <1>2, EndedStay, RowsAlike DEF ActiveRows, Stays, Alike
<1>3. ASSUME NEW l \in Lots, Entering(l), NEW k \in ActiveRows
      PROVE  lot[k].mint # lot'[l].mint /\ k # l
  <2>1. PICK n \in Mints, mode \in ExitModes : Enter(l, n, mode)
    BY <1>3 DEF Entering
  <2>2. /\ run = "UP" /\ lot[l].status = "NONE" /\ Cardinality(PositionsOf(n)) < 1
        /\ lot' = [lot EXCEPT ![l] = [NoRow EXCEPT !.mint = n, !.mode = mode, !.status = "OPENING"]]
    BY <2>1 DEF Enter, Exclusive
  <2>3. lot'[l].mint = n
    BY <2>2 DEF NoRow, LInv, IInv, StoreOK
  <2>4. PositionsOf(n) = {}
    <3>1. IsFiniteSet(Lots)
      BY FS_Interval, LiveAssumption DEF Lots
    <3>2. PositionsOf(n) \subseteq Lots
      BY DEF PositionsOf, LInv, IInv, MemOK
    <3>3. IsFiniteSet(PositionsOf(n))
      BY <3>1, <3>2, FS_Subset
    <3>4. Cardinality(PositionsOf(n)) = 0
      BY <2>2, <3>3, FS_CardinalityType
    <3>. QED BY <3>3, <3>4, FS_EmptySet
  <2>5. k \in Lots /\ lot[k].status \in Active
    BY DEF ActiveRows
  <2>6. k \in positions
    BY <1>1, <2>2, <2>5 DEF MemInv, Alive
  <2>. QED BY <2>2, <2>3, <2>4, <2>5, <2>6 DEF PositionsOf, Active
<1>4. ASSUME NEW k \in Lots, NEW l \in Lots, Entering(k), Entering(l) PROVE k = l
  <2>1. positions' = positions \cup {k} /\ positions' = positions \cup {l}
    BY <1>4 DEF Entering, Enter
  <2>2. k \notin positions /\ l \notin positions
    BY <1>4, <1>1 DEF Entering, Enter, MemInv, Alive, Active
  <2>. QED BY <2>1, <2>2
<1>5. ActiveRows' \subseteq Lots
  BY DEF ActiveRows
<1>. QED BY <1>2, <1>3, <1>4, <1>5 DEF OneEach

\* With one position per mint and no GRAD strategies every token in the wallet is
\* explained, from the configuration alone (config.maxConcurrentPositionsPerMint).
THEOREM ExclusiveLotsAreExplained ==
    ASSUME Exclusive
    PROVE  Spec => []WalletIsExplained
<1>1. Init => OneEach
  BY DEF Init, NoRow, OneEach, ActiveRows, Active
<1>2. LInv /\ OneEach /\ [Next]_vars => OneEach'
  BY NextOneEach
<1>3. LInv /\ OneEach => \A m \in Mints : Alone(m)
  <2>. SUFFICES ASSUME LInv, OneEach, NEW m \in Mints PROVE Alone(m)
    OBVIOUS
  <2>1. \A l \in Lots : ~Grad(l)
    BY NotGrad DEF Exclusive
  <2>. QED BY <2>1 DEF Alone, OneEach
<1>. QED BY <1>1, <1>2, <1>3, LotsInvariant, EveryTokenIsExplained, PTL DEF Spec
=============================================================================
