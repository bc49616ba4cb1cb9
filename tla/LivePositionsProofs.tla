------------------------- MODULE LivePositionsProofs -------------------------
(***************************************************************************)
(* Proofs about LivePositions for every value of its constants.             *)
(***************************************************************************)
EXTENDS LivePositions, SequenceTheorems, TLAPS

-----------------------------------------------------------------------------
(* The inductive invariant: the types; that a recovery which waits for its      *)
(* delay has an attempt left (RecoveryRetries counts one up); and that an entry *)
(* being sent names its lot (a crash then decides the fate of that lot's buy).  *)

TriesLeft == \A l \in Lots : recov[l].phase = "DELAY" => recov[l].tries < ReconcileCount

ProcOK  == run \in {"DOWN", "UP", "STOPPING"} /\ stops \in 0..MaxStops
StoreOK == lot \in [Lots -> LotRecord] /\ locked \subseteq Mints /\ graduated \subseteq Mints
MemOK   == /\ positions \subseteq Lots
           /\ timers \in [Lots -> TimerRecord]
           /\ corePending \subseteq Lots
EntryOK == entering \in EntryRecord /\ (entering.lot = NoLot => entering.step # "SENT")
RecovOK == recov \in [Lots -> RecovRecord] /\ TriesLeft
ExitOK  == exitQ \in [Mints -> Seq(Task)] /\ seller \in [Mints -> SellerRecord]
ChainOK == /\ wallet \in [Mints -> Nat]
           /\ buyTx \in [Lots -> BuyFates]
           /\ sellTx \in [Lots -> Nat]
           /\ net \in [Lots -> Int]

IInv == ProcOK /\ StoreOK /\ MemOK /\ EntryOK /\ RecovOK /\ ExitOK /\ ChainOK

LEMMA IInvType == IInv => TypeOK
BY DEF IInv, ProcOK, StoreOK, MemOK, EntryOK, RecovOK, ExitOK, ChainOK, TypeOK

-----------------------------------------------------------------------------
(* Values and helpers *)

LEMMA NoRowType == NoRow \in LotRecord
<1>1. (CHOOSE m \in Mints : TRUE) \in Mints
  BY LiveAssumption
<1>2. QED
  BY <1>1 DEF NoRow, LotRecord, AllModes, Statuses

LEMMA ClearedType ==
  ASSUME NEW t \in TimerRecord
  PROVE  Cleared(t) \in TimerRecord
BY DEF Cleared, TimerRecord, TimerKinds

LEMMA ScheduledType ==
  ASSUME NEW t \in TimerRecord, NEW k \in TimerKinds
  PROVE  Scheduled(t, k) \in TimerRecord
BY DEF Scheduled, TimerRecord, TimerKinds

LEMMA ArmedType ==
  ASSUME NEW t \in TimerRecord, NEW k \in TimerKinds
  PROVE  Armed(t, k) \in TimerRecord
BY ClearedType, ScheduledType DEF Armed

LEMMA FiredType ==
  ASSUME NEW t \in TimerRecord, NEW k \in TimerKinds, t.live[k] > 0
  PROVE  Fired(t, k) \in TimerRecord
BY DEF Fired, TimerRecord, TimerKinds

OrderKinds == {"SELL", "PARTIAL"}

LEMMA OpenedType ==
  ASSUME NEW p \in LotRecord, NEW sig \in BOOLEAN, NEW a \in Nat
  PROVE  Opened(p, sig, a) \in LotRecord
BY DEF Opened, LotRecord, Statuses

LEMMA FailedType ==
  ASSUME NEW p \in LotRecord, NEW sig \in BOOLEAN
  PROVE  Failed(p, sig) \in LotRecord
BY DEF Failed, LotRecord, Statuses

LEMMA UnsettledType ==
  ASSUME NEW p \in LotRecord, NEW sig \in BOOLEAN, NEW expired \in BOOLEAN
  PROVE  Unsettled(p, sig, expired) \in LotRecord
BY DEF Unsettled, LotRecord, Statuses

LEMMA ExitingType ==
  ASSUME NEW p \in LotRecord
  PROVE  Exiting(p) \in LotRecord
BY DEF Exiting, LotRecord, Statuses

LEMMA OrdersType ==
  ASSUME NEW p \in LotRecord, NEW kinds \in SUBSET OrderKinds
  PROVE  p.orders \cup kinds \in SUBSET OrderKinds
BY DEF LotRecord, OrderKinds

LEMMA OrderedType ==
  ASSUME NEW p \in LotRecord, NEW kinds \in SUBSET OrderKinds
  PROVE  Ordered(p, kinds) \in LotRecord
BY OrdersType DEF Ordered, LotRecord, OrderKinds

LEMMA EndedType ==
  ASSUME NEW p \in LotRecord, NEW kinds \in SUBSET OrderKinds, NEW s \in Statuses
  PROVE  Ended(p, kinds, s) \in LotRecord
BY OrdersType DEF Ended, LotRecord, OrderKinds

LEMMA CoreSoldType ==
  ASSUME NEW p \in LotRecord, NEW q \in Nat, p.amt > q
  PROVE  CoreSold(p, q) \in LotRecord
<1>1. p.amt - q \in Nat
  BY DEF LotRecord
<1>2. p.orders \cup {"SELL", "PARTIAL"} \in SUBSET OrderKinds
  BY OrdersType DEF OrderKinds
<1>3. QED
  BY <1>1, <1>2 DEF CoreSold, LotRecord, OrderKinds

LEMMA EnqueuedType ==
  ASSUME TypeOK, NEW l \in Lots, NEW k \in TaskKinds
  PROVE  Enqueued(l, k) \in [Mints -> Seq(Task)]
<1>1. [lot |-> l, kind |-> k] \in Task
  BY DEF Task
<1>2. \A m \in Mints : Append(exitQ[m], [lot |-> l, kind |-> k]) \in Seq(Task)
  BY <1>1, AppendProperties DEF TypeOK
<1>3. QED
  BY <1>2 DEF Enqueued, TypeOK

LEMMA HeadType ==
  ASSUME TypeOK, NEW m \in Mints, exitQ[m] # <<>>
  PROVE  /\ Head1(m) \in Task
         /\ Tail(exitQ[m]) \in Seq(Task)
BY HeadTailProperties DEF Head1, TypeOK

LEMMA NoneTypes ==
  /\ NoTimer \in TimerRecord
  /\ NoEntry \in EntryRecord /\ NoEntry.step = "IDLE"
  /\ NoRecov \in RecovRecord
  /\ NoSale \in SellerRecord
BY LiveAssumption DEF NoTimer, TimerRecord, TimerKinds, NoEntry, EntryRecord, NoRecov,
                      RecovRecord, NoSale, SellerRecord

LEMMA AttemptType ==
  ASSUME NEW l \in Lots, NEW n \in 0..ReconcileCount, NEW e \in BOOLEAN
  PROVE  /\ Attempt(l, n, e) \in RecovRecord
         /\ Attempt(l, n, e).phase = "WAIT"
         /\ Unasked(e) \in RecovRecord
BY NoneTypes DEF Attempt, RecovRecord, Unasked, NoRecov

LEMMA EntryDoneType ==
  ASSUME EntryOK, NEW l \in Lots, entering' = EntryDone(l)
  PROVE  EntryOK'
BY NoneTypes DEF EntryDone, EntryOK

LEMMA RequestExitType ==
  ASSUME TypeOK, NEW l \in Lots, NEW reason \in ExitReasons,
         NEW L \in [Lots -> LotRecord], NEW T \in [Lots -> TimerRecord],
         RequestExit(l, reason, L, T)
  PROVE  /\ lot' \in [Lots -> LotRecord]
         /\ timers' \in [Lots -> TimerRecord]
         /\ exitQ' \in [Mints -> Seq(Task)]
<1>1. Scheduled(T[l], "DEFER") \in TimerRecord
  BY ScheduledType DEF TimerKinds
<1>2. Exiting(L[l]) \in LotRecord
  BY ExitingType
<1>3. Enqueued(l, reason) \in [Mints -> Seq(Task)]
  BY EnqueuedType DEF TaskKinds
<1>4. QED
  BY <1>1, <1>2, <1>3 DEF RequestExit, TypeOK

LEMMA MintType ==
  ASSUME IInv, NEW l \in Lots
  PROVE  lot[l].mint \in Mints /\ lot[l] \in LotRecord
BY DEF IInv, StoreOK, LotRecord

-----------------------------------------------------------------------------
(* The chain *)

LEMMA LandedType ==
  ASSUME IInv, NEW l \in Lots, Landed(l)
  PROVE  ChainOK'
<1>1. wallet' \in [Mints -> Nat]
  BY MintType, LiveAssumption DEF Landed, IInv, ChainOK
<1>2. buyTx' \in [Lots -> BuyFates]
  BY DEF Landed, IInv, ChainOK, BuyFates
<1>3. net' \in [Lots -> Int]
  BY LiveAssumption DEF Landed, IInv, ChainOK
<1>4. QED
  BY <1>1, <1>2, <1>3 DEF Landed, IInv, ChainOK

LEMMA FateType ==
  ASSUME IInv, NEW l \in Lots, NEW fate \in BuyFates, Fate(l, fate)
  PROVE  ChainOK'
<1>1. CASE Landed(l)
  BY <1>1, LandedType
<1>2. CASE ~Landed(l)
  BY <1>2 DEF Fate, IInv, ChainOK
<1>3. QED
  BY <1>1, <1>2

LEMMA SoldType ==
  ASSUME IInv, NEW l \in Lots, NEW q \in Nat, Sold(l, q)
  PROVE  wallet' \in [Mints -> Nat] /\ net' \in [Lots -> Int]
<1>1. lot[l].mint \in Mints
  BY MintType
<1>2. wallet[lot[l].mint] - q \in Nat
  BY <1>1 DEF Sold, IInv, ChainOK
<1>3. net[l] - q \in Int
  BY DEF IInv, ChainOK
<1>4. QED
  BY <1>1, <1>2, <1>3 DEF Sold, IInv, ChainOK

LEMMA SaleFateType ==
  ASSUME IInv, NEW l \in Lots, NEW q \in Nat, SaleFate(l, q)
  PROVE  ChainOK'
<1>1. CASE Sold(l, q) /\ UNCHANGED <<buyTx, sellTx>>
  BY <1>1, SoldType DEF IInv, ChainOK
<1>2. CASE UNCHANGED <<wallet, buyTx, net>> /\ sellTx' = [sellTx EXCEPT ![l] = q]
  BY <1>2 DEF IInv, ChainOK
<1>3. CASE UNCHANGED chainVars
  BY <1>3 DEF IInv, ChainOK, chainVars
<1>4. QED
  BY <1>1, <1>2, <1>3 DEF SaleFate

-----------------------------------------------------------------------------
(* Entry *)

LEMMA EnterInv ==
  ASSUME IInv, NEW l \in Lots, NEW m \in Mints, NEW mode \in ExitModes, Enter(l, m, mode)
  PROVE  IInv'
<1>1. [NoRow EXCEPT !.mint = m, !.mode = mode, !.status = "OPENING"] \in LotRecord
  BY NoRowType, LiveAssumption DEF LotRecord, Statuses
<1>2. StoreOK'
  BY <1>1 DEF Enter, IInv, StoreOK
<1>3. MemOK' /\ EntryOK'
  BY LiveAssumption DEF Enter, IInv, MemOK, EntryOK, EntryRecord
<1>4. ProcOK' /\ RecovOK' /\ ExitOK' /\ ChainOK'
  BY DEF Enter, IInv, ProcOK, RecovOK, TriesLeft, ExitOK, ChainOK, procVars, chainVars
<1>5. QED
  BY <1>2, <1>3, <1>4 DEF IInv

LEMMA EntryFailsInv ==
  ASSUME IInv, NEW l \in Lots, NEW sig \in BOOLEAN, EntryFails(l, sig),
         locked' \subseteq Mints, ChainOK'
  PROVE  IInv'
<1>1. StoreOK'
  BY FailedType, MintType DEF EntryFails, IInv, StoreOK
<1>2. MemOK' /\ EntryOK'
  BY NoneTypes DEF EntryFails, IInv, MemOK, EntryOK
<1>3. ProcOK' /\ RecovOK' /\ ExitOK'
  BY DEF EntryFails, IInv, ProcOK, RecovOK, TriesLeft, ExitOK, procVars
<1>4. QED
  BY <1>1, <1>2, <1>3 DEF IInv

LEMMA RecoveryEndsType ==
  ASSUME IInv, NEW l \in Lots, NEW L \in [Lots -> LotRecord], NEW r \in RecovRecord,
         RecoveryEnds(l, L, r)
  PROVE  /\ lot' \in [Lots -> LotRecord]
         /\ positions' \subseteq Lots
         /\ timers' \in [Lots -> TimerRecord]
         /\ EntryOK' /\ RecovOK'
<1>1. r.expired \in BOOLEAN /\ L[l] \in LotRecord /\ L[l].sig \in BOOLEAN
  BY DEF RecovRecord, LotRecord
<1>2. Failed(L[l], TRUE) \in LotRecord /\ Unsettled(L[l], L[l].sig, r.expired) \in LotRecord
  BY <1>1, FailedType, UnsettledType
<1>3. lot' \in [Lots -> LotRecord]
  BY <1>2 DEF RecoveryEnds
<1>4. positions' \subseteq Lots
  BY DEF RecoveryEnds, IInv, MemOK
<1>5. Armed(timers[l], "RECOVER") \in TimerRecord
  BY ArmedType DEF IInv, MemOK, TimerKinds
<1>6. timers' \in [Lots -> TimerRecord]
  BY <1>5 DEF RecoveryEnds, IInv, MemOK
<1>7. EntryOK' /\ RecovOK'
  BY NoneTypes, EntryDoneType, IInvType DEF RecoveryEnds, IInv, EntryOK, RecovOK, TriesLeft, NoRecov
<1>8. QED
  BY <1>3, <1>4, <1>6, <1>7

LEMMA EntryUnknownInv ==
  ASSUME IInv, NEW l \in Lots, NEW expired \in BOOLEAN, EntryUnknown(l, expired), ChainOK'
  PROVE  IInv'
<1> DEFINE L == [lot EXCEPT ![l] = Unsettled(@, TRUE, expired)]
<1>1. L \in [Lots -> LotRecord]
  BY UnsettledType, MintType DEF IInv, StoreOK
<1>2. CASE run = "UP" /\ lot' = L /\ recov' = [recov EXCEPT ![l] = Attempt(l, 1, expired)]
           /\ entering' = [entering EXCEPT !.step = "RECOVER"] /\ UNCHANGED <<positions, timers>>
  <2>1. Attempt(l, 1, expired) \in RecovRecord /\ Attempt(l, 1, expired).phase = "WAIT"
    BY AttemptType, LiveAssumption
  <2>2. RecovOK'
    BY <1>2, <2>1 DEF IInv, RecovOK, TriesLeft
  <2>3. StoreOK' /\ MemOK' /\ EntryOK'
    BY <1>1, <1>2 DEF EntryUnknown, IInv, StoreOK, MemOK, EntryOK, EntryRecord
  <2>4. ProcOK' /\ ExitOK'
    BY DEF EntryUnknown, IInv, ProcOK, ExitOK, procVars
  <2>5. QED
    BY <2>2, <2>3, <2>4 DEF IInv
<1>3. CASE RecoveryEnds(l, L, Unasked(expired))
  <2>1. Unasked(expired) \in RecovRecord
    BY AttemptType, LiveAssumption
  <2>2. lot' \in [Lots -> LotRecord] /\ positions' \subseteq Lots
        /\ timers' \in [Lots -> TimerRecord] /\ EntryOK' /\ RecovOK'
    BY <1>1, <1>3, <2>1, RecoveryEndsType
  <2>3. ProcOK' /\ StoreOK' /\ MemOK' /\ ExitOK'
    BY <2>2 DEF EntryUnknown, IInv, ProcOK, StoreOK, MemOK, ExitOK, procVars
  <2>4. QED
    BY <2>2, <2>3 DEF IInv
<1>4. QED
  BY <1>2, <1>3 DEF EntryUnknown

LEMMA EntryStepInv ==
  ASSUME IInv, NEW l \in Lots, EntryStep(l)
  PROVE  IInv'
<1>1. CASE WalletHolds(l)
  <2>1. locked' \subseteq Mints /\ ChainOK'
    BY <1>1, MintType DEF WalletHolds, IInv, StoreOK, ChainOK, chainVars
  <2>2. QED
    BY <1>1, <2>1, EntryFailsInv DEF WalletHolds
<1>2. CASE EntryRejected(l)
  <2>1. locked' \subseteq Mints /\ ChainOK'
    BY <1>2 DEF EntryRejected, IInv, StoreOK, ChainOK, chainVars
  <2>2. QED
    BY <1>2, <2>1, EntryFailsInv DEF EntryRejected
<1>3. CASE SendBuy(l)
  <2>1. EntryOK'
    BY <1>3 DEF SendBuy, IInv, EntryOK, EntryRecord, Lots, NoLot
  <2>2. QED
    BY <1>3, <2>1 DEF SendBuy, IInv, ProcOK, StoreOK, MemOK, RecovOK, TriesLeft, ExitOK,
                      ChainOK, procVars, storeVars, memVars, chainVars
<1>4. CASE BuyConfirmed(l)
  <2>1. EntryOK' /\ ChainOK'
    BY <1>4, LandedType DEF BuyConfirmed, IInv, EntryOK, EntryRecord
  <2>2. QED
    BY <1>4, <2>1 DEF BuyConfirmed, IInv, ProcOK, StoreOK, MemOK, RecovOK, TriesLeft,
                      ExitOK, procVars, storeVars, memVars
<1>5. CASE BuyErred(l)
  <2>1. ChainOK'
    BY <1>5, FateType DEF BuyErred, BuyFates
  <2>2. locked' \subseteq Mints
    BY <1>5 DEF BuyErred, IInv, StoreOK
  <2>3. QED
    BY <1>5, <2>1, <2>2, EntryFailsInv DEF BuyErred
<1>6. CASE RefreshQuote(l)
  <2>1. entering.tries + 1 \in 0..QuoteRefreshes
    BY <1>6, LiveAssumption DEF RefreshQuote, IInv, EntryOK, EntryRecord
  <2>2. EntryOK'
    BY <1>6, <2>1 DEF RefreshQuote, IInv, EntryOK, EntryRecord
  <2>3. QED
    BY <1>6, <2>2 DEF RefreshQuote, IInv, ProcOK, StoreOK, MemOK, RecovOK, TriesLeft, ExitOK,
                      ChainOK, procVars, storeVars, memVars, chainVars
<1>7. CASE SendThrows(l)
  <2>1. PICK fate \in {"DROPPED", "FLYING", "LANDED"} : Fate(l, fate)
    BY <1>7 DEF SendThrows
  <2>2. ChainOK'
    BY <2>1, FateType DEF BuyFates
  <2>3. locked' \subseteq Mints
    BY <1>7 DEF SendThrows, IInv, StoreOK
  <2>4. QED
    BY <1>7, <2>2, <2>3, EntryFailsInv DEF SendThrows
<1>8. CASE BuyTimesOut(l)
  <2>1. PICK fate \in {"DROPPED", "FLYING", "LANDED"}, expired \in BOOLEAN :
            Fate(l, fate) /\ EntryUnknown(l, expired)
    BY <1>8 DEF BuyTimesOut
  <2>2. ChainOK'
    BY <2>1, FateType DEF BuyFates
  <2>3. QED
    BY <2>1, <2>2, EntryUnknownInv
<1>9. CASE BuyReceived(l)
  <2> DEFINE received == IF entering.allow \/ wallet[lot[l].mint] = 0 THEN LotAmount
                                                                    ELSE wallet[lot[l].mint]
  <2>1. received \in Nat
    BY MintType, LiveAssumption DEF IInv, ChainOK
  <2>2. Opened(lot[l], TRUE, received) \in LotRecord
    BY <2>1, MintType, OpenedType
  <2>3. StoreOK'
    BY <1>9, <2>2 DEF BuyReceived, IInv, StoreOK
  <2>4. \A k \in Lots : Armed(timers[k], "HOLD") \in TimerRecord
    BY ArmedType DEF IInv, MemOK, TimerKinds
  <2>5. MemOK'
    BY <1>9, <2>4 DEF BuyReceived, IInv, MemOK
  <2>6. EntryOK'
    BY <1>9, NoneTypes DEF BuyReceived, EntryOK
  <2>7. ProcOK' /\ RecovOK' /\ ExitOK' /\ ChainOK'
    BY <1>9 DEF BuyReceived, IInv, ProcOK, RecovOK, TriesLeft, ExitOK, ChainOK, procVars, chainVars
  <2>8. QED
    BY <2>3, <2>5, <2>6, <2>7 DEF IInv
<1>10. CASE BuyUnseen(l)
  <2>1. ChainOK'
    BY <1>10 DEF BuyUnseen, IInv, ChainOK, chainVars
  <2>2. QED
    BY <1>10, <2>1, EntryUnknownInv DEF BuyUnseen
<1>11. CASE ReadThrows(l)
  <2>1. locked' \subseteq Mints /\ ChainOK'
    BY <1>11 DEF ReadThrows, IInv, StoreOK, ChainOK, chainVars
  <2>2. QED
    BY <1>11, <2>1, EntryFailsInv DEF ReadThrows
<1>12. QED
  BY <1>1, <1>2, <1>3, <1>4, <1>5, <1>6, <1>7, <1>8, <1>9, <1>10, <1>11 DEF EntryStep

-----------------------------------------------------------------------------
(* Recovery *)

LEMMA RecoveryEndsInv ==
  ASSUME IInv, NEW l \in Lots, NEW r \in RecovRecord, RecoveryEnds(l, lot, r),
         UNCHANGED <<procVars, locked, graduated, corePending, exitQ, seller, chainVars>>
  PROVE  IInv'
<1>1. lot' \in [Lots -> LotRecord] /\ positions' \subseteq Lots
      /\ timers' \in [Lots -> TimerRecord] /\ EntryOK' /\ RecovOK'
  BY RecoveryEndsType DEF IInv, StoreOK
<1>2. QED
  BY <1>1 DEF IInv, ProcOK, StoreOK, MemOK, ExitOK, ChainOK, procVars, chainVars

LEMMA RecoveryStepInv ==
  ASSUME IInv, NEW l \in Lots, RecoveryStep(l)
  PROVE  IInv'
<1>1. CASE RecoveryConfirms(l)
  <2>1. PICK amount \in {LotAmount, wallet[lot[l].mint]} :
            \/ RequestExit(l, "NORMAL", [lot EXCEPT ![l] = Opened(@, @.sig, amount)], timers)
            \/ /\ lot' = [lot EXCEPT ![l] = Opened(@, @.sig, amount)]
               /\ timers' = [timers EXCEPT ![l] = Armed(@, "HOLD")]
               /\ UNCHANGED exitQ
    BY <1>1 DEF RecoveryConfirms
  <2> DEFINE L == [lot EXCEPT ![l] = Opened(@, @.sig, amount)]
  <2>2. amount \in Nat
    BY MintType, LiveAssumption DEF IInv, ChainOK
  <2>3. Opened(lot[l], lot[l].sig, amount) \in LotRecord
    BY <2>2, MintType, OpenedType DEF LotRecord
  <2>4. L \in [Lots -> LotRecord]
    BY <2>3 DEF IInv, StoreOK
  <2>5. Armed(timers[l], "HOLD") \in TimerRecord
    BY ArmedType DEF IInv, MemOK, TimerKinds
  <2>6. /\ lot' \in [Lots -> LotRecord]
        /\ timers' \in [Lots -> TimerRecord]
        /\ exitQ' \in [Mints -> Seq(Task)]
    <3>1. CASE RequestExit(l, "NORMAL", L, timers)
      BY <3>1, <2>4, RequestExitType, IInvType DEF IInv, MemOK, ExitReasons
    <3>2. CASE lot' = L /\ timers' = [timers EXCEPT ![l] = Armed(@, "HOLD")] /\ UNCHANGED exitQ
      BY <3>2, <2>4, <2>5 DEF IInv, MemOK, ExitOK
    <3>3. QED
      BY <2>1, <3>1, <3>2
  <2>7. RecovOK' /\ EntryOK'
    BY <1>1, NoneTypes, EntryDoneType, IInvType
       DEF RecoveryConfirms, IInv, RecovOK, TriesLeft, NoRecov, EntryOK
  <2>8. QED
    BY <1>1, <2>6, <2>7 DEF RecoveryConfirms, IInv, ProcOK, StoreOK, MemOK, ExitOK, ChainOK,
                           procVars, chainVars
<1>2. CASE RecoveryFails(l)
  <2>1. StoreOK' /\ MemOK'
    BY <1>2, FailedType, MintType DEF RecoveryFails, IInv, StoreOK, MemOK
  <2>2. RecovOK' /\ EntryOK'
    BY <1>2, NoneTypes, EntryDoneType, IInvType
       DEF RecoveryFails, IInv, RecovOK, TriesLeft, NoRecov, EntryOK
  <2>3. QED
    BY <1>2, <2>1, <2>2 DEF RecoveryFails, IInv, ProcOK, ExitOK, ChainOK, procVars, chainVars
<1>3. CASE RecoveryUnsure(l)
  <2>1. PICK expired \in BOOLEAN, absent \in BOOLEAN :
          LET r == [recov[l] EXCEPT !.expired = expired, !.absent = absent]
          IN  \/ /\ r.tries < ReconcileCount
                 /\ recov' = [recov EXCEPT ![l] = [r EXCEPT !.phase = "DELAY"]]
                 /\ UNCHANGED <<lot, positions, timers, entering>>
              \/ RecoveryEnds(l, lot, r)
    BY <1>3 DEF RecoveryUnsure
  <2> DEFINE r == [recov[l] EXCEPT !.expired = expired, !.absent = absent]
             d == [r EXCEPT !.phase = "DELAY"]
  <2>2. r \in RecovRecord /\ d \in RecovRecord /\ d.tries = r.tries
    BY DEF IInv, RecovOK, RecovRecord
  <2>3. UNCHANGED <<procVars, locked, graduated, corePending, exitQ, seller, chainVars>>
    BY <1>3 DEF RecoveryUnsure
  <2>4. CASE r.tries < ReconcileCount /\ recov' = [recov EXCEPT ![l] = d]
             /\ UNCHANGED <<lot, positions, timers, entering>>
    <3>1. RecovOK'
      BY <2>2, <2>4 DEF IInv, RecovOK, TriesLeft
    <3>2. QED
      BY <2>3, <2>4, <3>1 DEF IInv, ProcOK, StoreOK, MemOK, EntryOK, ExitOK, ChainOK,
                              procVars, chainVars
  <2>5. CASE RecoveryEnds(l, lot, r)
    BY <2>2, <2>3, <2>5, RecoveryEndsInv
  <2>6. QED
    BY <2>1, <2>4, <2>5
<1>4. CASE RecoveryRetries(l)
  <2>1. UNCHANGED <<procVars, locked, graduated, corePending, exitQ, seller, chainVars>>
    BY <1>4 DEF RecoveryRetries
  <2>2. recov[l] \in RecovRecord /\ recov[l].tries + 1 \in 0..ReconcileCount
        /\ recov[l].expired \in BOOLEAN
    BY <1>4, LiveAssumption DEF RecoveryRetries, IInv, RecovOK, TriesLeft, RecovRecord
  <2> DEFINE r == Attempt(l, recov[l].tries + 1, recov[l].expired)
  <2>3. r \in RecovRecord /\ r.phase = "WAIT"
    BY <2>2, AttemptType
  <2>4. CASE recov' = [recov EXCEPT ![l] = r] /\ UNCHANGED <<lot, positions, timers, entering>>
    <3>1. RecovOK'
      BY <2>3, <2>4 DEF IInv, RecovOK, TriesLeft
    <3>2. QED
      BY <2>1, <2>4, <3>1 DEF IInv, ProcOK, StoreOK, MemOK, EntryOK, ExitOK, ChainOK,
                              procVars, chainVars
  <2>5. CASE RecoveryEnds(l, lot, recov[l])
    BY <2>1, <2>2, <2>5, RecoveryEndsInv
  <2>6. QED
    BY <1>4, <2>4, <2>5 DEF RecoveryRetries
<1>5. QED
  BY <1>1, <1>2, <1>3, <1>4 DEF RecoveryStep

-----------------------------------------------------------------------------
(* Timers, prices and graduation *)

LEMMA FiredUpdate ==
  ASSUME IInv, NEW l \in Lots, NEW k \in TimerKinds, timers[l].live[k] > 0
  PROVE  [timers EXCEPT ![l] = Fired(@, k)] \in [Lots -> TimerRecord]
<1>1. Fired(timers[l], k) \in TimerRecord
  BY FiredType DEF IInv, MemOK
<1>2. QED
  BY <1>1 DEF IInv, MemOK

LEMMA RequestExitInv ==
  ASSUME IInv, NEW l \in Lots, NEW reason \in ExitReasons,
         NEW T \in [Lots -> TimerRecord], RequestExit(l, reason, lot, T),
         UNCHANGED <<procVars, locked, graduated, positions, corePending, entering,
                     recov, seller, chainVars>>
  PROVE  IInv'
<1>1. /\ lot' \in [Lots -> LotRecord]
      /\ timers' \in [Lots -> TimerRecord]
      /\ exitQ' \in [Mints -> Seq(Task)]
  BY RequestExitType, IInvType DEF IInv, StoreOK
<1>2. QED
  BY <1>1 DEF IInv, ProcOK, StoreOK, MemOK, EntryOK, RecovOK, TriesLeft, ExitOK, ChainOK,
              procVars, chainVars

LEMMA TimerStepInv ==
  ASSUME IInv, NEW l \in Lots, TimerStep(l)
  PROVE  IInv'
<1>1. CASE HoldFires(l)
  <2>1. [timers EXCEPT ![l] = Fired(@, "HOLD")] \in [Lots -> TimerRecord]
    BY <1>1, FiredUpdate DEF HoldFires, TimerKinds
  <2>2. QED
    BY <1>1, <2>1, RequestExitInv DEF HoldFires, ExitReasons
<1>2. CASE DeferFires(l)
  <2>1. [timers EXCEPT ![l] = Fired(@, "DEFER")] \in [Lots -> TimerRecord]
    BY <1>2, FiredUpdate DEF DeferFires, TimerKinds
  <2>2. QED
    BY <1>2, <2>1, RequestExitInv DEF DeferFires, ExitReasons
<1>3. CASE RecoverFires(l)
  <2>1. timers' \in [Lots -> TimerRecord]
    BY <1>3, FiredUpdate DEF RecoverFires, TimerKinds
  <2>2. Attempt(l, 1, lot[l].expired) \in RecovRecord /\ Attempt(l, 1, lot[l].expired).phase = "WAIT"
    BY AttemptType, MintType, LiveAssumption DEF LotRecord
  <2>3. RecovOK'
    BY <1>3, <2>2 DEF RecoverFires, IInv, RecovOK, TriesLeft
  <2>4. QED
    BY <1>3, <2>1, <2>3 DEF RecoverFires, IInv, ProcOK, StoreOK, MemOK, EntryOK, ExitOK,
                            ChainOK, procVars, storeVars, chainVars
<1>4. QED
  BY <1>1, <1>2, <1>3 DEF TimerStep

LEMMA PriceExitInv ==
  ASSUME IInv, NEW l \in Lots, NEW reason \in {"NORMAL", "TAKE_PROFIT"}, PriceExit(l, reason)
  PROVE  IInv'
BY RequestExitInv DEF PriceExit, ExitReasons, IInv, MemOK

LEMMA RequestCoreExitInv ==
  ASSUME IInv, NEW l \in Lots, RequestCoreExit(l)
  PROVE  IInv'
<1>1. [lot[l] EXCEPT !.coreTried = TRUE] \in LotRecord
  BY MintType DEF LotRecord
<1>2. StoreOK'
  BY <1>1 DEF RequestCoreExit, IInv, StoreOK
<1>3. exitQ' \in [Mints -> Seq(Task)]
  BY EnqueuedType, IInvType DEF RequestCoreExit, TaskKinds
<1>4. QED
  BY <1>2, <1>3 DEF RequestCoreExit, IInv, ProcOK, MemOK, EntryOK, RecovOK, TriesLeft, ExitOK,
                    ChainOK, procVars, chainVars

LEMMA GraduateInv ==
  ASSUME IInv, NEW m \in Mints, Graduate(m)
  PROVE  IInv'
<1>1. \A k \in Lots : Armed(timers[k], "HOLD") \in TimerRecord
  BY ArmedType DEF IInv, MemOK, TimerKinds
<1>2. MemOK'
  BY <1>1 DEF Graduate, IInv, MemOK
<1>3. StoreOK'
  BY DEF Graduate, IInv, StoreOK
<1>4. QED
  BY <1>2, <1>3 DEF Graduate, IInv, ProcOK, EntryOK, RecovOK, TriesLeft, ExitOK, ChainOK,
                    procVars, taskVars, chainVars

-----------------------------------------------------------------------------
(* The exit queue of a mint *)

LEMMA RunningType ==
  ASSUME IInv, NEW m \in Mints, exitQ[m] # <<>>
  PROVE  /\ Head1(m) \in Task /\ Head1(m).lot \in Lots
         /\ lot[Head1(m).lot] \in LotRecord
         /\ seller[m].want \in Nat /\ seller[m].attempt \in 1..SellAttempts
<1>1. Head1(m) \in Task
  BY HeadType, IInvType
<1>2. QED
  BY <1>1, MintType DEF Task, IInv, ExitOK, SellerRecord

LEMMA TaskDoneType ==
  ASSUME IInv, NEW m \in Mints, exitQ[m] # <<>>, TaskDone(m)
  PROVE  ExitOK'
BY HeadType, IInvType, NoneTypes DEF TaskDone, IInv, ExitOK

LEMMA ExitAttemptOverType ==
  ASSUME IInv, NEW m \in Mints, exitQ[m] # <<>>, NEW kinds \in SUBSET OrderKinds,
         ExitAttemptOver(m, kinds)
  PROVE  lot' \in [Lots -> LotRecord] /\ ExitOK'
<1> DEFINE l == Head1(m).lot
<1>1. Ordered(lot[l], kinds) \in LotRecord /\ Ended(lot[l], kinds, "EXIT_FAILED") \in LotRecord
  BY RunningType, OrderedType, EndedType DEF Statuses
<1>2. CASE seller[m].attempt < SellAttempts
  <2>1. [NoSale EXCEPT !.attempt = seller[m].attempt + 1] \in SellerRecord
    <3>1. seller[m].attempt + 1 \in 1..SellAttempts
      BY <1>2, RunningType, LiveAssumption
    <3>2. QED
      BY <3>1, NoneTypes DEF SellerRecord, NoSale
  <2>2. /\ lot' = [lot EXCEPT ![l] = Ordered(@, kinds)]
        /\ seller' = [seller EXCEPT ![m] = [NoSale EXCEPT !.attempt = seller[m].attempt + 1]]
        /\ UNCHANGED exitQ
    BY <1>2, RunningType, LiveAssumption DEF ExitAttemptOver
  <2>3. QED
    BY <1>1, <2>1, <2>2 DEF IInv, StoreOK, ExitOK
<1>3. CASE seller[m].attempt >= SellAttempts
  <2>1. TaskDone(m) /\ lot' = [lot EXCEPT ![l] = Ended(@, kinds, "EXIT_FAILED")]
    BY <1>3, RunningType, LiveAssumption DEF ExitAttemptOver
  <2>2. QED
    BY <1>1, <2>1, TaskDoneType DEF IInv, StoreOK
<1>4. QED
  BY <1>2, <1>3 DEF ExitAttemptOver

LEMMA CloseLotType ==
  ASSUME IInv, NEW m \in Mints, exitQ[m] # <<>>, CloseLot(m, Head1(m).lot)
  PROVE  /\ lot' \in [Lots -> LotRecord] /\ positions' \subseteq Lots
         /\ timers' \in [Lots -> TimerRecord] /\ ExitOK'
<1> DEFINE l == Head1(m).lot
<1>1. Ended(lot[l], {"SELL"}, "CLOSED") \in LotRecord /\ l \in Lots
  BY RunningType, EndedType DEF OrderKinds, Statuses
<1>2. Cleared(timers[l]) \in TimerRecord
  BY <1>1, ClearedType DEF IInv, MemOK
<1>3. QED
  BY <1>1, <1>2, TaskDoneType DEF CloseLot, IInv, StoreOK, MemOK

\* An exit step is over once the lot, its memory, its queue and the chain are typed.
LEMMA ExitFrame ==
  ASSUME IInv, lot' \in [Lots -> LotRecord], MemOK', ExitOK', ChainOK',
         UNCHANGED <<procVars, locked, graduated, entering, recov>>
  PROVE  IInv'
BY DEF IInv, ProcOK, StoreOK, EntryOK, RecovOK, TriesLeft, procVars

LEMMA SaleStepInv ==
  ASSUME IInv, NEW m \in Mints,
         SaleConfirmed(m) \/ SaleUnverified(m) \/ SaleUnanswered(m) \/ SellThrows(m)
  PROVE  IInv'
<1> DEFINE l == Head1(m).lot
<1>1. exitQ[m] # <<>> /\ l \in Lots /\ seller[m].want \in Nat
      /\ UNCHANGED <<procVars, locked, graduated, entering, recov>>
  BY RunningType DEF SaleConfirmed, SaleUnverified, SaleUnanswered, SellThrows, Running
<1>2. {"SELL"} \in SUBSET OrderKinds /\ {"SELL", "PARTIAL"} \in SUBSET OrderKinds
  BY DEF OrderKinds
<1>3. CASE SaleConfirmed(m)
  <2>1. ChainOK'
    BY <1>1, <1>3, SoldType DEF SaleConfirmed, IInv, ChainOK
  <2>2. CASE CloseLot(m, l)
    BY <1>1, <1>3, <2>1, <2>2, CloseLotType, ExitFrame DEF SaleConfirmed, IInv, MemOK
  <2>3. CASE ExitAttemptOver(m, {"SELL", "PARTIAL"}) /\ UNCHANGED <<positions, timers>>
    <3>1. lot' \in [Lots -> LotRecord] /\ ExitOK'
      BY <1>1, <1>2, <2>3, ExitAttemptOverType
    <3>2. MemOK'
      BY <1>3, <2>3 DEF SaleConfirmed, IInv, MemOK
    <3>3. QED
      BY <1>1, <2>1, <3>1, <3>2, ExitFrame
  <2>4. QED
    BY <1>3, <2>2, <2>3 DEF SaleConfirmed
<1>4. CASE ~SaleConfirmed(m)
  <2>1. ExitAttemptOver(m, {"SELL"}) /\ UNCHANGED memVars
    BY <1>4 DEF SaleUnverified, SaleUnanswered, SellThrows
  <2>2. lot' \in [Lots -> LotRecord] /\ ExitOK'
    BY <1>1, <1>2, <2>1, ExitAttemptOverType
  <2>3. MemOK'
    BY <2>1 DEF IInv, MemOK, memVars
  <2>4. ChainOK'
    <3>1. CASE SaleUnverified(m)
      BY <1>1, <3>1, SoldType DEF SaleUnverified, IInv, ChainOK
    <3>2. CASE SaleUnanswered(m)
      BY <1>1, <3>2, SaleFateType DEF SaleUnanswered
    <3>3. CASE SellThrows(m)
      BY <3>3 DEF SellThrows, IInv, ChainOK, chainVars
    <3>4. QED
      BY <1>4, <3>1, <3>2, <3>3
  <2>5. QED
    BY <1>1, <2>2, <2>3, <2>4, ExitFrame
<1>5. QED
  BY <1>3, <1>4

LEMMA ExitStepInv ==
  ASSUME IInv, NEW m \in Mints, ExitStep(m)
  PROVE  IInv'
<1> DEFINE l == Head1(m).lot
<1>1. exitQ[m] # <<>> /\ l \in Lots /\ lot[l] \in LotRecord /\ seller[m].want \in Nat
  BY RunningType DEF ExitStep, Sell, AlreadyEmpty, SaleConfirmed, SaleUnverified, SaleUnanswered,
                     SellThrows, TakeProfitRejected, ExitAbandoned, CoreConfirmed, CoreFails,
                     Running
<1>2. {"SELL"} \in SUBSET OrderKinds /\ {} \in SUBSET OrderKinds
  BY DEF OrderKinds
<1>3. CASE Sell(m)
  <2>1. Asked(m) \in Int /\ wallet[m] \in Nat
    BY <1>1 DEF Asked, IInv, ChainOK, LotRecord
  <2>2. Least(Asked(m), wallet[m]) \in Nat
    BY <1>3, <2>1 DEF Least, Sell
  <2>3. ExitOK'
    BY <1>3, <2>2 DEF Sell, IInv, ExitOK, SellerRecord
  <2>4. QED
    BY <1>3, <2>3, ExitFrame DEF Sell, IInv, StoreOK, MemOK, ChainOK, storeVars, memVars, chainVars
<1>4. CASE AlreadyEmpty(m)
  <2>1. ChainOK' /\ UNCHANGED <<procVars, locked, graduated, entering, recov, corePending>>
    BY <1>4 DEF AlreadyEmpty, IInv, ChainOK, chainVars
  <2>2. CASE CloseLot(m, l)
    BY <1>1, <2>1, <2>2, CloseLotType, ExitFrame DEF IInv, MemOK
  <2>3. CASE ExitAttemptOver(m, {"SELL"}) /\ UNCHANGED <<positions, timers>>
    <3>1. lot' \in [Lots -> LotRecord] /\ ExitOK'
      BY <1>1, <1>2, <2>3, ExitAttemptOverType
    <3>2. MemOK'
      BY <2>1, <2>3 DEF IInv, MemOK
    <3>3. QED
      BY <2>1, <3>1, <3>2, ExitFrame
  <2>4. QED
    BY <1>4, <2>2, <2>3 DEF AlreadyEmpty
<1>5. CASE SaleConfirmed(m) \/ SaleUnverified(m) \/ SaleUnanswered(m) \/ SellThrows(m)
  BY <1>5, SaleStepInv
<1>6. CASE TakeProfitRejected(m)
  <2>1. Ended(lot[l], {}, "OPEN") \in LotRecord
    BY <1>1, <1>2, EndedType DEF Statuses
  <2>2. Armed(timers[l], "HOLD") \in TimerRecord
    BY <1>1, ArmedType DEF IInv, MemOK, TimerKinds
  <2>3. lot' \in [Lots -> LotRecord] /\ MemOK'
    BY <1>6, <2>1, <2>2 DEF TakeProfitRejected, IInv, StoreOK, MemOK
  <2>4. ExitOK'
    BY <1>1, <1>6, TaskDoneType DEF TakeProfitRejected
  <2>5. ChainOK'
    BY <1>6 DEF TakeProfitRejected, IInv, ChainOK, chainVars
  <2>6. QED
    BY <1>6, <2>3, <2>4, <2>5, ExitFrame DEF TakeProfitRejected
<1>7. CASE ExitAbandoned(m)
  <2>1. Ended(lot[l], {}, "EXIT_FAILED") \in LotRecord
    BY <1>1, <1>2, EndedType DEF Statuses
  <2>2. lot' \in [Lots -> LotRecord]
    BY <1>7, <2>1 DEF ExitAbandoned, IInv, StoreOK
  <2>3. ExitOK'
    BY <1>1, <1>7, TaskDoneType DEF ExitAbandoned
  <2>4. MemOK' /\ ChainOK'
    BY <1>7 DEF ExitAbandoned, IInv, MemOK, ChainOK, memVars, chainVars
  <2>5. QED
    BY <1>7, <2>2, <2>3, <2>4, ExitFrame DEF ExitAbandoned
<1>8. CASE CoreConfirmed(m)
  <2>1. CoreSold(lot[l], seller[m].want) \in LotRecord
    BY <1>1, <1>8, CoreSoldType DEF CoreConfirmed
  <2>2. lot' \in [Lots -> LotRecord] /\ MemOK'
    BY <1>8, <2>1 DEF CoreConfirmed, IInv, StoreOK, MemOK
  <2>3. ExitOK'
    BY <1>1, <1>8, TaskDoneType DEF CoreConfirmed
  <2>4. ChainOK'
    BY <1>1, <1>8, SoldType DEF CoreConfirmed, IInv, ChainOK
  <2>5. QED
    BY <1>8, <2>2, <2>3, <2>4, ExitFrame DEF CoreConfirmed
<1>9. CASE CoreFails(m)
  <2>1. Ordered(lot[l], {"SELL"}) \in LotRecord
    BY <1>1, <1>2, OrderedType
  <2>2. lot' \in [Lots -> LotRecord] /\ MemOK'
    BY <1>9, <2>1 DEF CoreFails, IInv, StoreOK, MemOK
  <2>3. ExitOK'
    BY <1>1, <1>9, TaskDoneType DEF CoreFails
  <2>4. ChainOK'
    <3>1. CASE UNCHANGED chainVars
      BY <3>1 DEF IInv, ChainOK, chainVars
    <3>2. CASE SaleFate(l, seller[m].want)
      BY <1>1, <3>2, SaleFateType
    <3>3. QED
      BY <1>9, <3>1, <3>2 DEF CoreFails
  <2>5. QED
    BY <1>9, <2>2, <2>3, <2>4, ExitFrame DEF CoreFails
<1>10. QED
  BY <1>3, <1>4, <1>5, <1>6, <1>7, <1>8, <1>9 DEF ExitStep

-----------------------------------------------------------------------------
(* Locks, the chain and the clock *)

LEMMA RecheckLockInv ==
  ASSUME IInv, NEW m \in Mints, RecheckLock(m)
  PROVE  IInv'
BY DEF RecheckLock, IInv, ProcOK, StoreOK, MemOK, EntryOK, RecovOK, TriesLeft, ExitOK, ChainOK,
       procVars, memVars, taskVars, chainVars

\* A sale by hand empties the wallet of a mint.
LEMMA SoldByHandInv ==
  ASSUME IInv, NEW m \in Mints, SoldByHand(m)
  PROVE  IInv'
BY DEF SoldByHand, IInv, ProcOK, StoreOK, MemOK, EntryOK, RecovOK, TriesLeft, ExitOK, ChainOK,
       procVars, storeVars, memVars, taskVars

LEMMA ChainStepInv ==
  ASSUME IInv, ChainOK', UNCHANGED <<procVars, storeVars, memVars, taskVars>>
  PROVE  IInv'
BY DEF IInv, ProcOK, StoreOK, MemOK, EntryOK, RecovOK, TriesLeft, ExitOK,
       procVars, storeVars, memVars, taskVars

LEMMA FlyingInv ==
  ASSUME IInv, NEW l \in Lots, FlyingBuyEnds(l) \/ FlyingSaleEnds(l)
  PROVE  IInv'
<1>1. CASE FlyingBuyEnds(l)
  <2>1. PICK fate \in {"LANDED", "ERR", "DROPPED"} : Fate(l, fate)
    BY <1>1 DEF FlyingBuyEnds
  <2>2. ChainOK'
    BY <2>1, FateType DEF BuyFates
  <2>3. QED
    BY <1>1, <2>2, ChainStepInv DEF FlyingBuyEnds
<1>2. CASE FlyingSaleEnds(l)
  <2>1. sellTx[l] \in Nat
    BY DEF IInv, ChainOK
  <2>2. wallet' \in [Mints -> Nat] /\ net' \in [Lots -> Int]
    BY <1>2, <2>1, SoldType DEF FlyingSaleEnds, IInv, ChainOK
  <2>3. ChainOK'
    BY <1>2, <2>2 DEF FlyingSaleEnds, IInv, ChainOK
  <2>4. QED
    BY <1>2, <2>3, ChainStepInv DEF FlyingSaleEnds
<1>3. QED
  BY <1>1, <1>2

LEMMA AgeInv ==
  ASSUME IInv, NEW l \in Lots, Age(l)
  PROVE  IInv'
<1>1. [lot[l] EXCEPT !.aged = TRUE] \in LotRecord
  BY MintType DEF LotRecord
<1>2. StoreOK'
  BY <1>1 DEF Age, IInv, StoreOK
<1>3. QED
  BY <1>2 DEF Age, IInv, ProcOK, MemOK, EntryOK, RecovOK, TriesLeft, ExitOK, ChainOK,
              procVars, memVars, taskVars, chainVars

LEMMA LotStepInv ==
  ASSUME IInv, NEW l \in Lots, LotStep(l)
  PROVE  IInv'
BY EnterInv, EntryStepInv, RecoveryStepInv, TimerStepInv, PriceExitInv, RequestCoreExitInv,
   FlyingInv, AgeInv DEF LotStep

LEMMA MintStepInv ==
  ASSUME IInv, NEW m \in Mints, MintStep(m)
  PROVE  IInv'
BY GraduateInv, ExitStepInv, RecheckLockInv, SoldByHandInv DEF MintStep

-----------------------------------------------------------------------------
(* Stop, crash and start *)

LEMMA StopInv ==
  ASSUME IInv, Stop
  PROVE  IInv'
<1>1. \A l \in Lots : Cleared(timers[l]) \in TimerRecord
  BY ClearedType DEF IInv, MemOK
<1>2. MemOK'
  BY <1>1 DEF Stop, IInv, MemOK
<1>3. ProcOK'
  BY LiveAssumption DEF Stop, IInv, ProcOK
<1>4. QED
  BY <1>2, <1>3 DEF Stop, IInv, StoreOK, EntryOK, RecovOK, TriesLeft, ExitOK, ChainOK,
                    storeVars, taskVars, chainVars

LEMMA MemoryLostInv ==
  ASSUME IInv, MemoryLost, stops' \in 0..MaxStops, ChainOK'
  PROVE  IInv'
<1>1. \A l \in Lots : [lot[l] EXCEPT !.coreDone = FALSE, !.coreTried = FALSE] \in LotRecord
  BY MintType DEF LotRecord
<1>2. StoreOK'
  BY <1>1 DEF MemoryLost, IInv, StoreOK
<1>3. <<>> \in Seq(Task)
  BY EmptySeq
<1>4. ProcOK' /\ MemOK' /\ EntryOK' /\ ExitOK'
  BY <1>3, NoneTypes DEF MemoryLost, ProcOK, MemOK, EntryOK, ExitOK
<1>5. RecovOK'
  BY NoneTypes DEF MemoryLost, RecovOK, TriesLeft, NoRecov
<1>6. QED
  BY <1>2, <1>4, <1>5 DEF IInv

LEMMA StopDoneInv ==
  ASSUME IInv, StopDone
  PROVE  IInv'
BY MemoryLostInv DEF StopDone, IInv, ProcOK, ChainOK, chainVars

LEMMA CrashInv ==
  ASSUME IInv, Crash
  PROVE  IInv'
<1>1. stops' \in 0..MaxStops
  BY LiveAssumption DEF Crash, IInv, ProcOK
<1>2. ChainOK'
  <2>1. CASE /\ entering.step = "SENT"
             /\ \E fate \in {"DROPPED", "FLYING", "LANDED", "ERR"} : Fate(entering.lot, fate)
    <3>1. CASE entering.lot \in Lots
      BY <2>1, <3>1, FateType DEF BuyFates
    <3>2. CASE entering.lot = NoLot
      BY <2>1, <3>2 DEF IInv, EntryOK
    <3>3. QED
      BY <3>1, <3>2 DEF IInv, EntryOK, EntryRecord
  <2>2. CASE \E m \in Mints : /\ exitQ[m] # <<>> /\ seller[m].step = "SENT"
                               /\ SaleFate(Head1(m).lot, seller[m].want)
    BY <2>2, RunningType, SaleFateType
  <2>3. CASE UNCHANGED chainVars
    BY <2>3 DEF IInv, ChainOK, chainVars
  <2>4. QED
    BY <2>1, <2>2, <2>3 DEF Crash
<1>3. QED
  BY <1>1, <1>2, MemoryLostInv DEF Crash

LEMMA RestoredType ==
  ASSUME IInv, NEW l \in Lots
  PROVE  Restored(l) \in LotRecord
<1> DEFINE status == IF Interrupted(l) THEN "EXITING" ELSE lot[l].status
           done   == lot[l].mode # "PLAIN" /\ "PARTIAL" \in lot[l].orders
           tried  == lot[l].mode # "PLAIN" /\ "SELL" \in lot[l].orders
<1>1. lot[l] \in LotRecord
  BY DEF IInv, StoreOK
<1>2. status \in Statuses
  BY <1>1 DEF LotRecord, Statuses
<1>3. done \in BOOLEAN /\ tried \in BOOLEAN
  OBVIOUS
<1>4. Restored(l) = [lot[l] EXCEPT !.status = status, !.coreDone = done, !.coreTried = tried]
  BY DEF Restored
<1> HIDE DEF status, done, tried
<1>5. QED
  BY <1>1, <1>2, <1>3, <1>4 DEF LotRecord

LEMMA AllowedType ==
  ASSUME NEW a \in RecovRecord, NEW b \in BOOLEAN
  PROVE  /\ [a EXCEPT !.allow = b] \in RecovRecord
         /\ [a EXCEPT !.allow = b].phase = a.phase
BY DEF RecovRecord

LEMMA StartInv ==
  ASSUME IInv, Start
  PROVE  IInv'
<1>1. StoreOK'
  BY RestoredType DEF Start, IInv, StoreOK
<1>2. Armed(NoTimer, "HOLD") \in TimerRecord
  BY ArmedType, NoneTypes DEF TimerKinds
<1>3. MemOK'
  BY <1>2, NoneTypes DEF Start, IInv, MemOK, ActiveRows
<1>4. \A l \in Lots :
         /\ [Attempt(l, 1, lot[l].expired) EXCEPT !.allow = RestoredBefore(l) # {}] \in RecovRecord
         /\ [Attempt(l, 1, lot[l].expired) EXCEPT !.allow = RestoredBefore(l) # {}].phase = "WAIT"
  <2>1. \A l \in Lots : Attempt(l, 1, lot[l].expired) \in RecovRecord
                     /\ Attempt(l, 1, lot[l].expired).phase = "WAIT"
    BY AttemptType, MintType, LiveAssumption DEF LotRecord
  <2>2. \A l \in Lots : (RestoredBefore(l) # {}) \in BOOLEAN
    OBVIOUS
  <2>3. QED
    BY <2>1, <2>2, AllowedType
<1>5. RecovOK'
  BY <1>4, NoneTypes DEF Start, RecovOK, TriesLeft, NoRecov
<1>6. exitQ' \in [Mints -> Seq(Task)]
  <2>1. PICK order \in [Mints -> UNION {[1..n -> Lots] : n \in 0..MaxLots}] :
            exitQ' = [m \in Mints |-> [i \in DOMAIN order[m] |->
                                          [lot |-> order[m][i], kind |-> "RESTART"]]]
    BY DEF Start
  <2>2. \A m \in Mints : [i \in DOMAIN order[m] |-> [lot |-> order[m][i], kind |-> "RESTART"]]
                             \in Seq(Task)
    <3>1. SUFFICES ASSUME NEW m \in Mints
                   PROVE  [i \in DOMAIN order[m] |-> [lot |-> order[m][i], kind |-> "RESTART"]]
                             \in Seq(Task)
      OBVIOUS
    <3>2. PICK n \in 0..MaxLots : order[m] \in [1..n -> Lots]
      <4>1. order[m] \in UNION {[1..k -> Lots] : k \in 0..MaxLots}
        BY <2>1
      <4>2. QED
        BY <4>1, Zenon
    <3>3. n \in Nat
      BY LiveAssumption
    <3>4. \A i \in 1..n : [lot |-> order[m][i], kind |-> "RESTART"] \in Task
      BY <3>2 DEF Task, TaskKinds, ExitReasons
    <3>5. [i \in DOMAIN order[m] |-> [lot |-> order[m][i], kind |-> "RESTART"]] \in [1..n -> Task]
      BY <3>2, <3>4
    <3>6. QED
      BY <3>3, <3>5, SeqDef
  <2>3. QED
    BY <2>1, <2>2
<1>7. QED
  BY <1>1, <1>3, <1>5, <1>6 DEF Start, IInv, ProcOK, EntryOK, ExitOK, ChainOK, chainVars

-----------------------------------------------------------------------------
(* The theorem *)

LEMMA InitInv == Init => IInv
<1> SUFFICES ASSUME Init PROVE IInv
  OBVIOUS
<1>1. ProcOK /\ StoreOK
  BY NoRowType, LiveAssumption DEF Init, ProcOK, StoreOK
<1>2. MemOK /\ EntryOK /\ RecovOK
  BY NoneTypes DEF Init, MemOK, EntryOK, RecovOK, TriesLeft, NoRecov
<1>3. ExitOK
  BY NoneTypes, EmptySeq DEF Init, ExitOK
<1>4. ChainOK
  BY LiveAssumption DEF Init, ChainOK, BuyFates
<1>5. QED
  BY <1>1, <1>2, <1>3, <1>4 DEF IInv

LEMMA NextInv == IInv /\ [Next]_vars => IInv'
<1> SUFFICES ASSUME IInv, [Next]_vars PROVE IInv'
  OBVIOUS
<1>1. ASSUME NEW l \in Lots, LotStep(l) PROVE IInv'
  BY <1>1, LotStepInv
<1>2. ASSUME NEW m \in Mints, MintStep(m) PROVE IInv'
  BY <1>2, MintStepInv
<1>3. CASE Stop \/ StopDone \/ Crash \/ Start
  BY <1>3, StopInv, StopDoneInv, CrashInv, StartInv
<1>4. CASE UNCHANGED vars
  <2>1. ChainOK' /\ UNCHANGED <<procVars, storeVars, memVars, taskVars>>
    BY <1>4 DEF IInv, ChainOK, vars, chainVars
  <2>2. QED
    BY <2>1, ChainStepInv
<1>5. QED
  BY <1>1, <1>2, <1>3, <1>4 DEF Next

\* Whatever the number of mints, lots, retries, crashes and restarts, every
\* variable keeps its type: amounts never go negative when a partial sale is
\* booked, no attempt is counted past its bound, and every queued exit names a
\* lot (LiveTradingManager._enter, _recoverUnknownEntry, _exit, start, stop).
THEOREM LivePositionsTyped == Spec => []TypeOK
<1>1. Init => IInv
  BY InitInv
<1>2. IInv /\ [Next]_vars => IInv'
  BY NextInv
<1>3. IInv => TypeOK
  BY IInvType
<1>4. QED
  BY <1>1, <1>2, <1>3, PTL DEF Spec

=============================================================================
