------------------------ MODULE AccountRecoveryProofs ------------------------
(***************************************************************************)
(* Proofs about AccountRecovery, for every number of mints, generations,   *)
(* dealings, stops and every size of a batch.                              *)
(*                                                                         *)
(* The argument: a row is signed while its mint is locked and idle, and    *)
(* from then on until its verdict it is in the durable list from which the *)
(* locks are rebuilt.  The inductive invariant therefore ties three places *)
(* to each other: the row (SIGNED), the lock (LocksHold) and what the run  *)
(* still believes of it (InHand, InBatch).                                 *)
(***************************************************************************)
EXTENDS AccountRecovery, FiniteSetTheorems, TLAPS

Typed ==
    /\ status \in [Rows -> Statuses]
    /\ attempts \in [Rows -> Nat]
    /\ tx \in [Rows -> Fates]
    /\ pos \in [Mints -> {"NONE", "OPENING", "OPEN", "EXITING"}]

SignedNotTraded ==
    \A r \in Rows : status[r] = "SIGNED" => pos[MintOf(r)] = "NONE"

UnsignedNotAttempted ==
    \A r \in Rows : status[r] \in {"NONE", "PENDING"} => attempts[r] = 0

LocksHold ==
    step # "IDLE" \/ (run = "UP" /\ ~failed) => \A r \in Rows : status[r] = "SIGNED" => r \in locks

\* The row being prepared is locked, unsigned, and alone with its mint.
InHand ==
    /\ run = "DOWN" => step = "IDLE"
    /\ step \in {"IDLE", "NEXT"} => hand = {}
    /\ \A r \in Rows : step = "PREPARE" /\ hand = {r} =>
          /\ r \in locks
          /\ \A q \in Rows : status[q] = "SIGNED" => MintOf(q) # MintOf(r)

\* What the batch remembers as unsigned is not signed meanwhile.
InBatch ==
    \A r \in Rows : [row |-> r, read |-> "PENDING"] \in batch =>
        /\ status[r] # "SIGNED"
        /\ r \notin hand
        /\ [row |-> r, read |-> "SIGNED"] \notin batch

IInv ==
    /\ Typed
    /\ SignedNotTraded
    /\ DurableWhileFlying
    /\ UnsignedNotAttempted
    /\ VerdictIsTrue
    /\ LocksHold
    /\ InHand
    /\ InBatch

-----------------------------------------------------------------------------
LEMMA MintOfRow == \A r \in Rows : MintOf(r) \in Mints
BY DEF Rows, MintOf

\* The initial state satisfies the inductive invariant, with the rows that a
\* former process left.
LEMMA InitIInv == Init => IInv
<1> SUFFICES ASSUME Init PROVE IInv
    OBVIOUS
<1> USE RecoveryAssumption
<1>1. Typed
      BY DEF Init, Typed, Statuses, Waiting, Terminal, Fates
<1>2. SignedNotTraded /\ LocksHold /\ InHand /\ InBatch
      BY MintOfRow DEF Init, SignedNotTraded, LocksHold, InHand, InBatch
<1>3. DurableWhileFlying /\ UnsignedNotAttempted /\ VerdictIsTrue
  <2>1. ASSUME NEW r \in Rows
        PROVE  \/ status[r] = "NONE" /\ attempts[r] = 0 /\ tx[r] = "NONE"
               \/ status[r] = "PENDING" /\ attempts[r] = 0 /\ tx[r] = "NONE"
               \/ status[r] = "SIGNED" /\ attempts[r] = 1 /\ tx[r] = "FLYING"
    <3>1. r \in Unsigned \X {1} => r \notin Signed \X {1}
          OBVIOUS
    <3>. QED BY <3>1 DEF Init
  <2>. QED BY <2>1 DEF DurableWhileFlying, UnsignedNotAttempted, VerdictIsTrue, Flying
<1>. QED BY <1>1, <1>2, <1>3 DEF IInv

-----------------------------------------------------------------------------
(* The run *)

LEMMA CandidatesAsRead ==
    \A r \in Rows, s \in Waiting : [row |-> r, read |-> s] \in Candidates => status[r] = s
<1>1. ASSUME NEW rows, NEW r \in Rows, NEW s \in Waiting, [row |-> r, read |-> s] \in AsRead(rows)
      PROVE  status[r] = s
  <2>1. PICK q \in rows : [row |-> r, read |-> s] = [row |-> q, read |-> status[q]]
        BY <1>1 DEF AsRead
  <2>2. [row |-> r, read |-> s].row = [row |-> q, read |-> status[q]].row
        BY <2>1
  <2>3. [row |-> r, read |-> s].read = [row |-> q, read |-> status[q]].read
        BY <2>1
  <2>. QED BY <2>2, <2>3
<1>. QED BY <1>1 DEF Candidates

LEMMA RunStartsIInv == IInv /\ RunStarts => IInv'
<1> SUFFICES ASSUME IInv, RunStarts PROVE IInv'
    OBVIOUS
<1>0. hand = {}
      BY DEF IInv, InHand, RunStarts
<1>1. UNCHANGED <<status, attempts, tx, pos, hand, run>>
      BY DEF RunStarts, storeVars, chainVars, tradeVars, procVars
<1>2. Typed' /\ SignedNotTraded' /\ DurableWhileFlying' /\ UnsignedNotAttempted' /\ VerdictIsTrue'
      BY <1>1 DEF IInv, Typed, SignedNotTraded, DurableWhileFlying, UnsignedNotAttempted, VerdictIsTrue, Flying
<1>3. LocksHold'
      BY <1>1 DEF RunStarts, SyncLocks, SignedRows, LocksHold
<1>4. InHand'
      BY <1>0, <1>1 DEF RunStarts, InHand
<1>5. InBatch'
  <2>1. CASE failed'
        BY <2>1, <1>1 DEF RunStarts, IInv, InBatch
  <2>2. CASE ~failed'
        BY <2>2, <1>0, <1>1, CandidatesAsRead DEF RunStarts, InBatch, Waiting
  <2>. QED BY <2>1, <2>2
<1>. QED BY <1>2, <1>3, <1>4, <1>5 DEF IInv

LEMMA RunEndsIInv == IInv /\ RunEnds => IInv'
<1> SUFFICES ASSUME IInv, RunEnds PROVE IInv'
    OBVIOUS
<1>1. UNCHANGED <<status, attempts, tx, pos, hand, run>>
      BY DEF RunEnds, storeVars, chainVars, tradeVars, procVars
<1>2. Typed' /\ SignedNotTraded' /\ DurableWhileFlying' /\ UnsignedNotAttempted' /\ VerdictIsTrue'
      BY <1>1 DEF IInv, Typed, SignedNotTraded, DurableWhileFlying, UnsignedNotAttempted, VerdictIsTrue, Flying
<1>3. LocksHold'
      BY <1>1 DEF RunEnds, SyncLocks, SignedRows, LocksHold
<1>4. InHand' /\ InBatch'
      BY <1>1 DEF IInv, RunEnds, InHand, InBatch
<1>. QED BY <1>2, <1>3, <1>4 DEF IInv

LEMMA DeferredKeeps ==
    ASSUME NEW r \in Rows, Deferred(r)
    PROVE  UNCHANGED status
BY DEF Deferred, NotSaved

LEMMA TurnFacts ==
    ASSUME IInv, NEW r \in Rows, NEW s \in Waiting, Turn(r, s)
    PROVE  /\ step = "NEXT" /\ hand = {} /\ run = "UP"
           /\ \A q \in Rows : status[q] = "SIGNED" => q \in locks
           /\ s = "PENDING" => status[r] # "SIGNED"
           /\ [row |-> r, read |-> "PENDING"] \notin batch'
           /\ batch' \subseteq batch
<1>1. step = "NEXT" /\ hand = {} /\ run = "UP" /\ [row |-> r, read |-> s] \in batch
      BY DEF Turn, IInv, InHand
<1>2. \A q \in Rows : status[q] = "SIGNED" => q \in locks
      BY <1>1 DEF IInv, LocksHold
<1>3. s = "PENDING" => status[r] # "SIGNED"
      BY <1>1 DEF IInv, InBatch
<1>4. batch' = batch \ {[row |-> r, read |-> s]}
      BY DEF Turn
<1>5. [row |-> r, read |-> "PENDING"] \notin batch'
      BY <1>1, <1>4 DEF IInv, InBatch, Waiting
<1>. QED BY <1>1, <1>2, <1>3, <1>4, <1>5

LEMMA SkipsRowIInv == ASSUME IInv, NEW r \in Rows, SkipsRow(r) \/ PutsOff(r) PROVE IInv'
<1>1. Turn(r, "PENDING") /\ RowDone /\ UNCHANGED <<status, attempts, tx, pos, run, failed, locks>>
      BY DeferredKeeps DEF SkipsRow, PutsOff, storeVars, chainVars, tradeVars, procVars
<1>2. /\ run = "UP" /\ hand = {} /\ batch' \subseteq batch
      /\ \A q \in Rows : status[q] = "SIGNED" => q \in locks
      BY <1>1, TurnFacts DEF Waiting
<1>3. Typed' /\ SignedNotTraded' /\ DurableWhileFlying' /\ UnsignedNotAttempted' /\ VerdictIsTrue'
      BY <1>1 DEF IInv, Typed, SignedNotTraded, DurableWhileFlying, UnsignedNotAttempted, VerdictIsTrue, Flying
<1>4. LocksHold' /\ InHand' /\ InBatch'
      BY <1>1, <1>2 DEF RowDone, IInv, LocksHold, InHand, InBatch
<1>. QED BY <1>3, <1>4 DEF IInv

\* The mint is locked, and no other row of it is: by the locks none is signed.
LEMMA PreparesIInv == ASSUME IInv, NEW r \in Rows, Prepares(r) PROVE IInv'
<1>1. /\ Turn(r, "PENDING") /\ UNCHANGED <<attempts, tx, pos, run, failed, status>>
      /\ \A q \in locks : MintOf(q) = MintOf(r) => q = r
      BY DeferredKeeps DEF Prepares, chainVars, tradeVars, procVars
<1>2. /\ run = "UP" /\ hand = {} /\ batch' \subseteq batch /\ status[r] # "SIGNED"
      /\ \A q \in Rows : status[q] = "SIGNED" => q \in locks
      /\ [row |-> r, read |-> "PENDING"] \notin batch'
      BY <1>1, TurnFacts DEF Waiting
<1>3. Typed' /\ SignedNotTraded' /\ DurableWhileFlying' /\ UnsignedNotAttempted' /\ VerdictIsTrue'
      BY <1>1 DEF IInv, Typed, SignedNotTraded, DurableWhileFlying, UnsignedNotAttempted, VerdictIsTrue, Flying
<1>4. \/ locks' = locks \cup {r} /\ GoesOn(r, "PREPARE")
      \/ locks' = locks \ {r} /\ RowDone
      BY DEF Prepares
<1>5. CASE locks' = locks \cup {r} /\ GoesOn(r, "PREPARE")
  <2>1. LocksHold'
        BY <1>1, <1>2, <1>5 DEF LocksHold
  <2>2. InHand'
        BY <1>1, <1>2, <1>5 DEF GoesOn, InHand
  <2>3. InBatch'
        BY <1>1, <1>2, <1>5 DEF GoesOn, InBatch, IInv
  <2>. QED BY <1>3, <2>1, <2>2, <2>3 DEF IInv
<1>6. CASE locks' = locks \ {r} /\ RowDone
  <2>1. LocksHold' /\ InHand'
        BY <1>1, <1>2, <1>6 DEF RowDone, LocksHold, InHand
  <2>2. InBatch'
        BY <1>1, <1>2, <1>6 DEF RowDone, InBatch, IInv
  <2>. QED BY <1>3, <2>1, <2>2 DEF IInv
<1>. QED BY <1>4, <1>5, <1>6

LEMMA ReconcilesIInv == ASSUME IInv, NEW r \in Rows, Reconciles(r) PROVE IInv'
<1>1. /\ Turn(r, "SIGNED") /\ UNCHANGED <<attempts, tx, pos, run, failed, status>>
      /\ locks' = locks \cup {r}
      /\ GoesOn(r, "RECONCILE") \/ RowDone
      BY DeferredKeeps DEF Reconciles, chainVars, tradeVars, procVars
<1>2. /\ run = "UP" /\ hand = {} /\ batch' \subseteq batch
      /\ \A q \in Rows : status[q] = "SIGNED" => q \in locks
      /\ [row |-> r, read |-> "PENDING"] \notin batch'
      BY <1>1, TurnFacts DEF Waiting
<1>3. Typed' /\ SignedNotTraded' /\ DurableWhileFlying' /\ UnsignedNotAttempted' /\ VerdictIsTrue'
      BY <1>1 DEF IInv, Typed, SignedNotTraded, DurableWhileFlying, UnsignedNotAttempted, VerdictIsTrue, Flying
<1>4. LocksHold' /\ InHand'
      BY <1>1, <1>2 DEF RowDone, GoesOn, LocksHold, InHand
<1>5. InBatch'
      BY <1>1, <1>2 DEF RowDone, GoesOn, InBatch, IInv
<1>. QED BY <1>3, <1>4, <1>5 DEF IInv

\* A row that is being prepared has no transaction yet.
LEMMA GivesUpIInv == ASSUME IInv, NEW r \in Rows, GivesUp(r) PROVE IInv'
<1>1. /\ step = "PREPARE" /\ hand = {r} /\ step' = "NEXT" /\ hand' = {}
      /\ locks' = locks \ {r} /\ UNCHANGED <<attempts, tx, pos, run, failed, batch>>
      BY DEF GivesUp, Awaits, RowDone, chainVars, tradeVars, procVars
<1>2. status[r] # "SIGNED"
      BY <1>1 DEF IInv, InHand
<1>3. \/ UNCHANGED status
      \/ \E s \in {"ABSENT", "BLOCKED"} :
            status' = [status EXCEPT ![r] = s] /\ status[r] = "PENDING"
      BY <1>2, DeferredKeeps DEF GivesUp, Concludes, Waiting
<1>4. \A q \in Rows : \/ status'[q] = status[q]
                      \/ /\ status'[q] \in {"ABSENT", "BLOCKED"} /\ q = r
                         /\ status[q] = "PENDING" /\ attempts[q] = 0
      BY <1>3 DEF IInv, Typed, UnsignedNotAttempted
<1>5. Typed'
      BY <1>1, <1>3 DEF IInv, Typed, Statuses, Terminal
<1>6. SignedNotTraded' /\ UnsignedNotAttempted'
      BY <1>1, <1>4 DEF IInv, SignedNotTraded, UnsignedNotAttempted
<1>7. DurableWhileFlying' /\ VerdictIsTrue'
      BY <1>1, <1>4 DEF IInv, DurableWhileFlying, VerdictIsTrue, Flying
<1>8. LocksHold' /\ InHand' /\ InBatch'
      BY <1>1, <1>2, <1>4 DEF IInv, LocksHold, InHand, InBatch
<1>. QED BY <1>5, <1>6, <1>7, <1>8 DEF IInv

LEMMA SignsIInv == ASSUME IInv, NEW r \in Rows, Signs(r) PROVE IInv'
<1>1. /\ step = "PREPARE" /\ hand = {r} /\ UNCHANGED <<pos, run, failed, locks, batch>>
      /\ pos[MintOf(r)] = "NONE"
      /\ RowDone \/ GoesOn(r, "SEND")
      BY DEF Signs, Awaits, Busy, tradeVars, procVars
<1>2. CASE UNCHANGED <<status, attempts, tx>> /\ RowDone
  <2>1. Typed' /\ SignedNotTraded' /\ DurableWhileFlying' /\ UnsignedNotAttempted' /\ VerdictIsTrue'
        BY <1>1, <1>2 DEF IInv, Typed, SignedNotTraded, DurableWhileFlying, UnsignedNotAttempted, VerdictIsTrue, Flying
  <2>2. LocksHold' /\ InHand' /\ InBatch'
        BY <1>1, <1>2 DEF RowDone, IInv, LocksHold, InHand, InBatch
  <2>. QED BY <2>1, <2>2 DEF IInv
<1>3. CASE /\ status[r] = "PENDING" /\ attempts[r] = 0
           /\ status' = [status EXCEPT ![r] = "SIGNED"]
           /\ attempts' = [attempts EXCEPT ![r] = @ + 1]
           /\ tx' = [tx EXCEPT ![r] = "SIGNED"]
  <2>1. \A q \in Rows : \/ q # r /\ status'[q] = status[q] /\ attempts'[q] = attempts[q] /\ tx'[q] = tx[q]
                        \/ q = r /\ status'[q] = "SIGNED" /\ attempts'[q] = 1 /\ tx'[q] = "SIGNED"
        BY <1>3 DEF IInv, Typed
  <2>2. Typed'
        BY <1>1, <1>3 DEF IInv, Typed, Statuses, Waiting, Fates
  <2>3. SignedNotTraded' /\ UnsignedNotAttempted'
        BY <1>1, <2>1 DEF IInv, SignedNotTraded, UnsignedNotAttempted
  <2>4. DurableWhileFlying' /\ VerdictIsTrue'
        BY <2>1 DEF IInv, DurableWhileFlying, VerdictIsTrue, Flying
  <2>5. LocksHold' /\ InHand'
        BY <1>1, <2>1 DEF RowDone, GoesOn, IInv, LocksHold, InHand
  <2>6. InBatch'
        BY <1>1, <2>1 DEF RowDone, GoesOn, IInv, InBatch
  <2>. QED BY <2>2, <2>3, <2>4, <2>5, <2>6 DEF IInv
<1>. QED BY <1>2, <1>3 DEF Signs, NotSaved

\* The fate of a transaction that exists changes, and nothing else.
LEMMA FateIInv ==
    ASSUME IInv, NEW r \in Rows, NEW f \in Fates \ {"NONE", "SIGNED"},
           Flying(r), tx' = [tx EXCEPT ![r] = f],
           UNCHANGED <<status, attempts, pos, run, failed, locks, batch, step, hand>>
    PROVE  IInv'
<1>1. /\ status[r] = "SIGNED"
      /\ \A q \in Rows : \/ q # r /\ tx'[q] = tx[q]
                         \/ q = r /\ tx'[q] = f /\ tx[q] # "NONE"
      BY DEF IInv, Typed, DurableWhileFlying, Flying
<1>2. Typed' /\ SignedNotTraded' /\ UnsignedNotAttempted' /\ LocksHold' /\ InHand' /\ InBatch'
      BY DEF IInv, Typed, SignedNotTraded, UnsignedNotAttempted, LocksHold, InHand, InBatch
<1>3. DurableWhileFlying' /\ VerdictIsTrue'
      BY <1>1 DEF IInv, DurableWhileFlying, VerdictIsTrue, Flying, Fates
<1>. QED BY <1>2, <1>3 DEF IInv

LEMMA ChainIInv ==
    ASSUME IInv, NEW r \in Rows, Broadcasts(r) \/ Lands(r) \/ Fails(r) \/ Expires(r)
    PROVE  IInv'
<1>1. /\ Flying(r)
      /\ \E f \in Fates \ {"NONE", "SIGNED"} : tx' = [tx EXCEPT ![r] = f]
      /\ UNCHANGED <<status, attempts, pos, run, failed, locks, batch, step, hand>>
      BY DEF Broadcasts, Lands, Fails, Expires, Flying, Fates, procVars, storeVars, memVars, tradeVars
<1>. QED BY <1>1, FateIInv

\* A signed row leaves the hand; it stays signed and locked.
LEMMA HandIInv ==
    ASSUME IInv, NEW r \in Rows, step \in {"SEND", "RECONCILE"},
           RowDone \/ GoesOn(r, "RECONCILE"), hand = {r},
           UNCHANGED <<status, attempts, tx, pos, run, failed, locks, batch>>
    PROVE  IInv'
<1>1. Typed' /\ SignedNotTraded' /\ DurableWhileFlying' /\ UnsignedNotAttempted' /\ VerdictIsTrue'
      BY DEF IInv, Typed, SignedNotTraded, DurableWhileFlying, UnsignedNotAttempted, VerdictIsTrue, Flying
<1>2. LocksHold' /\ InHand' /\ InBatch'
      BY DEF RowDone, GoesOn, IInv, LocksHold, InHand, InBatch
<1>. QED BY <1>1, <1>2 DEF IInv

LEMMA SentIInv == ASSUME IInv, NEW r \in Rows, SendAnswers(r) \/ StaysUnknown(r) PROVE IInv'
<1>1. /\ step \in {"SEND", "RECONCILE"} /\ hand = {r}
      /\ RowDone \/ GoesOn(r, "RECONCILE")
      /\ UNCHANGED <<status, attempts, tx, pos, run, failed, locks, batch>>
      BY DeferredKeeps DEF SendAnswers, StaysUnknown, Awaits, procVars, storeVars, tradeVars, chainVars
<1>. QED BY <1>1, HandIInv

\* The error of a send says nothing about the bytes: they may be on their way.
LEMMA SendFailsIInv == ASSUME IInv, NEW r \in Rows, SendFails(r) PROVE IInv'
<1>1. /\ step = "SEND" /\ hand = {r} /\ RowDone
      /\ UNCHANGED <<status, attempts, pos, run, failed, locks, batch>>
      BY DeferredKeeps DEF SendFails, Awaits, procVars, tradeVars
<1>2. CASE UNCHANGED tx
      BY <1>1, <1>2, HandIInv
<1>3. CASE tx[r] = "SIGNED" /\ tx' = [tx EXCEPT ![r] = "FLYING"]
  <2>1. /\ status[r] = "SIGNED"
        /\ \A q \in Rows : \/ q # r /\ tx'[q] = tx[q]
                           \/ q = r /\ tx'[q] = "FLYING" /\ tx[q] # "NONE"
        BY <1>3 DEF IInv, Typed, DurableWhileFlying, Flying
  <2>2. Typed' /\ SignedNotTraded' /\ UnsignedNotAttempted'
        BY <1>1, <1>3 DEF IInv, Typed, SignedNotTraded, UnsignedNotAttempted, Fates
  <2>3. DurableWhileFlying' /\ VerdictIsTrue'
        BY <1>1, <2>1 DEF IInv, DurableWhileFlying, VerdictIsTrue, Flying
  <2>4. LocksHold' /\ InHand' /\ InBatch'
        BY <1>1 DEF RowDone, IInv, LocksHold, InHand, InBatch
  <2>. QED BY <2>2, <2>3, <2>4 DEF IInv
<1>. QED BY <1>2, <1>3 DEF SendFails

\* Only a verdict of the chain ends a signed row.
LEMMA SettlesIInv == ASSUME IInv, NEW r \in Rows, Settles(r) PROVE IInv'
<1>1. /\ step = "RECONCILE" /\ hand = {r} /\ step' = "NEXT" /\ hand' = {}
      /\ locks' = locks \ {r} \/ UNCHANGED locks
      /\ UNCHANGED <<attempts, tx, pos, run, failed, batch>>
      /\ status' = [status EXCEPT ![r] = Verdict(r)]
      BY DEF Settles, Awaits, RowDone, Concludes, chainVars, tradeVars, procVars
<1>2. \/ tx[r] = "LANDED" /\ Verdict(r) = "CONFIRMED"
      \/ tx[r] \in {"FAILED", "EXPIRED"} /\ Verdict(r) = "BLOCKED"
      BY DEF Settles, Verdict
<1>3. \A q \in Rows : \/ status'[q] = status[q] /\ q # r
                      \/ status'[q] = Verdict(r) /\ q = r
      BY <1>1 DEF IInv, Typed
<1>4. Typed'
      BY <1>1, <1>2 DEF IInv, Typed, Statuses, Terminal
<1>5. SignedNotTraded' /\ UnsignedNotAttempted'
      BY <1>1, <1>2, <1>3 DEF IInv, SignedNotTraded, UnsignedNotAttempted
<1>6. DurableWhileFlying' /\ VerdictIsTrue'
      BY <1>1, <1>2, <1>3 DEF IInv, DurableWhileFlying, VerdictIsTrue, Flying
<1>7. LocksHold' /\ InHand' /\ InBatch'
      BY <1>1, <1>2, <1>3 DEF IInv, LocksHold, InHand, InBatch
<1>. QED BY <1>4, <1>5, <1>6, <1>7 DEF IInv

-----------------------------------------------------------------------------
(* Receipts, trades and the process *)

\* The receipts of trades touch unsigned rows only.
ReceiptMove(q) ==
    \/ status'[q] = status[q]
    \/ status'[q] = "PENDING" /\ status[q] = "NONE"
    \/ status'[q] = "SUPERSEDED" /\ status[q] \in {"NONE", "PENDING"}
    \/ status'[q] = "ABSENT" /\ status[q] \in {"PENDING", "SUPERSEDED"}

LEMMA RecordBirthMoves ==
    ASSUME Typed, NEW r \in Rows, RecordBirth(r)
    PROVE  status' \in [Rows -> Statuses] /\ \A q \in Rows : ReceiptMove(q)
BY DEF Typed, RecordBirth, Recorded, ReceiptMove, Statuses, Waiting, Terminal

LEMMA RecordCloseMoves ==
    ASSUME Typed, NEW r \in Rows, RecordClose(r)
    PROVE  status' \in [Rows -> Statuses] /\ \A q \in Rows : ReceiptMove(q)
BY DEF Typed, RecordClose, Recorded, ReceiptMove, Statuses, Waiting, Terminal

LEMMA ReceiptIInv == ASSUME IInv, NEW r \in Rows, RecordBirth(r) \/ RecordClose(r) PROVE IInv'
<1>1. status' \in [Rows -> Statuses] /\ \A q \in Rows : ReceiptMove(q)
      BY RecordBirthMoves, RecordCloseMoves DEF IInv
<1>2. UNCHANGED <<attempts, tx, pos, run, failed, locks, batch, step, hand>>
      BY DEF RecordBirth, RecordClose, procVars, memVars, tradeVars, chainVars
<1>3. Typed' /\ SignedNotTraded' /\ UnsignedNotAttempted'
      BY <1>1, <1>2 DEF ReceiptMove, IInv, Typed, SignedNotTraded, UnsignedNotAttempted, VerdictIsTrue
<1>4. DurableWhileFlying'
      BY <1>1, <1>2 DEF ReceiptMove, IInv, DurableWhileFlying, Flying
<1>5. VerdictIsTrue'
      BY <1>1, <1>2 DEF ReceiptMove, IInv, VerdictIsTrue, UnsignedNotAttempted
<1>6. LocksHold' /\ InHand' /\ InBatch'
      BY <1>1, <1>2 DEF ReceiptMove, IInv, LocksHold, InHand, InBatch
<1>. QED BY <1>3, <1>4, <1>5, <1>6 DEF IInv

\* Steps that move nothing the invariant speaks of.
LEMMA QuietIInv ==
    ASSUME IInv, UNCHANGED <<status, attempts, tx, pos, run, failed, locks, batch, step, hand>>
    PROVE  IInv'
<1>1. Typed' /\ SignedNotTraded' /\ DurableWhileFlying' /\ UnsignedNotAttempted' /\ VerdictIsTrue'
      BY DEF IInv, Typed, SignedNotTraded, DurableWhileFlying, UnsignedNotAttempted, VerdictIsTrue, Flying
<1>2. LocksHold' /\ InHand' /\ InBatch'
      BY DEF IInv, LocksHold, InHand, InBatch
<1>. QED BY <1>1, <1>2 DEF IInv

\* A position moves on, or starts where no row is signed.
LEMMA PosIInv ==
    ASSUME IInv, NEW m \in Mints, NEW p \in {"NONE", "OPENING", "OPEN", "EXITING"},
           pos' = [pos EXCEPT ![m] = p],
           p # "NONE" => \A r \in Rows : MintOf(r) = m => status[r] # "SIGNED",
           UNCHANGED <<status, attempts, tx, run, failed, locks, batch, step, hand>>
    PROVE  IInv'
<1>1. Typed'
      BY DEF IInv, Typed
<1>2. SignedNotTraded'
      BY MintOfRow DEF IInv, Typed, SignedNotTraded
<1>3. DurableWhileFlying' /\ UnsignedNotAttempted' /\ VerdictIsTrue'
      BY DEF IInv, DurableWhileFlying, UnsignedNotAttempted, VerdictIsTrue, Flying
<1>4. LocksHold' /\ InHand' /\ InBatch'
      BY DEF IInv, LocksHold, InHand, InBatch
<1>. QED BY <1>1, <1>2, <1>3, <1>4 DEF IInv

\* A mint that is not blocked has no signed row.
LEMMA NotBlockedUnsigned ==
    ASSUME IInv, run = "UP", NEW m \in Mints, ~BlocksMint(m)
    PROVE  \A r \in Rows : MintOf(r) = m => status[r] # "SIGNED"
BY DEF IInv, LocksHold, BlocksMint

LEMMA MintIInv == ASSUME IInv, NEW m \in Mints, MintStep(m) PROVE IInv'
<1> USE DEF procVars, storeVars, memVars, chainVars
<1>1. CASE Enter(m)
      BY <1>1, NotBlockedUnsigned, PosIInv DEF Enter
<1>2. ASSUME pos[m] # "NONE"
      PROVE  \A r \in Rows : MintOf(r) = m => status[r] # "SIGNED"
      BY <1>2 DEF IInv, SignedNotTraded
<1>3. CASE Bought(m)
      BY <1>3, <1>2, PosIInv DEF Bought
<1>4. CASE NotBought(m)
      BY <1>4, PosIInv DEF NotBought
<1>5. CASE Exits(m)
      BY <1>5, <1>2, PosIInv DEF Exits
<1>6. CASE SoldOut(m)
      BY <1>6, PosIInv DEF SoldOut
<1>7. CASE Reckons(m)
      BY <1>7, QuietIInv DEF Reckons
<1>8. CASE ClosedByHand(m)
      BY <1>8, QuietIInv DEF ClosedByHand
<1>. QED BY <1>1, <1>3, <1>4, <1>5, <1>6, <1>7, <1>8 DEF MintStep

\* A crash forgets locks, batch and hand; start reads the locks before it trades.
LEMMA ProcessIInv == ASSUME IInv, Stop \/ StopDone \/ Crash \/ Start PROVE IInv'
<1>1. UNCHANGED <<status, attempts, tx, pos>>
      BY DEF Stop, StopDone, Crash, Start, storeVars, tradeVars, chainVars
<1>2. Typed' /\ SignedNotTraded' /\ DurableWhileFlying' /\ UnsignedNotAttempted' /\ VerdictIsTrue'
      BY <1>1 DEF IInv, Typed, SignedNotTraded, DurableWhileFlying, UnsignedNotAttempted, VerdictIsTrue, Flying
<1>3. CASE Stop
  <2>1. UNCHANGED <<failed, locks, batch, step, hand>> /\ run = "UP" /\ run' = "STOPPING"
        BY <1>3 DEF Stop, memVars
  <2>. QED BY <1>1, <1>2, <2>1 DEF IInv, LocksHold, InHand, InBatch
<1>4. CASE StopDone \/ Crash
  <2>1. run' = "DOWN" /\ batch' = {} /\ step' = "IDLE" /\ hand' = {}
        BY <1>4 DEF StopDone, Crash, MemoryLost
  <2>. QED BY <1>1, <1>2, <2>1 DEF IInv, LocksHold, InHand, InBatch
<1>5. CASE Start
  <2>1. UNCHANGED <<batch, step, hand>> /\ SyncLocks
        BY <1>5 DEF Start
  <2>2. LocksHold'
        BY <1>1, <2>1, <1>5 DEF Start, IInv, InHand, LocksHold, SyncLocks, SignedRows
  <2>3. InHand'
        BY <1>5, <2>1 DEF Start, IInv, InHand
  <2>. QED BY <1>1, <1>2, <2>1, <2>2, <2>3 DEF IInv, InBatch
<1>. QED BY <1>3, <1>4, <1>5

-----------------------------------------------------------------------------
(* The invariant and what follows from it *)

LEMMA NextIInv == IInv /\ [Next]_vars => IInv'
<1> SUFFICES ASSUME IInv, [Next]_vars PROVE IInv'
    OBVIOUS
<1>1. CASE RunStarts
      BY <1>1, RunStartsIInv
<1>2. CASE RunEnds
      BY <1>2, RunEndsIInv
<1>3. ASSUME NEW r \in Rows, RowStep(r) PROVE IInv'
  <2>1. CASE SkipsRow(r) \/ PutsOff(r)
        BY <2>1, SkipsRowIInv
  <2>2. CASE Prepares(r)
        BY <2>2, PreparesIInv
  <2>3. CASE GivesUp(r)
        BY <2>3, GivesUpIInv
  <2>4. CASE Signs(r)
        BY <2>4, SignsIInv
  <2>5. CASE Broadcasts(r) \/ Lands(r) \/ Fails(r) \/ Expires(r)
        BY <2>5, ChainIInv
  <2>6. CASE SendAnswers(r) \/ StaysUnknown(r)
        BY <2>6, SentIInv
  <2>7. CASE SendFails(r)
        BY <2>7, SendFailsIInv
  <2>8. CASE Reconciles(r)
        BY <2>8, ReconcilesIInv
  <2>9. CASE Settles(r)
        BY <2>9, SettlesIInv
  <2>10. CASE BecomesDue(r)
        BY <2>10, QuietIInv DEF BecomesDue, procVars, memVars, tradeVars, chainVars
  <2>11. CASE RecordBirth(r) \/ RecordClose(r)
        BY <2>11, ReceiptIInv
  <2>. QED BY <1>3, <2>1, <2>2, <2>3, <2>4, <2>5, <2>6, <2>7, <2>8, <2>9, <2>10, <2>11 DEF RowStep
<1>4. ASSUME NEW m \in Mints, MintStep(m) PROVE IInv'
      BY <1>4, MintIInv
<1>5. CASE Stop \/ StopDone \/ Crash \/ Start
      BY <1>5, ProcessIInv
<1>6. CASE UNCHANGED vars
      BY <1>6, QuietIInv DEF vars, procVars, storeVars, memVars, tradeVars, chainVars
<1>. QED BY <1>1, <1>2, <1>3, <1>4, <1>5, <1>6 DEF Next

\* The inductive invariant holds throughout.
THEOREM Invariant == Spec => []IInv
BY InitIInv, NextIInv, PTL DEF Spec

\* Nobody trades a mint while a closing transaction of it may be executed.
THEOREM ClosingExcludesTrading == Spec => []NoTradeWhileClosing
<1>1. IInv => NoTradeWhileClosing
      BY DEF IInv, SignedNotTraded, DurableWhileFlying, NoTradeWhileClosing
<1>. QED BY <1>1, Invariant, PTL

\* A running process that can read its outbox holds the lock of every signed row.
THEOREM LocksAreRestored == Spec => []LocksCoverSigned
<1>1. IInv => LocksCoverSigned
      BY DEF IInv, LocksHold, LocksCoverSigned, SignedRows
<1>. QED BY <1>1, Invariant, PTL

\* What may be executed is durable, and signed only once.
THEOREM SignedOnce == Spec => []DurableWhileFlying
<1>1. IInv => DurableWhileFlying
      BY DEF IInv
<1>. QED BY <1>1, Invariant, PTL

\* The conclusions of the rows agree with the chain.
THEOREM VerdictsAreTrue == Spec => []VerdictIsTrue
<1>1. IInv => VerdictIsTrue
      BY DEF IInv
<1>. QED BY <1>1, Invariant, PTL

-----------------------------------------------------------------------------
(* What becomes of the status of a row in one step *)

LEMMA StatusMoves ==
    ASSUME IInv, [Next]_vars
    PROVE  \A q \in Rows :
              \/ status'[q] = status[q]
              \/ ReceiptMove(q) /\ attempts'[q] = attempts[q]
              \/ status[q] = "PENDING" /\ status'[q] = "BLOCKED" /\ attempts'[q] = attempts[q]
              \/ Signs(q) /\ status[q] = "PENDING" /\ status'[q] = "SIGNED"
              \/ Settles(q) /\ status[q] = "SIGNED" /\ status'[q] \in {"CONFIRMED", "BLOCKED"}
<1> SUFFICES ASSUME NEW q \in Rows, status'[q] # status[q]
             PROVE  \/ ReceiptMove(q) /\ attempts'[q] = attempts[q]
                    \/ status[q] = "PENDING" /\ status'[q] = "BLOCKED" /\ attempts'[q] = attempts[q]
                    \/ Signs(q) /\ status[q] = "PENDING" /\ status'[q] = "SIGNED"
                    \/ Settles(q) /\ status[q] = "SIGNED" /\ status'[q] \in {"CONFIRMED", "BLOCKED"}
    OBVIOUS
<1>0. ~ UNCHANGED status
      OBVIOUS
<1>1. PICK r \in Rows : GivesUp(r) \/ Signs(r) \/ Settles(r) \/ RecordBirth(r) \/ RecordClose(r)
  <2>1. ~RunStarts /\ ~RunEnds /\ ~Stop /\ ~StopDone /\ ~Crash /\ ~Start
        BY <1>0 DEF RunStarts, RunEnds, Stop, StopDone, Crash, Start, storeVars
  <2>2. ASSUME NEW m \in Mints PROVE ~MintStep(m)
        BY <1>0 DEF MintStep, Enter, Bought, NotBought, Exits, SoldOut, Reckons, ClosedByHand, storeVars
  <2>3. ASSUME NEW r \in Rows
        PROVE  /\ ~SkipsRow(r) /\ ~PutsOff(r) /\ ~Prepares(r) /\ ~Reconciles(r)
               /\ ~Broadcasts(r) /\ ~SendAnswers(r) /\ ~SendFails(r) /\ ~StaysUnknown(r)
               /\ ~BecomesDue(r) /\ ~Lands(r) /\ ~Fails(r) /\ ~Expires(r)
        BY <1>0, DeferredKeeps
        DEF SkipsRow, PutsOff, Prepares, Reconciles, Broadcasts, SendAnswers, SendFails,
            StaysUnknown, BecomesDue, Lands, Fails, Expires, storeVars
  <2>4. ~ UNCHANGED vars
        BY <1>0 DEF vars, storeVars
  <2>. QED BY <2>1, <2>2, <2>3, <2>4 DEF Next, RowStep
<1>2. CASE RecordBirth(r) \/ RecordClose(r)
  <2>1. UNCHANGED attempts
        BY <1>2 DEF RecordBirth, RecordClose
  <2>. QED BY <1>2, <2>1, RecordBirthMoves, RecordCloseMoves DEF IInv
<1>3. CASE GivesUp(r)
  <2>1. status[r] # "SIGNED" /\ UNCHANGED attempts
        BY <1>3 DEF GivesUp, Awaits, IInv, InHand
  <2>2. status[r] = "PENDING" /\ \E s \in {"ABSENT", "BLOCKED"} : status' = [status EXCEPT ![r] = s]
        BY <1>0, <1>3, <2>1, DeferredKeeps DEF GivesUp, Concludes, Waiting
  <2>. QED BY <2>1, <2>2 DEF IInv, Typed, ReceiptMove
<1>4. CASE Signs(r)
  <2>1. status[r] = "PENDING" /\ status' = [status EXCEPT ![r] = "SIGNED"]
        BY <1>0, <1>4 DEF Signs, NotSaved
  <2>. QED BY <1>4, <2>1 DEF IInv, Typed
<1>5. CASE Settles(r)
  <2>1. /\ Verdict(r) \in {"CONFIRMED", "BLOCKED"} /\ tx[r] # "NONE" /\ status[r] \in Waiting
        /\ status' = [status EXCEPT ![r] = Verdict(r)]
        BY <1>5 DEF Settles, Verdict, Concludes
  <2>2. status[r] = "SIGNED"
        BY <2>1 DEF IInv, DurableWhileFlying, UnsignedNotAttempted, Waiting
  <2>. QED BY <1>5, <2>1, <2>2 DEF IInv, Typed
<1>. QED BY <1>1, <1>2, <1>3, <1>4, <1>5

\* No stale copy of a row reopens it.
THEOREM ConclusionsStay == Spec => ConclusionsAreFinal
<1>1. IInv /\ [Next]_vars => [\A r \in Rows : KeepsConclusion(r)]_vars
  <2> SUFFICES ASSUME IInv, [Next]_vars, NEW r \in Rows PROVE KeepsConclusion(r)
      OBVIOUS
  <2>1. \/ status'[r] = status[r]
        \/ ReceiptMove(r)
        \/ status[r] = "PENDING"
        \/ status[r] = "SIGNED" /\ status'[r] \in {"CONFIRMED", "BLOCKED"}
        BY StatusMoves
  <2>. QED BY <2>1 DEF KeepsConclusion, ReceiptMove, Terminal
<1>. QED BY <1>1, Invariant, PTL DEF Spec, ConclusionsAreFinal

-----------------------------------------------------------------------------
(* Generations: which account a row speaks of *)

\* The generation of the row existed and does not any more.
Gone(r) == GenOf(r) <= gen[MintOf(r)] /\ account[MintOf(r)] # GenOf(r)

GensTyped ==
    /\ account \in [Mints -> 0..MaxGens]
    /\ gen \in [Mints -> 0..MaxGens]
    /\ \A m \in Mints : account[m] \in {0, gen[m]}

RowsBorn == \A r \in Rows : status[r] # "NONE" => GenOf(r) <= gen[MintOf(r)]

TradedGone == traded \subseteq Rows /\ \A r \in traded : Gone(r)

DroppedGone ==
    \A r \in Rows : status[r] \in {"CONFIRMED", "SUPERSEDED", "ABSENT"} \/ tx[r] = "LANDED" => Gone(r)

FlyingOwn == \A r \in Rows : Flying(r) => account[MintOf(r)] \in {0, GenOf(r)}

Ages == GensTyped /\ RowsBorn /\ TradedGone /\ DroppedGone /\ FlyingOwn

LEMMA GenOfRow == \A r \in Rows : GenOf(r) \in 1..MaxGens
BY DEF Rows, GenOf

LEMMA InitAges == Init => Ages
<1> SUFFICES ASSUME Init PROVE Ages
    OBVIOUS
<1>1. GensTyped
      BY RecoveryAssumption DEF Init, GensTyped, Generations
<1>2. ASSUME NEW r \in Rows, status[r] # "NONE"
      PROVE  GenOf(r) = 1 /\ account[MintOf(r)] = 1 /\ gen[MintOf(r)] = 1
  <2>1. r \in Unsigned \X {1} \/ r \in Signed \X {1}
        BY <1>2 DEF Init
  <2>2. MintOf(r) \in Left /\ GenOf(r) = 1
        BY <2>1 DEF Left, MintOf, GenOf
  <2>. QED BY <2>2, MintOfRow DEF Init, Generations
<1>3. RowsBorn /\ TradedGone
      BY <1>2 DEF RowsBorn, TradedGone, Init
<1>4. DroppedGone
      BY DEF Init, DroppedGone
<1>5. FlyingOwn
  <2>1. \A r \in Rows : Flying(r) => status[r] # "NONE"
        BY InitIInv DEF IInv, DurableWhileFlying
  <2>. QED BY <2>1, <1>2 DEF FlyingOwn
<1>. QED BY <1>1, <1>3, <1>4, <1>5 DEF Ages

\* Neither the account nor the set of generations moves, nor a row's conclusion.
LEMMA StillAges ==
    ASSUME Ages, UNCHANGED <<account, gen, traded>>,
           \A r \in Rows : status'[r] = status[r] \/ (status[r] # "NONE" /\ status'[r] \in {"SIGNED", "BLOCKED"}),
           \A r \in Rows : tx'[r] = tx[r] \/ (Flying(r) /\ tx'[r] # "LANDED")
    PROVE  Ages'
<1>1. GensTyped' /\ RowsBorn'
      BY DEF Ages, GensTyped, RowsBorn
<1>2. TradedGone' /\ DroppedGone'
      BY DEF Ages, TradedGone, DroppedGone, Gone
<1>3. FlyingOwn'
      BY DEF Ages, FlyingOwn, Flying
<1>. QED BY <1>1, <1>2, <1>3 DEF Ages

LEMMA SameAges == ASSUME Ages, UNCHANGED <<account, gen, traded, status, tx>> PROVE Ages'
BY StillAges

\* A new signature is for the account as it is.
LEMMA SignsAges == ASSUME IInv, Ages, NEW r \in Rows, Signs(r) PROVE Ages'
<1>1. UNCHANGED <<account, gen, traded>> /\ account[MintOf(r)] \in {0, GenOf(r)}
      BY DEF Signs, tradeVars
<1>2. CASE UNCHANGED <<status, tx>>
      BY <1>1, <1>2, SameAges
<1>3. CASE /\ status[r] = "PENDING" /\ status' = [status EXCEPT ![r] = "SIGNED"]
           /\ tx' = [tx EXCEPT ![r] = "SIGNED"]
  <2>1. \A q \in Rows : \/ q # r /\ status'[q] = status[q] /\ tx'[q] = tx[q]
                        \/ q = r /\ status'[q] = "SIGNED" /\ tx'[q] = "SIGNED"
        BY <1>3 DEF IInv, Typed
  <2>2. GensTyped' /\ RowsBorn'
        BY <1>1, <1>3, <2>1 DEF Ages, GensTyped, RowsBorn
  <2>3. TradedGone' /\ DroppedGone'
        BY <1>1, <2>1 DEF Ages, TradedGone, DroppedGone, Gone
  <2>4. FlyingOwn'
        BY <1>1, <2>1 DEF Ages, FlyingOwn, Flying
  <2>. QED BY <2>2, <2>3, <2>4 DEF Ages
<1>. QED BY <1>2, <1>3 DEF Signs, NotSaved

\* Rows that turn out absent, superseded or settled speak of accounts that are gone.
LEMMA DropAges ==
    ASSUME Ages, UNCHANGED <<account, gen, traded, tx>>,
           \A r \in Rows : status'[r] = status[r] \/ GenOf(r) <= gen[MintOf(r)],
           \A r \in Rows : \/ status'[r] = status[r]
                           \/ status'[r] \in {"PENDING", "SIGNED", "BLOCKED"}
                           \/ Gone(r)
    PROVE  Ages'
<1>1. GensTyped' /\ RowsBorn'
      BY DEF Ages, GensTyped, RowsBorn
<1>2. TradedGone' /\ DroppedGone'
      BY DEF Ages, TradedGone, DroppedGone, Gone
<1>3. FlyingOwn'
      BY DEF Ages, FlyingOwn, Flying
<1>. QED BY <1>1, <1>2, <1>3 DEF Ages

LEMMA GivesUpAges == ASSUME IInv, Ages, NEW r \in Rows, GivesUp(r) PROVE Ages'
<1>1. UNCHANGED <<account, gen, traded, tx>>
      BY DEF GivesUp, tradeVars, chainVars
<1>2. \/ UNCHANGED status
      \/ /\ status[r] \in Waiting
         /\ \/ status' = [status EXCEPT ![r] = "BLOCKED"]
            \/ account[MintOf(r)] = 0 /\ status' = [status EXCEPT ![r] = "ABSENT"]
      BY DeferredKeeps DEF GivesUp, Concludes
<1>3. CASE UNCHANGED status
      BY <1>1, <1>3, SameAges
<1>4. CASE /\ status[r] \in Waiting
           /\ \/ status' = [status EXCEPT ![r] = "BLOCKED"]
              \/ account[MintOf(r)] = 0 /\ status' = [status EXCEPT ![r] = "ABSENT"]
  <2>1. GenOf(r) <= gen[MintOf(r)]
        BY <1>4 DEF Ages, RowsBorn, Waiting
  <2>2. account[MintOf(r)] = 0 => Gone(r)
        BY <2>1, GenOfRow, RecoveryAssumption DEF Gone
  <2>3. \A q \in Rows : q # r => status'[q] = status[q]
        BY <1>4 DEF IInv, Typed
  <2>4. status'[r] = "BLOCKED" \/ account[MintOf(r)] = 0
        BY <1>4 DEF IInv, Typed
  <2>. QED BY <1>1, <2>1, <2>2, <2>3, <2>4, DropAges
<1>. QED BY <1>2, <1>3, <1>4

LEMMA SettlesAges == ASSUME IInv, Ages, NEW r \in Rows, Settles(r) PROVE Ages'
<1>1. UNCHANGED <<account, gen, traded, tx>>
      BY DEF Settles, tradeVars, chainVars
<1>2. /\ status[r] \in Waiting /\ status' = [status EXCEPT ![r] = Verdict(r)]
      /\ Verdict(r) = "BLOCKED" \/ (Verdict(r) = "CONFIRMED" /\ tx[r] = "LANDED")
      BY DEF Settles, Concludes, Verdict
<1>3. GenOf(r) <= gen[MintOf(r)]
      BY <1>2 DEF Ages, RowsBorn, Waiting
<1>4. \A q \in Rows : \/ q # r /\ status'[q] = status[q]
                      \/ q = r /\ status'[q] = Verdict(r)
      BY <1>2 DEF IInv, Typed
<1>5. Verdict(r) = "BLOCKED" \/ Gone(r)
      BY <1>2 DEF Ages, DroppedGone
<1>. QED BY <1>1, <1>3, <1>4, <1>5, DropAges

\* Whatever the order of the receipts: a row is superseded by a later generation,
\* which exists.
LEMMA RecordBirthAges == ASSUME IInv, Ages, NEW r \in Rows, RecordBirth(r) PROVE Ages'
<1>1. UNCHANGED <<account, gen, traded, tx>>
      BY DEF RecordBirth, tradeVars, chainVars
<1>2. ASSUME NEW q \in Rows, status'[q] # status[q]
      PROVE  /\ MintOf(q) = MintOf(r)
             /\ \/ status'[q] = "PENDING" /\ q = r
                \/ status'[q] = "SUPERSEDED" /\ \E k \in Recorded(MintOf(r)) \cup {r} : GenOf(k) > GenOf(q)
  <2> DEFINE known == Recorded(MintOf(r)) \cup {r}
             Old == \E k \in known : GenOf(k) > GenOf(q)
  <2>1. status'[q] = IF q \in known /\ Old /\ (q = r \/ status[q] = "PENDING") THEN "SUPERSEDED"
                     ELSE IF q = r THEN "PENDING" ELSE status[q]
        BY DEF RecordBirth
  <2>2. q \in known => MintOf(q) = MintOf(r)
        BY DEF Recorded
  <2>. QED BY <1>2, <2>1, <2>2
<1>3. \A k \in Recorded(MintOf(r)) \cup {r} : k \in Rows /\ GenOf(k) <= gen[MintOf(r)]
      BY DEF RecordBirth, Recorded, Ages, RowsBorn
<1>4. ASSUME NEW q \in Rows, status'[q] # status[q]
      PROVE  /\ GenOf(q) <= gen[MintOf(q)]
             /\ status'[q] = "PENDING" \/ Gone(q)
  <2>1. CASE status'[q] = "PENDING" /\ q = r
        BY <2>1 DEF RecordBirth
  <2>2. CASE status'[q] = "SUPERSEDED" /\ \E k \in Recorded(MintOf(r)) \cup {r} : GenOf(k) > GenOf(q)
    <3>1. PICK k \in Recorded(MintOf(r)) \cup {r} : GenOf(k) > GenOf(q)
          BY <2>2
    <3>2. /\ GenOf(k) \in 1..MaxGens /\ GenOf(q) \in 1..MaxGens
          /\ GenOf(k) <= gen[MintOf(q)] /\ MintOf(q) \in Mints
          BY <1>2, <1>3, <1>4, GenOfRow, MintOfRow
    <3>3. gen[MintOf(q)] \in Nat /\ account[MintOf(q)] \in {0, gen[MintOf(q)]}
          BY <3>2, RecoveryAssumption DEF Ages, GensTyped
    <3>. QED BY <3>1, <3>2, <3>3, RecoveryAssumption DEF Gone
  <2>. QED BY <1>2, <1>4, <2>1, <2>2
<1>. QED BY <1>1, <1>4, DropAges

\* The row marked absent by a closing sell is not younger than what it closed.
LEMMA RecordCloseAges == ASSUME IInv, Ages, NEW r \in Rows, RecordClose(r) PROVE Ages'
<1>1. UNCHANGED <<account, gen, traded, tx>> /\ r \in traded
      BY DEF RecordClose, tradeVars, chainVars
<1>2. PICK q \in Recorded(MintOf(r)) : /\ GenOf(q) <= GenOf(r)
                                       /\ status[q] \in {"PENDING", "SUPERSEDED"}
                                       /\ status' = [status EXCEPT ![q] = "ABSENT"]
      BY DEF RecordClose
<1>3. q \in Rows /\ MintOf(q) = MintOf(r) /\ MintOf(r) \in Mints
      BY MintOfRow DEF Recorded
<1>4. /\ GenOf(q) \in 1..MaxGens /\ GenOf(r) \in 1..MaxGens
      /\ gen[MintOf(r)] \in 0..MaxGens /\ account[MintOf(r)] \in {0, gen[MintOf(r)]}
      BY <1>3, GenOfRow DEF Ages, GensTyped
<1>5. Gone(r)
      BY <1>1 DEF Ages, TradedGone
<1>6. Gone(q)
      BY <1>2, <1>3, <1>4, <1>5, RecoveryAssumption DEF Gone
<1>7. \A k \in Rows : status'[k] = status[k] \/ k = q
      BY <1>2, <1>3 DEF IInv, Typed
<1>. QED BY <1>1, <1>6, <1>7, DropAges DEF Gone

\* The account of a mint disappears: closed by its owner, by a sell or by us.
LEMMA ClosedAges ==
    ASSUME Ages, NEW m \in Mints, account' = [account EXCEPT ![m] = 0],
           UNCHANGED <<gen, status>>,
           \A r \in Rows : \/ tx'[r] = tx[r]
                           \/ /\ tx'[r] = "LANDED" /\ MintOf(r) = m
                              /\ GenOf(r) <= gen[m],
           \A r \in traded' : r \in traded \/ (r \in Rows /\ MintOf(r) = m /\ GenOf(r) <= gen[m])
    PROVE  Ages'
<1>1. GensTyped' /\ RowsBorn'
      BY RecoveryAssumption DEF Ages, GensTyped, RowsBorn
<1>2. ASSUME NEW r \in Rows, Gone(r) \/ (MintOf(r) = m /\ GenOf(r) <= gen[m])
      PROVE  Gone(r)'
      BY <1>2, GenOfRow, MintOfRow, RecoveryAssumption DEF Ages, GensTyped, Gone
<1>3. TradedGone'
      BY <1>2 DEF Ages, TradedGone
<1>4. DroppedGone'
      BY <1>2 DEF Ages, DroppedGone
<1>5. FlyingOwn'
  <2>1. ASSUME NEW r \in Rows, Flying(r)' PROVE account'[MintOf(r)] \in {0, GenOf(r)}
    <3>1. Flying(r)
          BY <2>1 DEF Flying
    <3>. QED BY <3>1, MintOfRow DEF Ages, GensTyped, FlyingOwn
  <2>. QED BY <2>1 DEF FlyingOwn
<1>. QED BY <1>1, <1>3, <1>4, <1>5 DEF Ages

\* A transaction can only be executed on the generation it was signed for.
LEMMA LandsOwn == ASSUME IInv, Ages, NEW r \in Rows, Lands(r) PROVE account[MintOf(r)] = GenOf(r)
<1>1. account[MintOf(r)] \in {0, GenOf(r)} /\ account[MintOf(r)] > 0
      BY DEF Lands, Ages, FlyingOwn, Flying
<1>. QED BY <1>1

LEMMA LandsAges == ASSUME IInv, Ages, NEW r \in Rows, Lands(r) PROVE Ages'
<1>1. /\ UNCHANGED <<gen, status, traded>> /\ tx' = [tx EXCEPT ![r] = "LANDED"]
      /\ account' = [account EXCEPT ![MintOf(r)] = 0] /\ status[r] = "SIGNED"
      BY DEF Lands, tradeVars, storeVars, IInv, DurableWhileFlying, Flying
<1>2. GenOf(r) <= gen[MintOf(r)] /\ MintOf(r) \in Mints
      BY <1>1, MintOfRow DEF Ages, RowsBorn
<1>3. \A q \in Rows : (q = r /\ tx'[q] = "LANDED") \/ tx'[q] = tx[q]
      BY <1>1 DEF IInv, Typed
<1>4. \A q \in traded' : q \in traded
      BY <1>1
<1>. QED BY <1>1, <1>2, <1>3, <1>4, ClosedAges

LEMMA SoldOutAges == ASSUME IInv, Ages, NEW m \in Mints, SoldOut(m) PROVE Ages'
<1>1. UNCHANGED <<gen, status, tx>>
      BY DEF SoldOut, storeVars
<1>2. CASE UNCHANGED <<account, traded>>
      BY <1>1, <1>2, SameAges
<1>3. CASE /\ account[m] > 0 /\ account' = [account EXCEPT ![m] = 0]
           /\ traded' = traded \cup {<<m, account[m]>>}
  <2>1. /\ account[m] \in 0..MaxGens /\ account[m] \in {0, gen[m]}
        BY DEF Ages, GensTyped
  <2>2. <<m, account[m]>> \in Rows /\ MintOf(<<m, account[m]>>) = m /\ GenOf(<<m, account[m]>>) <= gen[m]
        BY <1>3, <2>1, RecoveryAssumption DEF Rows, MintOf, GenOf
  <2>. QED BY <1>1, <1>3, <2>2, ClosedAges
<1>. QED BY <1>2, <1>3 DEF SoldOut

\* A buy creates a new generation when the account is gone; no transaction for an
\* older one can still be executed, because the mint was not blocked.
LEMMA BoughtAges == ASSUME IInv, Ages, NEW m \in Mints, Bought(m) PROVE Ages'
<1>1. UNCHANGED <<traded, status, tx>> /\ pos[m] = "OPENING"
      BY DEF Bought, storeVars
<1>2. CASE account[m] # 0
  <2>1. /\ account' = [account EXCEPT ![m] = account[m]]
        /\ gen' = [gen EXCEPT ![m] = IF account[m] > gen[m] THEN account[m] ELSE gen[m]]
        BY <1>2 DEF Bought
  <2>2. account[m] = gen[m] /\ gen[m] \in 0..MaxGens
        BY <1>2 DEF Ages, GensTyped
  <2>3. UNCHANGED <<account, gen>>
        BY <2>1, <2>2, RecoveryAssumption DEF Ages, GensTyped
  <2>. QED BY <1>1, <2>3, SameAges
<1>3. CASE account[m] = 0
  <2>1. /\ account' = [account EXCEPT ![m] = gen[m] + 1] /\ gen[m] + 1 <= MaxGens
        /\ gen' = [gen EXCEPT ![m] = gen[m] + 1] /\ gen[m] \in 0..MaxGens
    <3>1. gen[m] \in 0..MaxGens
          BY DEF Ages, GensTyped
    <3>2. /\ account' = [account EXCEPT ![m] = gen[m] + 1] /\ gen[m] + 1 <= MaxGens
          /\ gen' = [gen EXCEPT ![m] = IF gen[m] + 1 > gen[m] THEN gen[m] + 1 ELSE gen[m]]
          BY <1>3, Zenon DEF Bought
    <3>3. gen[m] + 1 > gen[m]
          BY <3>1, RecoveryAssumption
    <3>. QED BY <3>1, <3>2, <3>3, Zenon
  <2>2. GensTyped'
        BY <2>1, RecoveryAssumption DEF Ages, GensTyped
  <2>3. RowsBorn'
        BY <1>1, <2>1, MintOfRow, GenOfRow, RecoveryAssumption DEF Ages, GensTyped, RowsBorn
  <2>4. ASSUME NEW r \in Rows, Gone(r) PROVE Gone(r)'
        BY <2>1, <2>4, MintOfRow, GenOfRow, RecoveryAssumption DEF Ages, GensTyped, Gone
  <2>5. TradedGone' /\ DroppedGone'
        BY <1>1, <2>4 DEF Ages, TradedGone, DroppedGone
  <2>6. \A r \in Rows : Flying(r) => MintOf(r) # m
        BY <1>1 DEF IInv, SignedNotTraded, DurableWhileFlying
  <2>7. FlyingOwn'
        BY <1>1, <2>1, <2>6, MintOfRow DEF Ages, GensTyped, FlyingOwn, Flying
  <2>. QED BY <2>2, <2>3, <2>5, <2>7 DEF Ages
<1>. QED BY <1>2, <1>3

LEMMA NextAges == IInv /\ Ages /\ [Next]_vars => Ages'
<1> SUFFICES ASSUME IInv, Ages, [Next]_vars PROVE Ages'
    OBVIOUS
<1> USE DEF storeVars, tradeVars, chainVars
<1>1. CASE RunStarts \/ RunEnds \/ Stop \/ StopDone \/ Crash \/ Start
      BY <1>1, SameAges DEF RunStarts, RunEnds, Stop, StopDone, Crash, Start
<1>2. ASSUME NEW r \in Rows, RowStep(r) PROVE Ages'
  <2>1. CASE SkipsRow(r) \/ PutsOff(r) \/ Prepares(r) \/ Reconciles(r) \/ SendAnswers(r)
             \/ StaysUnknown(r) \/ BecomesDue(r)
        BY <2>1, DeferredKeeps, SameAges
        DEF SkipsRow, PutsOff, Prepares, Reconciles, SendAnswers, StaysUnknown, BecomesDue
  <2>2. CASE Broadcasts(r) \/ SendFails(r) \/ Fails(r) \/ Expires(r)
    <3>1. UNCHANGED <<account, gen, traded, status>>
          BY <2>2, DeferredKeeps DEF Broadcasts, SendFails, Fails, Expires
    <3>2. UNCHANGED tx \/ \E f \in {"FLYING", "FAILED", "EXPIRED"} : Flying(r) /\ tx' = [tx EXCEPT ![r] = f]
          BY <2>2 DEF Broadcasts, SendFails, Fails, Expires, Flying
    <3>3. \A q \in Rows : tx'[q] = tx[q] \/ (Flying(q) /\ tx'[q] # "LANDED")
          BY <3>2 DEF IInv, Typed
    <3>. QED BY <3>1, <3>3, StillAges
  <2>3. CASE GivesUp(r) \/ Signs(r) \/ Settles(r) \/ RecordBirth(r) \/ RecordClose(r) \/ Lands(r)
        BY <2>3, GivesUpAges, SignsAges, SettlesAges, RecordBirthAges, RecordCloseAges, LandsAges
  <2>. QED BY <1>2, <2>1, <2>2, <2>3 DEF RowStep
<1>3. ASSUME NEW m \in Mints, MintStep(m) PROVE Ages'
  <2>1. CASE Enter(m) \/ NotBought(m) \/ Exits(m) \/ Reckons(m)
        BY <2>1, SameAges DEF Enter, NotBought, Exits, Reckons
  <2>2. CASE ClosedByHand(m)
    <3>1. /\ account' = [account EXCEPT ![m] = 0]
          /\ UNCHANGED <<gen, status, tx, traded>>
          BY <2>2 DEF ClosedByHand
    <3>. QED BY <3>1, ClosedAges
  <2>. QED BY <1>3, <2>1, <2>2, SoldOutAges, BoughtAges DEF MintStep
<1>4. CASE UNCHANGED vars
      BY <1>4, SameAges DEF vars
<1>. QED BY <1>1, <1>2, <1>3, <1>4 DEF Next

LEMMA AgesHold == Spec => []Ages
BY InitAges, NextAges, Invariant, PTL DEF Spec

\* A candidate is dropped, or its refund counted, only when its account is gone.
THEOREM DroppedAreGone == Spec => []DroppedOnlyIfGone
<1>1. Ages => DroppedOnlyIfGone
      BY DEF Ages, DroppedGone, Gone, DroppedOnlyIfGone
<1>. QED BY <1>1, AgesHold, PTL

\* A signed row is durable, unique and, in a running process, locked (_save, start).
THEOREM SignedRowsCovered == Spec => []SignedIsCovered
<1>1. LocksCoverSigned /\ DurableWhileFlying => SignedIsCovered
      BY DEF SignedIsCovered
<1>. QED BY <1>1, LocksAreRestored, SignedOnce, PTL

\* What the store says of a concluded row is what happened on chain.
THEOREM StoreAgreesWithChain == Spec => []ConclusionsAreTrue
<1>1. VerdictIsTrue /\ DroppedOnlyIfGone => ConclusionsAreTrue
      BY DEF ConclusionsAreTrue
<1>. QED BY <1>1, VerdictsAreTrue, DroppedAreGone, PTL

\* A closing transaction closes the account it was signed for.
THEOREM OnlyItsOwn == Spec => ClosesItsOwn
<1>1. IInv /\ Ages /\ [Next]_vars => [\A r \in Rows : LandsOn(r)]_vars
  <2> SUFFICES ASSUME IInv, Ages, [Next]_vars, NEW r \in Rows, tx[r] # "LANDED", tx'[r] = "LANDED"
               PROVE  account[MintOf(r)] = GenOf(r)
      BY DEF LandsOn
  <2>0. ~ UNCHANGED tx
        OBVIOUS
  <2>1. ~RunStarts /\ ~RunEnds /\ ~Stop /\ ~StopDone /\ ~Crash /\ ~Start /\ ~ UNCHANGED vars
        BY <2>0 DEF RunStarts, RunEnds, Stop, StopDone, Crash, Start, vars, chainVars
  <2>2. ASSUME NEW m \in Mints PROVE ~MintStep(m)
        BY <2>0 DEF MintStep, Enter, Bought, NotBought, Exits, SoldOut, Reckons, ClosedByHand, chainVars
  <2>3. PICK q \in Rows : RowStep(q)
        BY <2>1, <2>2 DEF Next
  <2>4. ~(SkipsRow(q) \/ PutsOff(q) \/ Prepares(q) \/ GivesUp(q) \/ SendAnswers(q) \/ Reconciles(q)
          \/ Settles(q) \/ StaysUnknown(q) \/ BecomesDue(q) \/ RecordBirth(q) \/ RecordClose(q))
        BY <2>0 DEF SkipsRow, PutsOff, Prepares, GivesUp, SendAnswers, Reconciles, Settles,
                    StaysUnknown, BecomesDue, RecordBirth, RecordClose, chainVars
  <2>5. ~(Signs(q) \/ Broadcasts(q) \/ SendFails(q) \/ Fails(q) \/ Expires(q))
        BY DEF Signs, Broadcasts, SendFails, Fails, Expires, IInv, Typed
  <2>6. Lands(q)
        BY <2>3, <2>4, <2>5 DEF RowStep
  <2>7. q = r
        BY <2>6 DEF Lands, IInv, Typed
  <2>. QED BY <2>6, <2>7, LandsOwn
<1>. QED BY <1>1, Invariant, AgesHold, PTL DEF Spec, ClosesItsOwn

-----------------------------------------------------------------------------
(* Types, with the order of the due rows and the size of a batch *)

ProcTyped == run \in {"DOWN", "UP", "STOPPING"} /\ stops \in 0..MaxStops /\ enabled \in BOOLEAN

DueTyped ==
    /\ due \subseteq {r \in Rows : status[r] \in Waiting} /\ InLine(due, before)
    /\ IsFiniteSet(due)

WorkTyped ==
    /\ failed \in BOOLEAN /\ locks \subseteq Rows
    /\ batch \subseteq BatchRow /\ Cardinality(batch) + Cardinality(hand) <= BatchSize
    /\ step \in {"IDLE", "NEXT", "PREPARE", "SEND", "RECONCILE"}
    /\ hand \subseteq Rows /\ (hand = {} <=> step \in {"IDLE", "NEXT"})
    /\ IsFiniteSet(batch) /\ (hand = {} \/ \E r \in Rows : hand = {r})

TradeTyped ==
    /\ dealings \in 0..MaxDealings /\ owed \subseteq Mints
    /\ account \in [Mints -> 0..MaxGens] /\ gen \in [Mints -> 0..MaxGens]
    /\ traded \subseteq Rows

TInv == ProcTyped /\ DueTyped /\ WorkTyped /\ TradeTyped

LEMMA TypesJoin == IInv /\ TInv => TypeOK
BY DEF IInv, Typed, TInv, ProcTyped, DueTyped, WorkTyped, TradeTyped, TypeOK

\* Part of a line is in line.
LEMMA InLinePart ==
    ASSUME NEW S, NEW pairs, InLine(S, pairs), NEW T
    PROVE  InLine(S \cap T, pairs \cap (T \X T))
BY DEF InLine

\* One more is put into the line, behind those of front.
LEMMA InLineMore ==
    ASSUME NEW S, NEW pairs, InLine(S, pairs), NEW x, x \notin S,
           NEW front \in SUBSET S, \A p \in S, q \in front : <<p, q>> \in pairs => p \in front
    PROVE  InLine(S \cup {x}, pairs \cup (front \X {x}) \cup ({x} \X (S \ front)))
<1>. DEFINE more == pairs \cup (front \X {x}) \cup ({x} \X (S \ front))
<1>1. \A p, q : <<p, q>> \in more <=> \/ <<p, q>> \in pairs
                                      \/ p \in front /\ q = x
                                      \/ p = x /\ q \in S \ front
  OBVIOUS
<1>2. pairs \subseteq S \X S
  BY DEF InLine
<1>3. \A p, q : <<p, q>> \in pairs => p \in S /\ q \in S /\ p # x /\ q # x
  BY <1>2
<1>4. more \subseteq (S \cup {x}) \X (S \cup {x})
  BY <1>2
<1>. HIDE DEF more
<1>5. ASSUME NEW p \in S \cup {x}, NEW q \in S \cup {x}
      PROVE  (<<p, q>> \in more) <=> (p # q /\ <<q, p>> \notin more)
  BY <1>1, <1>3 DEF InLine
<1>6. ASSUME NEW p \in S \cup {x}, NEW q \in S \cup {x}, NEW s \in S \cup {x},
             <<p, q>> \in more, <<q, s>> \in more
      PROVE  <<p, s>> \in more
  <2>1. CASE p = x
    <3>1. q \in S \ front /\ <<q, s>> \in pairs
      BY <1>1, <1>3, <1>6, <2>1
    <3>. QED BY <1>1, <1>3, <2>1, <3>1
  <2>2. CASE q = x
    <3>1. p \in front /\ s \in S \ front
      BY <1>1, <1>3, <1>6, <2>2
    <3>2. <<s, p>> \notin pairs /\ s # p
      BY <3>1
    <3>. QED BY <1>1, <3>1, <3>2 DEF InLine
  <2>3. CASE p # x /\ q # x /\ s = x
    BY <1>1, <1>3, <1>6, <2>3
  <2>4. CASE p # x /\ q # x /\ s # x
    BY <1>1, <1>6, <2>4 DEF InLine
  <2>. QED BY <2>1, <2>2, <2>3, <2>4
<1>7. InLine(S \cup {x}, more)
  BY <1>4, <1>5, <1>6 DEF InLine
<1>. QED BY <1>7 DEF more

\* The first n of some due rows are at most n: each has its own number of rows ahead.
LEMMA FirstSize ==
    ASSUME DueTyped, NEW S \in SUBSET due, NEW n \in Nat
    PROVE  IsFiniteSet(First(S, n)) /\ Cardinality(First(S, n)) <= n /\ Cardinality(First(S, n)) \in Nat
<1>1. ASSUME NEW q \in S PROVE IsFiniteSet(Ahead(q, S)) /\ Cardinality(Ahead(q, S)) \in Nat
  <2>1. Ahead(q, S) \subseteq due
    BY DEF Ahead
  <2>. QED BY <2>1, FS_Subset, FS_CardinalityType DEF DueTyped
<1>2. ASSUME NEW p \in S, NEW q \in S, <<p, q>> \in before
      PROVE  Cardinality(Ahead(p, S)) < Cardinality(Ahead(q, S))
  <2>1. Ahead(p, S) \subseteq Ahead(q, S)
    BY <1>2 DEF Ahead, DueTyped, InLine
  <2>2. p \in Ahead(q, S) /\ p \notin Ahead(p, S)
    BY <1>2 DEF Ahead, DueTyped, InLine
  <2>. QED BY <2>1, <2>2, <1>1, FS_Subset
<1>. DEFINE f == [q \in First(S, n) |-> Cardinality(Ahead(q, S))]
<1>3. \A q \in First(S, n) : q \in S /\ f[q] \in 0 .. n - 1 /\ f[q] = Cardinality(Ahead(q, S))
  BY <1>1 DEF First
<1>4. ASSUME NEW p \in First(S, n), NEW q \in First(S, n), f[p] = f[q] PROVE p = q
  <2>1. p = q \/ <<p, q>> \in before \/ <<q, p>> \in before
    BY <1>3 DEF DueTyped, InLine
  <2>. QED BY <2>1, <1>2, <1>3, <1>4
<1>5. f \in Injection(First(S, n), 0 .. n - 1)
  <2>1. f \in [First(S, n) -> 0 .. n - 1]
    BY <1>3
  <2>. QED BY <2>1, <1>4 DEF Injection, IsInjective
<1>. HIDE DEF f
<1>6. IsFiniteSet(0 .. n - 1) /\ Cardinality(0 .. n - 1) = n
  BY FS_Interval
<1>. QED BY <1>5, <1>6, FS_Injection, FS_CardinalityType

\* A run reads no more rows than its batch may have.
LEMMA CandidatesFit ==
    ASSUME DueTyped
    PROVE  Candidates \subseteq BatchRow /\ IsFiniteSet(Candidates) /\ Cardinality(Candidates) <= BatchSize
<1>. DEFINE limit == IF Lane("PENDING") # {} /\ BatchSize > 1 THEN BatchSize - 1 ELSE BatchSize
            some  == First(Lane("SIGNED"), limit)
            rest  == First(Lane("PENDING"), BatchSize - Cardinality(some))
            rows  == some \cup rest
<1>1. BatchSize \in Nat /\ limit \in Nat /\ limit <= BatchSize
  BY RecoveryAssumption
<1>2. Lane("SIGNED") \subseteq due /\ Lane("PENDING") \subseteq due
  BY DEF Lane
<1>. HIDE DEF limit
<1>3. IsFiniteSet(some) /\ Cardinality(some) <= limit /\ Cardinality(some) \in Nat
  BY <1>1, <1>2, FirstSize
<1>4. BatchSize - Cardinality(some) \in Nat
  BY <1>1, <1>3
<1>5. IsFiniteSet(rest) /\ Cardinality(rest) <= BatchSize - Cardinality(some) /\ Cardinality(rest) \in Nat
  BY <1>2, <1>4, FirstSize
<1>6. IsFiniteSet(rows) /\ Cardinality(rows) <= BatchSize /\ Cardinality(rows) \in Nat
  <2>1. Cardinality(some \cap rest) \in Nat
    BY <1>3, FS_Intersection, FS_CardinalityType
  <2>2. Cardinality(rows) = Cardinality(some) + Cardinality(rest) - Cardinality(some \cap rest)
    BY <1>3, <1>5, FS_Union
  <2>3. IsFiniteSet(rows)
    BY <1>3, <1>5, FS_Union
  <2>4. Cardinality(rows) \in Nat
    BY <2>3, FS_CardinalityType
  <2>. HIDE DEF rows, some, rest
  <2>. QED BY <1>1, <1>3, <1>5, <2>1, <2>2, <2>3, <2>4
<1>7. rows \subseteq due
  BY <1>2 DEF First
<1>8. Candidates = AsRead(rows)
  BY DEF Candidates, limit
<1>. HIDE DEF rows
<1>. DEFINE g == [q \in rows |-> [row |-> q, read |-> status[q]]]
<1>9. g \in Surjection(rows, AsRead(rows))
  BY DEF Surjection, AsRead
<1>10. IsFiniteSet(AsRead(rows)) /\ Cardinality(AsRead(rows)) <= Cardinality(rows)
  BY <1>6, <1>9, FS_Surjection
<1>11. AsRead(rows) \subseteq BatchRow
  BY <1>7 DEF AsRead, BatchRow, DueTyped
<1>12. Cardinality(AsRead(rows)) \in Nat
  BY <1>10, FS_CardinalityType
<1>. QED BY <1>1, <1>6, <1>8, <1>10, <1>11, <1>12

LEMMA InitTyped == Init => TInv
<1> SUFFICES ASSUME Init PROVE TInv
    OBVIOUS
<1>1. 0 \in 0..MaxGens /\ 1 \in 0..MaxGens /\ 0 \in 0..MaxStops /\ 0 \in 0..MaxDealings /\ BatchSize >= 0
  BY RecoveryAssumption
<1>2. IsFiniteSet({}) /\ Cardinality({}) = 0
  BY FS_EmptySet
<1>3. ProcTyped /\ TradeTyped
  BY <1>1 DEF Init, ProcTyped, TradeTyped, Generations
<1>4. DueTyped
  BY <1>2 DEF Init, DueTyped, InLine
<1>5. WorkTyped
  <2>1. batch = {} /\ hand = {} /\ locks = {} /\ failed = FALSE /\ step = "IDLE"
    BY DEF Init
  <2>2. Cardinality(batch) + Cardinality(hand) = 0
    BY <1>2, <2>1
  <2>3. Cardinality(batch) + Cardinality(hand) <= BatchSize
    BY <1>1, <2>2
  <2>. QED BY <1>2, <2>1, <2>3 DEF WorkTyped
<1>. QED BY <1>3, <1>4, <1>5 DEF TInv

LEMMA DueSame ==
    ASSUME DueTyped, UNCHANGED <<status, dueVars>>
    PROVE  DueTyped'
BY DEF DueTyped, dueVars

LEMMA DueLater ==
    ASSUME DueTyped, NEW r \in Rows, Later(r), \A q \in Rows \ {r} : status'[q] = status[q]
    PROVE  DueTyped'
<1>1. due' = due \cap (Rows \ {r}) /\ before' = before \cap ((Rows \ {r}) \X (Rows \ {r}))
  BY DEF Later, Remain
<1>2. InLine(due', before')
  BY <1>1, InLinePart DEF DueTyped
<1>3. IsFiniteSet(due')
  BY <1>1, FS_Subset DEF DueTyped
<1>. QED BY <1>1, <1>2, <1>3 DEF DueTyped

LEMMA DueOrLater ==
    ASSUME DueTyped, NEW r \in Rows, Deferred(r)
    PROVE  DueTyped'
BY DueSame, DueLater DEF Deferred, NotSaved

LEMMA DueConcludes ==
    ASSUME IInv, DueTyped, NEW r \in Rows, NEW s, Concludes(r, s)
    PROVE  DueTyped'
<1>1. \A q \in Rows \ {r} : status'[q] = status[q]
  BY DEF Concludes, IInv, Typed
<1>. QED BY <1>1, DueLater DEF Concludes

LEMMA BecomesDueDue == ASSUME DueTyped, NEW r \in Rows, BecomesDue(r) PROVE DueTyped'
<1>1. r \notin due /\ status[r] \in Waiting /\ due' = due \cup {r} /\ before' = before \cup (due \X {r}) /\ status' = status
  BY DEF BecomesDue
<1>2. InLine(due \cup {r}, before \cup (due \X {r}) \cup ({r} \X (due \ due)))
  BY <1>1, InLineMore DEF DueTyped
<1>3. before' = before \cup (due \X {r}) \cup ({r} \X (due \ due))
  BY <1>1
<1>4. InLine(due', before')
  BY <1>1, <1>2, <1>3
<1>5. IsFiniteSet(due')
  BY <1>1, FS_AddElement DEF DueTyped
<1>. QED BY <1>1, <1>4, <1>5 DEF DueTyped

LEMMA RecordBirthDue == ASSUME IInv, DueTyped, NEW r \in Rows, RecordBirth(r) PROVE DueTyped'
<1>. DEFINE known  == Recorded(MintOf(r)) \cup {r}
            Old(q) == \E k \in known : GenOf(k) > GenOf(q)
            After(q) == IF q \in known /\ Old(q) /\ (q = r \/ status[q] = "PENDING") THEN "SUPERSEDED"
                        ELSE IF q = r THEN "PENDING" ELSE status[q]
            Still == {q \in Rows : After(q) \in Waiting}
<1>1. status[r] = "NONE" /\ status' = [q \in Rows |-> After(q)]
  BY DEF RecordBirth
<1>2. PICK new \in SUBSET due :
         /\ \A p \in due, q \in new : <<p, q>> \in before => p \in new
         /\ due' = (due \cup {r}) \cap Still
         /\ before' = (before \cup (new \X {r}) \cup ({r} \X (due \ new))) \cap (Still \X Still)
  BY Zenon DEF RecordBirth
<1>3. r \notin due
  BY <1>1 DEF DueTyped, Waiting
<1>. HIDE DEF After
<1>4. InLine(due \cup {r}, before \cup (new \X {r}) \cup ({r} \X (due \ new)))
  BY <1>2, <1>3, InLineMore DEF DueTyped
<1>5. InLine(due', before')
  BY <1>2, <1>4, InLinePart
<1>6. IsFiniteSet(due \cup {r})
  BY FS_AddElement DEF DueTyped
<1>7. IsFiniteSet(due')
  BY <1>2, <1>6, FS_Subset
<1>8. due' \subseteq {q \in Rows : status'[q] \in Waiting}
  BY <1>1, <1>2 
<1>. QED BY <1>5, <1>7, <1>8 DEF DueTyped

LEMMA RecordCloseDue == ASSUME IInv, DueTyped, NEW r \in Rows, RecordClose(r) PROVE DueTyped'
<1>1. PICK q \in Recorded(MintOf(r)) : status' = [status EXCEPT ![q] = "ABSENT"] /\ Later(q)
  BY DEF RecordClose
<1>2. q \in Rows
  BY <1>1 DEF Recorded
<1>3. \A k \in Rows \ {q} : status'[k] = status[k]
  BY <1>1, <1>2 DEF IInv, Typed
<1>. QED BY <1>1, <1>2, <1>3, DueLater

LEMMA RowDue == ASSUME IInv, DueTyped, NEW r \in Rows, RowStep(r) PROVE DueTyped'
<1>1. CASE SkipsRow(r) \/ Broadcasts(r) \/ SendAnswers(r) \/ Lands(r) \/ Fails(r) \/ Expires(r)
  <2>1. UNCHANGED <<status, dueVars>>
    BY <1>1 DEF SkipsRow, Broadcasts, SendAnswers, Lands, Fails, Expires, storeVars
  <2>. QED BY <2>1, DueSame
<1>2. CASE PutsOff(r) \/ SendFails(r) \/ StaysUnknown(r) \/ Prepares(r) \/ Reconciles(r)
  <2>1. Deferred(r) \/ UNCHANGED <<status, dueVars>>
    BY <1>2 DEF PutsOff, SendFails, StaysUnknown, Prepares, Reconciles, dueVars
  <2>. QED BY <2>1, DueSame, DueOrLater
<1>3. CASE GivesUp(r) \/ Settles(r)
  BY <1>3, DueOrLater, DueConcludes DEF GivesUp, Settles
<1>4. CASE Signs(r)
  <2>1. CASE NotSaved
    BY <2>1, DueSame DEF NotSaved
  <2>2. CASE ~NotSaved
    <3>1. status' = [status EXCEPT ![r] = "SIGNED"] /\ Later(r)
      BY <1>4, <2>2 DEF Signs
    <3>2. \A q \in Rows \ {r} : status'[q] = status[q]
      BY <3>1 DEF IInv, Typed
    <3>. QED BY <3>1, <3>2, DueLater
  <2>. QED BY <2>1, <2>2
<1>. QED BY <1>1, <1>2, <1>3, <1>4, BecomesDueDue, RecordBirthDue, RecordCloseDue DEF RowStep

\* A row is taken from the batch into the hand, or at once done with.
LEMMA TurnWork ==
    ASSUME WorkTyped, NEW r \in Rows, NEW s \in Waiting, Turn(r, s),
           RowDone \/ GoesOn(r, "PREPARE") \/ GoesOn(r, "RECONCILE"),
           locks' \subseteq Rows, failed' = failed
    PROVE  WorkTyped'
<1>. DEFINE x == [row |-> r, read |-> s]
<1>1. x \in batch /\ batch' = batch \ {x} /\ hand = {}
  BY DEF Turn, WorkTyped
<1>. HIDE DEF x
<1>2. /\ IsFiniteSet(batch) /\ IsFiniteSet(batch') /\ Cardinality(batch') = Cardinality(batch) - 1
      /\ Cardinality(batch) \in Nat
  BY <1>1, FS_RemoveElement, FS_CardinalityType DEF WorkTyped
<1>3. Cardinality({}) = 0 /\ Cardinality({r}) = 1
  BY FS_EmptySet, FS_Singleton
<1>4. BatchSize \in Nat /\ Cardinality(batch) <= BatchSize
  BY <1>1, <1>2, <1>3, RecoveryAssumption DEF WorkTyped
<1>5. Cardinality(hand') \in {0, 1} /\ hand' \in {{}, {r}} /\ (hand' = {} <=> step' \in {"IDLE", "NEXT"})
      /\ step' \in {"IDLE", "NEXT", "PREPARE", "SEND", "RECONCILE"}
  BY <1>3 DEF RowDone, GoesOn
<1>6. Cardinality(batch') + Cardinality(hand') <= BatchSize
  BY <1>2, <1>4, <1>5
<1>. QED BY <1>1, <1>2, <1>5, <1>6 DEF WorkTyped

\* The row in hand goes on, or is done with.
LEMMA HandWork ==
    ASSUME WorkTyped, NEW r \in Rows, hand = {r}, batch' = batch,
           RowDone \/ GoesOn(r, "SEND") \/ GoesOn(r, "RECONCILE") \/ UNCHANGED <<hand, step>>,
           locks' \subseteq Rows, failed' = failed
    PROVE  WorkTyped'
<1>1. IsFiniteSet(batch) /\ Cardinality(batch) \in Nat
  BY FS_CardinalityType DEF WorkTyped
<1>2. Cardinality({}) = 0 /\ Cardinality({r}) = 1
  BY FS_EmptySet, FS_Singleton
<1>3. /\ hand' \in {{}, {r}} /\ Cardinality(hand') \in {0, 1} /\ (hand' = {} <=> step' \in {"IDLE", "NEXT"})
      /\ step' \in {"IDLE", "NEXT", "PREPARE", "SEND", "RECONCILE"}
  BY <1>2 DEF RowDone, GoesOn, WorkTyped
<1>4. BatchSize \in Nat /\ Cardinality(batch) + 1 <= BatchSize
  BY <1>2, RecoveryAssumption DEF WorkTyped
<1>5. Cardinality(batch') + Cardinality(hand') <= BatchSize
  BY <1>1, <1>3, <1>4
<1>. QED BY <1>1, <1>3, <1>5 DEF WorkTyped

LEMMA WorkSame == ASSUME WorkTyped, UNCHANGED memVars PROVE WorkTyped'
BY DEF WorkTyped, memVars

LEMMA RowWork == ASSUME WorkTyped, NEW r \in Rows, RowStep(r) PROVE WorkTyped'
<1>0. locks \subseteq Rows /\ locks \cup {r} \subseteq Rows /\ locks \ {r} \subseteq Rows
  BY DEF WorkTyped
<1>1. CASE SkipsRow(r) \/ PutsOff(r) \/ Prepares(r)
  <2>1. Turn(r, "PENDING") /\ (RowDone \/ GoesOn(r, "PREPARE")) /\ failed' = failed /\ locks' \subseteq Rows
    BY <1>0, <1>1 DEF SkipsRow, PutsOff, Prepares
  <2>. QED BY <2>1, TurnWork DEF Waiting
<1>2. CASE Reconciles(r)
  <2>1. Turn(r, "SIGNED") /\ (RowDone \/ GoesOn(r, "RECONCILE")) /\ failed' = failed /\ locks' \subseteq Rows
    BY <1>0, <1>2 DEF Reconciles
  <2>. QED BY <2>1, TurnWork DEF Waiting
<1>3. CASE GivesUp(r) \/ Signs(r) \/ SendAnswers(r) \/ SendFails(r) \/ Settles(r) \/ StaysUnknown(r)
  <2>1. /\ hand = {r} /\ batch' = batch /\ failed' = failed /\ locks' \subseteq Rows
        /\ RowDone \/ GoesOn(r, "SEND") \/ GoesOn(r, "RECONCILE")
    BY <1>0, <1>3 DEF GivesUp, Signs, SendAnswers, SendFails, Settles, StaysUnknown, Awaits
  <2>. QED BY <2>1, HandWork
<1>4. CASE Broadcasts(r) \/ BecomesDue(r) \/ RecordBirth(r) \/ RecordClose(r) \/ Lands(r) \/ Fails(r) \/ Expires(r)
  BY <1>4, WorkSame DEF Broadcasts, BecomesDue, RecordBirth, RecordClose, Lands, Fails, Expires
<1>. QED BY <1>1, <1>2, <1>3, <1>4 DEF RowStep

\* Nothing in hand: a run that starts or ends, and a process that goes.
LEMMA IdleWork ==
    ASSUME DueTyped, WorkTyped, RunStarts \/ RunEnds \/ MemoryLost
    PROVE  WorkTyped'
<1>1. BatchSize \in Nat /\ Cardinality({}) = 0 /\ IsFiniteSet({})
  BY RecoveryAssumption, FS_EmptySet
<1>2. failed' \in BOOLEAN /\ locks' \subseteq Rows
  BY DEF RunStarts, RunEnds, MemoryLost, SyncLocks, SignedRows, WorkTyped
<1>3. hand' = {} /\ step' \in {"IDLE", "NEXT"}
  BY DEF RunStarts, RunEnds, MemoryLost, WorkTyped
<1>4. batch' = {} \/ batch' = Candidates \/ (batch' = batch /\ hand = {})
  BY DEF RunStarts, RunEnds, MemoryLost, WorkTyped
<1>5. batch' \subseteq BatchRow /\ IsFiniteSet(batch') /\ Cardinality(batch') \in Nat /\ Cardinality(batch') <= BatchSize
  <2>1. CASE batch' = {}
    BY <1>1, <2>1
  <2>2. CASE batch' = Candidates
    BY <2>2, CandidatesFit, FS_CardinalityType
  <2>3. CASE batch' = batch /\ hand = {}
    BY <1>1, <2>3, FS_CardinalityType DEF WorkTyped
  <2>. QED BY <1>4, <2>1, <2>2, <2>3
<1>6. Cardinality(batch') + Cardinality(hand') <= BatchSize
  BY <1>1, <1>3, <1>5
<1>. QED BY <1>2, <1>3, <1>5, <1>6 DEF WorkTyped

LEMMA MintTrade == ASSUME IInv, TradeTyped, NEW m \in Mints, MintStep(m) PROVE TradeTyped'
<1>. USE RecoveryAssumption
<1>1. CASE Enter(m)
  BY <1>1 DEF Enter, TradeTyped, chainVars
<1>2. CASE Bought(m)
  <2>. DEFINE created == IF account[m] = 0 THEN gen[m] + 1 ELSE account[m]
  <2>1. /\ created \in 0..MaxGens
        /\ account' = [account EXCEPT ![m] = created]
        /\ gen' = [gen EXCEPT ![m] = IF created > @ THEN created ELSE @]
        /\ owed' = owed \cup {m} /\ UNCHANGED <<dealings, traded>>
    BY <1>2 DEF Bought, TradeTyped
  <2>. QED BY <2>1 DEF TradeTyped
<1>3. CASE NotBought(m) \/ Exits(m) \/ Reckons(m)
  BY <1>3 DEF NotBought, Exits, Reckons, TradeTyped, chainVars
<1>4. CASE SoldOut(m)
  <2>1. account[m] > 0 => <<m, account[m]>> \in Rows
    BY DEF TradeTyped, Rows
  <2>. QED BY <1>4, <2>1 DEF SoldOut, TradeTyped
<1>5. CASE ClosedByHand(m)
  BY <1>5 DEF ClosedByHand, TradeTyped
<1>. QED BY <1>1, <1>2, <1>3, <1>4, <1>5 DEF MintStep

LEMMA NextTyped == IInv /\ TInv /\ [Next]_vars => TInv'
<1> SUFFICES ASSUME IInv, TInv, [Next]_vars PROVE TInv'
    OBVIOUS
<1> USE DEF TInv
<1>1. CASE RunStarts \/ RunEnds
  <2>1. UNCHANGED <<procVars, storeVars, tradeVars, chainVars>>
    BY <1>1 DEF RunStarts, RunEnds
  <2>2. ProcTyped' /\ TradeTyped' /\ UNCHANGED <<status, dueVars>>
    BY <2>1 DEF ProcTyped, TradeTyped, procVars, storeVars, tradeVars, chainVars
  <2>. QED BY <1>1, <2>2, DueSame, IdleWork
<1>2. ASSUME NEW r \in Rows, RowStep(r) PROVE TInv'
  <2>1. UNCHANGED <<procVars, tradeVars>>
    BY <1>2 DEF RowStep, SkipsRow, PutsOff, Prepares, GivesUp, Signs, Broadcasts, SendAnswers, SendFails,
                Reconciles, Settles, StaysUnknown, BecomesDue, RecordBirth, RecordClose, Lands, Fails, Expires
  <2>2. UNCHANGED account \/ account' = [account EXCEPT ![MintOf(r)] = 0]
    BY <1>2 DEF RowStep, SkipsRow, PutsOff, Prepares, GivesUp, Signs, Broadcasts, SendAnswers, SendFails,
                Reconciles, Settles, StaysUnknown, BecomesDue, RecordBirth, RecordClose, Lands, Fails, Expires, chainVars
  <2>3. ProcTyped' /\ TradeTyped'
    BY <2>1, <2>2, RecoveryAssumption DEF ProcTyped, TradeTyped, procVars, tradeVars
  <2>. QED BY <1>2, <2>3, RowDue, RowWork
<1>3. ASSUME NEW m \in Mints, MintStep(m) PROVE TInv'
  <2>1. UNCHANGED <<procVars, storeVars, memVars>>
    BY <1>3 DEF MintStep, Enter, Bought, NotBought, Exits, SoldOut, Reckons, ClosedByHand
  <2>2. ProcTyped' /\ UNCHANGED <<status, dueVars>>
    BY <2>1 DEF ProcTyped, procVars, storeVars
  <2>. QED BY <1>3, <2>1, <2>2, DueSame, WorkSame, MintTrade
<1>4. CASE Stop \/ StopDone \/ Crash \/ Start
  <2>1. UNCHANGED <<storeVars, tradeVars, chainVars>>
    BY <1>4 DEF Stop, StopDone, Crash, Start
  <2>2. TradeTyped' /\ UNCHANGED <<status, dueVars>>
    BY <2>1 DEF TradeTyped, storeVars, tradeVars, chainVars
  <2>3. ProcTyped'
    BY <1>4, RecoveryAssumption DEF ProcTyped, Stop, StopDone, Crash, Start, MemoryLost
  <2>4. WorkTyped'
    <3>1. CASE MemoryLost
      BY <3>1, IdleWork
    <3>2. CASE Stop
      BY <3>2, WorkSame DEF Stop
    <3>3. CASE Start
      <4>1. failed' \in BOOLEAN /\ locks' \subseteq Rows /\ UNCHANGED <<batch, step, hand>>
        BY <3>3 DEF Start, SyncLocks, SignedRows, WorkTyped
      <4>. QED BY <4>1 DEF WorkTyped
    <3>. QED BY <1>4, <3>1, <3>2, <3>3 DEF StopDone, Crash
  <2>. QED BY <2>2, <2>3, <2>4, DueSame
<1>5. CASE UNCHANGED vars
  <2>1. ProcTyped' /\ TradeTyped' /\ UNCHANGED <<status, dueVars, memVars>>
    BY <1>5 DEF ProcTyped, TradeTyped, vars, procVars, storeVars, tradeVars, chainVars
  <2>. QED BY <2>1, DueSame, WorkSame
<1>. QED BY <1>1, <1>2, <1>3, <1>4, <1>5 DEF Next

\* The types, and with them: only waiting rows are due, one before the other, and a
\* run never reads, nor has in hand, more rows than a batch may have, whatever is
\* signed and whatever becomes due (liveAccountRecoveryCandidates).
THEOREM RecoveryTyped == Spec => []TypeOK
BY InitTyped, NextTyped, TypesJoin, Invariant, PTL DEF Spec

-----------------------------------------------------------------------------
(* AccountRecovery implements CloseProtocol *)

Settled == {r \in Rows : attempts[r] > 0} \ Closing
Trading == {m \in Mints : pos[m] # "NONE"}

LEMMA ClosingIsSigned == IInv => Closing = {r \in Rows : status[r] = "SIGNED"}
BY DEF IInv, DurableWhileFlying, Closing, Flying

LEMMA ClosingIsSignedNext == IInv' => Closing' = {r \in Rows : status'[r] = "SIGNED"}
BY DEF IInv, DurableWhileFlying, Closing, Flying

\* What a former process left signed is a closing per mint.
LEMMA InitMaps == Init => Protocol!Init
<1> SUFFICES ASSUME Init PROVE Protocol!Init
    OBVIOUS
<1>1. Closing = {r \in Rows : status[r] = "SIGNED"}
      BY InitIInv, ClosingIsSigned
<1>2. \A r \in Closing : r \in Signed \X {1}
      BY <1>1 DEF Init
<1>3. \A r \in Signed \X {1}, q \in Signed \X {1} : MintOf(r) = MintOf(q) => r = q
      BY DEF MintOf
<1>4. \A r \in Rows : attempts[r] > 0 => r \in Closing
  <2> SUFFICES ASSUME NEW r \in Rows, attempts[r] > 0 PROVE r \in Closing
      OBVIOUS
  <2>1. r \in Signed \X {1}
        BY DEF Init
  <2>2. r \notin Unsigned \X {1}
        BY <2>1, RecoveryAssumption
  <2>. QED BY <1>1, <2>1, <2>2 DEF Init
<1>5. Trading = {}
      BY DEF Init, Trading
<1>. QED BY <1>1, <1>2, <1>3, <1>4, <1>5 DEF Protocol!Init, Trading, Settled

\* Steps that neither sign nor settle a row, nor move a position from or to "NONE".
LEMMA Stutters ==
    ASSUME IInv, IInv', UNCHANGED attempts,
           \A r \in Rows : status'[r] = "SIGNED" <=> status[r] = "SIGNED",
           \A m \in Mints : pos'[m] = "NONE" <=> pos[m] = "NONE"
    PROVE  UNCHANGED (Protocol!vars)
<1>1. UNCHANGED Closing
      BY ClosingIsSigned, ClosingIsSignedNext
<1>2. UNCHANGED ({r \in Rows : attempts[r] > 0} \ Closing)
      BY <1>1
<1>3. UNCHANGED {m \in Mints : pos[m] # "NONE"}
      OBVIOUS
<1>. QED BY <1>1, <1>2, <1>3 DEF Protocol!vars

LEMMA SignsMaps == ASSUME IInv, IInv', NEW r \in Rows, Signs(r) PROVE Protocol!Begin(r) \/ UNCHANGED (Protocol!vars)
<1>1. CASE UNCHANGED <<status, attempts, tx>>
      BY <1>1, Stutters DEF Signs, tradeVars
<1>2. CASE /\ status[r] = "PENDING" /\ attempts[r] = 0
           /\ status' = [status EXCEPT ![r] = "SIGNED"]
           /\ attempts' = [attempts EXCEPT ![r] = @ + 1]
  <2>1. Closing' = Closing \cup {r} /\ r \notin Closing
        BY <1>2, ClosingIsSigned, ClosingIsSignedNext DEF IInv, Typed
  <2>2. \A q \in Rows : attempts'[q] > 0 <=> attempts[q] > 0 \/ q = r
        BY <1>2 DEF IInv, Typed
  <2>3. Settled' = Settled /\ r \notin Settled
        BY <1>2, <2>1, <2>2 DEF Settled
  <2>4. Trading' = Trading /\ MintOf(r) \notin Trading
        BY DEF Signs, Busy, tradeVars, Trading
  <2>5. \A q \in Closing : MintOf(q) # MintOf(r)
        BY ClosingIsSigned DEF Signs, Awaits, IInv, InHand
  <2>. QED BY <2>1, <2>3, <2>4, <2>5 DEF Protocol!Begin, Settled, Trading
<1>. QED BY <1>1, <1>2 DEF Signs, NotSaved

LEMMA SettlesMaps == ASSUME IInv, IInv', NEW r \in Rows, Settles(r) PROVE Protocol!End(r)
<1>1. /\ Verdict(r) \in {"CONFIRMED", "BLOCKED"} /\ tx[r] # "NONE" /\ status[r] \in Waiting
      /\ status' = [status EXCEPT ![r] = Verdict(r)]
      /\ UNCHANGED <<attempts, pos>>
      BY DEF Settles, Verdict, Concludes, tradeVars
<1>2. status[r] = "SIGNED" /\ attempts[r] > 0
      BY <1>1 DEF IInv, DurableWhileFlying, UnsignedNotAttempted, Waiting
<1>3. Closing' = Closing \ {r} /\ r \in Closing
      BY <1>1, <1>2, ClosingIsSigned, ClosingIsSignedNext DEF IInv, Typed
<1>4. Settled' = Settled \cup {r}
      BY <1>1, <1>2, <1>3 DEF Settled
<1>5. Trading' = Trading
      BY <1>1 DEF Trading
<1>. QED BY <1>3, <1>4, <1>5 DEF Protocol!End, Settled, Trading

LEMMA EnterMaps == ASSUME IInv, IInv', NEW m \in Mints, Enter(m) PROVE Protocol!Enter(m)
<1>1. /\ UNCHANGED <<status, attempts, tx>> /\ pos[m] = "NONE"
      /\ pos' = [pos EXCEPT ![m] = "OPENING"] /\ run = "UP" /\ ~BlocksMint(m)
      BY DEF Enter, storeVars, chainVars
<1>2. UNCHANGED Closing /\ \A r \in Closing : MintOf(r) # m
      BY <1>1, ClosingIsSigned, ClosingIsSignedNext, NotBlockedUnsigned
<1>3. Settled' = Settled
      BY <1>1, <1>2 DEF Settled
<1>4. Trading' = Trading \cup {m} /\ m \notin Trading
      BY <1>1 DEF Trading, IInv, Typed
<1>. QED BY <1>2, <1>3, <1>4 DEF Protocol!Enter, Settled, Trading

LEMMA LeaveMaps == ASSUME IInv, IInv', NEW m \in Mints, NotBought(m) \/ SoldOut(m) PROVE Protocol!Leave(m)
<1>1. /\ UNCHANGED <<status, attempts, tx>> /\ pos[m] # "NONE"
      /\ pos' = [pos EXCEPT ![m] = "NONE"]
      BY DEF NotBought, SoldOut, storeVars, chainVars
<1>2. UNCHANGED Closing
      BY <1>1, ClosingIsSigned, ClosingIsSignedNext
<1>3. Settled' = Settled
      BY <1>1, <1>2 DEF Settled
<1>4. Trading' = Trading \ {m} /\ m \in Trading
      BY <1>1 DEF Trading, IInv, Typed
<1>. QED BY <1>2, <1>3, <1>4 DEF Protocol!Leave, Settled, Trading

LEMMA NextMaps == IInv /\ IInv' /\ [Next]_vars => [Protocol!Next]_(Protocol!vars)
<1> SUFFICES ASSUME IInv, IInv', [Next]_vars, ~ UNCHANGED (Protocol!vars) PROVE Protocol!Next
    OBVIOUS
<1> USE DEF storeVars, tradeVars, chainVars
<1>1. CASE RunStarts \/ RunEnds \/ Stop \/ StopDone \/ Crash \/ Start \/ UNCHANGED vars
      BY <1>1, Stutters DEF RunStarts, RunEnds, Stop, StopDone, Crash, Start, vars
<1>2. ASSUME NEW m \in Mints, MintStep(m) PROVE Protocol!Next
  <2>1. CASE Enter(m) \/ NotBought(m) \/ SoldOut(m)
        BY <2>1, EnterMaps, LeaveMaps DEF Protocol!Next
  <2>2. CASE Reckons(m) \/ ClosedByHand(m)
        BY <2>2, Stutters DEF Reckons, ClosedByHand
  <2>3. CASE Bought(m) \/ Exits(m)
    <3>1. /\ UNCHANGED <<status, attempts>> /\ pos[m] # "NONE"
          /\ pos' = [pos EXCEPT ![m] = "OPEN"] \/ pos' = [pos EXCEPT ![m] = "EXITING"]
          BY <2>3 DEF Bought, Exits
    <3>2. \A k \in Mints : pos'[k] = "NONE" <=> pos[k] = "NONE"
          BY <3>1 DEF IInv, Typed
    <3>. QED BY <3>1, <3>2, Stutters
  <2>. QED BY <1>2, <2>1, <2>2, <2>3 DEF MintStep
<1>3. ASSUME NEW r \in Rows, RowStep(r) PROVE Protocol!Next
  <2>1. CASE Signs(r)
        BY <2>1, SignsMaps DEF Protocol!Next
  <2>2. CASE Settles(r)
        BY <2>2, SettlesMaps DEF Protocol!Next
  <2>3. CASE GivesUp(r) \/ RecordBirth(r) \/ RecordClose(r)
    <3>1. UNCHANGED <<attempts, pos>>
          BY <2>3 DEF GivesUp, RecordBirth, RecordClose
    <3>2. ASSUME NEW q \in Rows PROVE status'[q] = "SIGNED" <=> status[q] = "SIGNED"
      <4>2. CASE GivesUp(r)
        <5>1. status[r] # "SIGNED"
              BY <4>2 DEF GivesUp, Awaits, IInv, InHand
        <5>. QED BY <4>2, <5>1, DeferredKeeps DEF GivesUp, Concludes, IInv, Typed
      <4>3. CASE RecordBirth(r) \/ RecordClose(r)
            BY <4>3, RecordBirthMoves, RecordCloseMoves DEF IInv, ReceiptMove
      <4>. QED BY <2>3, <4>2, <4>3
    <3>. QED BY <3>1, <3>2, Stutters
  <2>4. CASE ~(Signs(r) \/ Settles(r) \/ GivesUp(r) \/ RecordBirth(r) \/ RecordClose(r))
    <3>1. UNCHANGED <<status, attempts, pos>>
          BY <1>3, <2>4, DeferredKeeps
          DEF RowStep, SkipsRow, PutsOff, Prepares, Reconciles, Broadcasts, SendAnswers, SendFails,
              StaysUnknown, BecomesDue, Lands, Fails, Expires
    <3>. QED BY <3>1, Stutters
  <2>. QED BY <2>1, <2>2, <2>3, <2>4
<1>. QED BY <1>1, <1>2, <1>3 DEF Next

\* An account is closed by one transaction at most, alone with its mint, and no
\* crash, restart, timeout or unreadable outbox shows in that promise.
THEOREM Implements == Spec => ImplementsProtocol
BY InitMaps, NextMaps, Invariant, PTL DEF Spec, ImplementsProtocol, Protocol!Spec

=============================================================================
