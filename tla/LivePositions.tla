---------------------------- MODULE LivePositions ----------------------------
(***************************************************************************)
(* The life of a live position (a "lot") in LiveTradingManager.js, with the *)
(* part of PumpTradeExecutor.js and of the chain that decides its fate.     *)
(*                                                                          *)
(* JavaScript runs to completion between two awaits, so an action is one    *)
(* such segment: everything the handler assigns, in memory and in SQLite,   *)
(* before it next awaits.  A position's status, amount and reason are       *)
(* assigned in memory and written to its row in the same segment, so one    *)
(* record stands for both; what only memory knows (positions, timers,       *)
(* queues, running calls) is lost by a crash.                               *)
(*                                                                          *)
(* The network, the node and the wallet fail as they like; the store does   *)
(* not.  Every write of a row is taken to succeed, and what the code does   *)
(* when one raises (SQLITE_BUSY) is no behaviour of this model:             *)
(*   - in _requestExit the lot is EXITING in memory before its row is       *)
(*     written; when that raises in the handler of a trade, no task is      *)
(*     queued and the lot stays so until a restart (in a timer nobody       *)
(*     catches the error: the process ends, which is Crash);                *)
(*   - the rejection of a queued _exit that could not write is noted only;  *)
(*   - in _enter a write that raises after the buy was confirmed ends in    *)
(*     the branch for a buy that failed.                                    *)
(* Nothing said here about lots is said of a lot that has met such an error.*)
(***************************************************************************)
EXTENDS Integers, Sequences, FiniteSets

CONSTANTS
    Mints,            \* token mints
    ExitModes,        \* exit modes of the configured strategies
    MaxLots,          \* bound: live_positions rows ever created
    LotAmount,        \* tokens one buy brings
    MaxPositions,     \* config.maxConcurrentPositions
    MaxPerMint,       \* config.maxConcurrentPositionsPerMint
    SellAttempts,     \* config.exitRetryCount + 1
    ReconcileCount,   \* config.entryReconcileCount
    QuoteRefreshes,   \* strategy.entryQuoteRefreshRetryCount
    MaxDeferred,      \* bound: one-second deferrals of one lot's exit at a time
    MaxStops          \* bound: crashes and stops of the process

\* PLAIN covers FIXED_HOLD, TAIL, TRAILING, XLEG and QUALITY_PROTECTED_RUNNER;
\* CORE covers PBR_CORE_RUNNER and CORE_RUNNER; GRAD is GRADUATION_CORE_RUNNER.
AllModes == {"PLAIN", "CORE", "GRAD"}

ASSUME LiveAssumption ==
    /\ Mints # {}
    /\ ExitModes \subseteq AllModes
    /\ MaxLots \in Nat \ {0}
    /\ LotAmount \in Nat /\ LotAmount > 1
    /\ MaxPositions \in Nat \ {0}
    /\ MaxPerMint \in Nat \ {0}
    /\ SellAttempts \in Nat \ {0}
    /\ ReconcileCount \in Nat \ {0}
    /\ QuoteRefreshes \in Nat
    /\ MaxDeferred \in Nat \ {0}
    /\ MaxStops \in Nat

Lots == 1..MaxLots
NoLot == 0

Statuses == {"NONE", "OPENING", "OPEN", "EXITING", "EXIT_FAILED",
             "CLOSED", "ENTRY_FAILED"}
Active   == {"OPENING", "OPEN", "EXITING", "EXIT_FAILED"}
Terminal == {"CLOSED", "ENTRY_FAILED"}

TimerKinds == {"HOLD", "DEFER", "RECOVER"}
ExitReasons == {"NORMAL", "TAKE_PROFIT", "RESTART"}
TaskKinds == ExitReasons \cup {"CORE"}

VARIABLES
    run,          \* the process: "DOWN", "UP", "STOPPING"
    stops,        \* how often it was stopped or crashed (bounded by MaxStops)
    lot,          \* Lots -> position: its row, and the object when in memory
    locked,       \* mints with an ACTIVE live_mint_entry_locks row
    graduated,    \* mints whose token row has graduated_at
    positions,    \* the positions Map (ids)
    timers,       \* Lots -> live timers by kind, and the kind the Map holds
    corePending,  \* coreExitPending
    entering,     \* the call at the head of entryQueue
    recov,        \* Lots -> a running _recoverUnknownEntry
    exitQ,        \* Mints -> tasks of mintExitQueues, head running
    seller,       \* Mints -> progress of the running exit task
    wallet,       \* Mints -> tokens the trading wallet holds
    buyTx,        \* Lots -> fate of the lot's buy transaction
    sellTx,       \* Lots -> size of an unconfirmed sell still able to land
    net           \* Lots -> tokens its buy brought minus tokens its sells took

procVars  == <<run, stops>>
storeVars == <<lot, locked, graduated>>
memVars   == <<positions, timers, corePending>>
taskVars  == <<entering, recov, exitQ, seller>>
chainVars == <<wallet, buyTx, sellTx, net>>
vars == <<procVars, storeVars, memVars, taskVars, chainVars>>

-----------------------------------------------------------------------------
(* Values *)

NoRow == [mint |-> CHOOSE m \in Mints : TRUE, mode |-> "PLAIN", status |-> "NONE",
          amt |-> 0, sig |-> FALSE, expired |-> FALSE, unknown |-> FALSE,
          aged |-> FALSE, coreDone |-> FALSE, coreTried |-> FALSE,
          orders |-> {}]

\* amt is tokenAmountRaw, 0 standing for null; unknown is the exit reason
\* ENTRY_CONFIRMATION_UNKNOWN; expired says the stored entry error names an
\* expired signature; aged says expiredEntryReleaseMs passed since createdAt;
\* orders keeps of the SELL orders what start() asks of them.
LotRecord == [mint : Mints, mode : AllModes, status : Statuses,
              amt : Nat, sig : BOOLEAN, expired : BOOLEAN, unknown : BOOLEAN,
              aged : BOOLEAN, coreDone : BOOLEAN, coreTried : BOOLEAN,
              orders : SUBSET {"SELL", "PARTIAL"}]

TimerRecord == [live : [TimerKinds -> Nat],
                mapped : TimerKinds \cup {"NONE"}]
NoTimer == [live |-> [k \in TimerKinds |-> 0], mapped |-> "NONE"]

\* entryQueue's running _enter: "CHECK" until the wallet balance is read,
\* "SENT" until confirmTransaction answers, "READ" while buy() reads what it
\* received, "RECOVER" while it awaits recovery.
EntryRecord == [lot : Lots \cup {NoLot},
                step : {"IDLE", "CHECK", "SENT", "READ", "RECOVER"},
                allow : BOOLEAN, tries : 0..QuoteRefreshes]
NoEntry == [lot |-> NoLot, step |-> "IDLE", allow |-> FALSE, tries |-> 0]

\* absent: the last answer was safelyAbsent; expired: lastError still names an
\* expired signature.
RecovRecord == [phase : {"OFF", "WAIT", "DELAY"}, tries : 0..ReconcileCount,
                allow : BOOLEAN, expired : BOOLEAN, absent : BOOLEAN]
NoRecov == [phase |-> "OFF", tries |-> 0, allow |-> FALSE, expired |-> FALSE,
            absent |-> TRUE]

Task == [lot : Lots, kind : TaskKinds]
SellerRecord == [step : {"READY", "SENT"}, attempt : 1..SellAttempts, want : Nat]
NoSale == [step |-> "READY", attempt |-> 1, want |-> 0]

BuyFates == {"NONE", "FLYING", "LANDED", "ERR", "DROPPED"}

TypeOK ==
    /\ run \in {"DOWN", "UP", "STOPPING"}
    /\ stops \in 0..MaxStops
    /\ lot \in [Lots -> LotRecord]
    /\ locked \subseteq Mints
    /\ graduated \subseteq Mints
    /\ positions \subseteq Lots
    /\ timers \in [Lots -> TimerRecord]
    /\ corePending \subseteq Lots
    /\ entering \in EntryRecord
    /\ recov \in [Lots -> RecovRecord]
    /\ exitQ \in [Mints -> Seq(Task)]
    /\ seller \in [Mints -> SellerRecord]
    /\ wallet \in [Mints -> Nat]
    /\ buyTx \in [Lots -> BuyFates]
    /\ sellTx \in [Lots -> Nat]
    /\ net \in [Lots -> Int]

Init ==
    /\ run = "UP" /\ stops = 0
    /\ lot = [l \in Lots |-> NoRow]
    /\ locked = {} /\ graduated = {}
    /\ positions = {}
    /\ timers = [l \in Lots |-> NoTimer]
    /\ corePending = {}
    /\ entering = NoEntry
    /\ recov = [l \in Lots |-> NoRecov]
    /\ exitQ = [m \in Mints |-> <<>>]
    /\ seller = [m \in Mints |-> NoSale]
    /\ wallet = [m \in Mints |-> 0]
    /\ buyTx = [l \in Lots |-> "NONE"]
    /\ sellTx = [l \in Lots |-> 0]
    /\ net = [l \in Lots |-> 0]

-----------------------------------------------------------------------------
(* Helpers *)

Alive == run \in {"UP", "STOPPING"}

Least(a, b) == IF a < b THEN a ELSE b

PositionsOf(m) == {l \in positions : lot[l].mint = m}
Others(l) == PositionsOf(lot[l].mint) \ {l}

\* clearTimeout(timers.get(id)): only the timer the Map holds.
Cleared(t) ==
    IF t.mapped = "NONE" THEN t
    ELSE [live   |-> [t.live EXCEPT ![t.mapped] = IF @ > 0 THEN @ - 1 ELSE 0],
          mapped |-> "NONE"]

Scheduled(t, k) == [live |-> [t.live EXCEPT ![k] = @ + 1], mapped |-> k]

\* _scheduleMaxHold and _scheduleUnknownEntryRecovery clear the mapped timer
\* before they set theirs.
Armed(t, k) == Scheduled(Cleared(t), k)

\* A HOLD or RECOVER timer that fires deletes the map entry, whichever timer
\* the entry names by then; a DEFER timer leaves the map alone.
Fired(t, k) == [live   |-> [t.live EXCEPT ![k] = @ - 1],
                mapped |-> IF k = "DEFER" THEN t.mapped ELSE "NONE"]

\* What a handler assigns to a position and its row.
Opened(p, sig, amount) ==
    [p EXCEPT !.status = "OPEN", !.sig = sig, !.amt = amount, !.unknown = FALSE,
              !.expired = FALSE]
Failed(p, sig) ==
    [p EXCEPT !.status = "ENTRY_FAILED", !.sig = sig, !.unknown = FALSE, !.expired = FALSE]
Unsettled(p, sig, expired) ==
    [p EXCEPT !.status = "EXIT_FAILED", !.sig = sig, !.unknown = TRUE, !.expired = expired]
Exiting(p) ==
    [p EXCEPT !.status = "EXITING", !.unknown = FALSE, !.expired = FALSE]
Ordered(p, kinds) == [p EXCEPT !.orders = @ \cup kinds]
Ended(p, kinds, status) == [p EXCEPT !.orders = @ \cup kinds, !.status = status]

Enqueued(l, kind) ==
    [exitQ EXCEPT ![lot[l].mint] = Append(@, [lot |-> l, kind |-> kind])]

\* Mutants of RequestExit: no wait for a core exit; a deferral without its
\* timer.
RequestExitRacingCore(l, reason, L, T) ==
    \/ /\ run # "UP" \/ L[l].status \notin {"OPEN", "EXIT_FAILED"}
       /\ lot' = L /\ timers' = T /\ UNCHANGED exitQ
    \/ /\ run = "UP" /\ L[l].status \in {"OPEN", "EXIT_FAILED"}
       /\ lot' = [L EXCEPT ![l] = Exiting(@)] /\ timers' = T
       /\ exitQ' = Enqueued(l, reason)

RequestExitForgotten(l, reason, L, T) ==
    \/ /\ run # "UP" \/ L[l].status \notin {"OPEN", "EXIT_FAILED"} \/ l \in corePending
       /\ lot' = L /\ timers' = T /\ UNCHANGED exitQ
    \/ /\ run = "UP" /\ L[l].status \in {"OPEN", "EXIT_FAILED"} /\ l \notin corePending
       /\ lot' = [L EXCEPT ![l] = Exiting(@)] /\ timers' = T
       /\ exitQ' = Enqueued(l, reason)

\* _requestExit, on lots L and timers T: ignored while stopping or unless the
\* lot is open or its exit failed; put off while a core exit is pending;
\* otherwise the lot starts to exit and its mint's queue gets the task.  The write
\* of EXITING between the two is taken to succeed.
RequestExit(l, reason, L, T) ==
    \/ /\ run # "UP" \/ L[l].status \notin {"OPEN", "EXIT_FAILED"}
       /\ lot' = L /\ timers' = T /\ UNCHANGED exitQ
    \/ /\ run = "UP" /\ L[l].status \in {"OPEN", "EXIT_FAILED"} /\ l \in corePending
       /\ T[l].live["DEFER"] < MaxDeferred
       /\ lot' = L /\ UNCHANGED exitQ
       /\ timers' = [T EXCEPT ![l] = Scheduled(@, "DEFER")]
    \/ /\ run = "UP" /\ L[l].status \in {"OPEN", "EXIT_FAILED"} /\ l \notin corePending
       /\ lot' = [L EXCEPT ![l] = Exiting(@)]
       /\ timers' = T
       /\ exitQ' = Enqueued(l, reason)

-----------------------------------------------------------------------------
(* Entry: onExternalStrategySignal queues _enter, one at a time *)

\* _riskReason and createLivePosition.  allowExistingBalance is read before the
\* new lot joins positions, and used until the buy is answered.
Enter(l, m, mode) ==
    /\ run = "UP" /\ entering.step = "IDLE"
    /\ lot[l].status = "NONE" /\ \A i \in 1..(l - 1) : lot[i].status # "NONE"
    /\ m \notin locked
    /\ Cardinality(PositionsOf(m)) < MaxPerMint
    /\ Cardinality(positions) < MaxPositions
    /\ lot' = [lot EXCEPT ![l] = [NoRow EXCEPT !.mint = m, !.mode = mode,
                                               !.status = "OPENING"]]
    /\ positions' = positions \cup {l}
    /\ entering' = [lot |-> l, step |-> "CHECK", allow |-> PositionsOf(m) # {},
                    tries |-> 0]
    /\ UNCHANGED <<procVars, locked, graduated, timers, corePending, recov,
                   exitQ, seller, chainVars>>

\* The catch branch of _enter that gives the entry up.
EntryFails(l, sig) ==
    /\ lot' = [lot EXCEPT ![l] = Failed(@, sig)]
    /\ positions' = positions \ {l}
    /\ entering' = NoEntry
    /\ UNCHANGED <<procVars, graduated, timers, corePending, recov, exitQ, seller>>

\* WALLET_ALREADY_HOLDS_MINT: the mint is locked against entries.
WalletHolds(l) ==
    /\ Alive /\ entering.step = "CHECK" /\ entering.lot = l
    /\ ~entering.allow /\ wallet[lot[l].mint] > 0
    /\ EntryFails(l, FALSE)
    /\ locked' = locked \cup {lot[l].mint}
    /\ UNCHANGED chainVars

\* Any other rejection before the transaction is sent.
EntryRejected(l) ==
    /\ Alive /\ entering.step = "CHECK" /\ entering.lot = l
    /\ EntryFails(l, FALSE)
    /\ UNCHANGED <<locked, chainVars>>

SendBuy(l) ==
    /\ Alive /\ entering.step = "CHECK" /\ entering.lot = l
    /\ entering.allow \/ wallet[lot[l].mint] = 0
    /\ entering' = [entering EXCEPT !.step = "SENT"]
    /\ UNCHANGED <<procVars, storeVars, memVars, recov, exitQ, seller, chainVars>>

\* The chain executes the buy of lot l.
Landed(l) ==
    /\ buyTx' = [buyTx EXCEPT ![l] = "LANDED"]
    /\ wallet' = [wallet EXCEPT ![lot[l].mint] = @ + LotAmount]
    /\ net' = [net EXCEPT ![l] = @ + LotAmount]
    /\ UNCHANGED sellTx

Fate(l, fate) ==
    \/ fate = "LANDED" /\ Landed(l)
    \/ /\ fate # "LANDED"
       /\ buyTx' = [buyTx EXCEPT ![l] = fate]
       /\ UNCHANGED <<wallet, sellTx, net>>

BuyConfirmed(l) ==
    /\ Alive /\ entering.step = "SENT" /\ entering.lot = l
    /\ Landed(l)
    /\ entering' = [entering EXCEPT !.step = "READ"]
    /\ UNCHANGED <<procVars, storeVars, memVars, recov, exitQ, seller>>

\* confirmedTransactionFailure: signature and on-chain error are known.
BuyErred(l) ==
    /\ Alive /\ entering.step = "SENT" /\ entering.lot = l
    /\ Fate(l, "ERR")
    /\ EntryFails(l, TRUE)
    /\ UNCHANGED locked

\* Mutant of RefreshQuote: the retries are not counted.
RefreshQuoteForever(l) ==
    /\ Alive /\ entering.step = "SENT" /\ entering.lot = l
    /\ entering' = [entering EXCEPT !.step = "CHECK"]
    /\ UNCHANGED <<procVars, storeVars, memVars, recov, exitQ, seller, chainVars>>

\* A refreshable slippage failure: the loop of _enter calls the executor again
\* with the allowExistingBalance of the first attempt.
RefreshQuote(l) ==
    /\ Alive /\ entering.step = "SENT" /\ entering.lot = l
    /\ entering.tries < QuoteRefreshes
    /\ entering' = [entering EXCEPT !.step = "CHECK", !.tries = @ + 1]
    /\ UNCHANGED <<procVars, storeVars, memVars, recov, exitQ, seller, chainVars>>

\* sendRawTransaction throws: rejected, or broadcast and its reply lost.  Either
\* way the error carries no signature.
SendThrows(l) ==
    /\ Alive /\ entering.step = "SENT" /\ entering.lot = l
    /\ \E fate \in {"DROPPED", "FLYING", "LANDED"} : Fate(l, fate)
    /\ EntryFails(l, FALSE)
    /\ UNCHANGED locked

\* _armPositionExit and, for a graduated mint, onGraduated at the end of _enter.
GradLots(m) == {k \in PositionsOf(m) : lot[k].mode = "GRAD"}

\* Mutant of BuyReceived: the opened lot is not armed.
BuyReceivedUnarmed(l) ==
    /\ Alive /\ entering.step = "READ" /\ entering.lot = l
    /\ lot' = [lot EXCEPT ![l] = Opened(@, TRUE, LotAmount)]
    /\ entering' = NoEntry
    /\ UNCHANGED <<procVars, locked, graduated, memVars, recov, exitQ, seller, chainVars>>

\* buy() reads what it received: the balance, or the receipt when the wallet
\* held tokens before.  The writes of the order and of the row that follow in _enter
\* are taken to succeed.
BuyReceived(l) ==
    LET m == lot[l].mint
        received == IF entering.allow \/ wallet[m] = 0 THEN LotAmount ELSE wallet[m]
        rearmed == {l} \cup (IF lot[l].mode = "GRAD" /\ m \in graduated
                             THEN GradLots(m) ELSE {})
    IN  /\ Alive /\ entering.step = "READ" /\ entering.lot = l
        /\ lot' = [lot EXCEPT ![l] = Opened(@, TRUE, received)]
        /\ timers' = [k \in Lots |-> IF k \in rearmed THEN Armed(timers[k], "HOLD")
                                                      ELSE timers[k]]
        /\ entering' = NoEntry
        /\ UNCHANGED <<procVars, locked, graduated, positions, corePending, recov,
                       exitQ, seller, chainVars>>

\* The balance read throws after the buy was confirmed; the signature _send
\* returned is not on that error.
ReadThrows(l) ==
    /\ Alive /\ entering.step = "READ" /\ entering.lot = l
    /\ EntryFails(l, FALSE)
    /\ UNCHANGED <<locked, chainVars>>

-----------------------------------------------------------------------------
(* Recovery of an entry whose outcome is unknown *)

\* Mutant of Attempt: the balance counts although other lots share the mint.
AttemptAlone(l, tries, expired) ==
    [phase |-> "WAIT", tries |-> tries, allow |-> FALSE, expired |-> expired,
     absent |-> TRUE]

Attempt(l, tries, expired) ==
    [phase |-> "WAIT", tries |-> tries, allow |-> Others(l) # {},
     expired |-> expired, absent |-> TRUE]

\* Nothing was asked: what the loop's result says before its first attempt.
Unasked(expired) == [NoRecov EXCEPT !.expired = expired]

EntryDone(l) == IF entering.lot = l THEN NoEntry ELSE entering

\* The end of _recoverUnknownEntry when nothing was confirmed: the expired
\* entry nobody can see is released, any other stays EXIT_FAILED, and one that
\* is too young to be released gets a timer.
RecoveryEnds(l, L, r) ==
    LET released == L[l].sig /\ r.expired /\ r.absent /\ L[l].aged
    IN  /\ lot' = [L EXCEPT ![l] = IF released THEN Failed(@, TRUE)
                                             ELSE Unsettled(@, @.sig, r.expired)]
        /\ positions' = IF released THEN positions \ {l} ELSE positions
        /\ timers' = IF L[l].sig /\ r.expired /\ ~L[l].aged
                     THEN [timers EXCEPT ![l] = Armed(@, "RECOVER")] ELSE timers
        /\ recov' = [recov EXCEPT ![l] = NoRecov]
        /\ entering' = EntryDone(l)

\* The catch branch of _enter for an error with a signature: the lot is unknown
\* and its recovery starts inside the entry queue, unless the manager stops.
EntryUnknown(l, expired) ==
    LET L == [lot EXCEPT ![l] = Unsettled(@, TRUE, expired)]
    IN  /\ \/ /\ run = "UP"
              /\ lot' = L
              /\ recov' = [recov EXCEPT ![l] = Attempt(l, 1, expired)]
              /\ entering' = [entering EXCEPT !.step = "RECOVER"]
              /\ UNCHANGED <<positions, timers>>
           \/ run = "STOPPING" /\ RecoveryEnds(l, L, Unasked(expired))
        /\ UNCHANGED <<procVars, locked, graduated, corePending, exitQ, seller>>

\* confirmTransaction throws: a timeout, or the block height was exceeded.
BuyTimesOut(l) ==
    /\ Alive /\ entering.step = "SENT" /\ entering.lot = l
    /\ \E fate \in {"DROPPED", "FLYING", "LANDED"}, expired \in BOOLEAN :
          /\ expired => fate # "FLYING"
          /\ Fate(l, fate)
          /\ EntryUnknown(l, expired)

\* CONFIRMATION_PENDING: the buy is confirmed, its tokens are not visible yet.
BuyUnseen(l) ==
    /\ Alive /\ entering.step = "READ" /\ entering.lot = l
    /\ EntryUnknown(l, FALSE)
    /\ UNCHANGED chainVars

\* classifyBuyReconciliation: the receipt of this buy first, else the whole
\* wallet balance unless other lots of the mint are held.
ReceiptSeen(l, amount) == lot[l].sig /\ buyTx[l] = "LANDED" /\ amount = LotAmount
BalanceSeen(l, amount) ==
    /\ ~recov[l].allow
    /\ amount = wallet[lot[l].mint] /\ amount > 0

\* CONFIRMED: the lot opens; one held past its time is exited at once.
RecoveryConfirms(l) ==
    /\ Alive /\ recov[l].phase = "WAIT"
    /\ \E amount \in {LotAmount, wallet[lot[l].mint]} :
          /\ ReceiptSeen(l, amount) \/ BalanceSeen(l, amount)
          /\ LET L == [lot EXCEPT ![l] = Opened(@, @.sig, amount)]
             IN  \/ RequestExit(l, "NORMAL", L, timers)
                 \/ /\ lot' = L
                    /\ timers' = [timers EXCEPT ![l] = Armed(@, "HOLD")]
                    /\ UNCHANGED exitQ
    /\ recov' = [recov EXCEPT ![l] = NoRecov]
    /\ entering' = EntryDone(l)
    /\ UNCHANGED <<procVars, locked, graduated, positions, corePending, seller, chainVars>>

\* FAILED: the signature has an on-chain error.
RecoveryFails(l) ==
    /\ Alive /\ recov[l].phase = "WAIT"
    /\ lot[l].sig /\ buyTx[l] = "ERR"
    /\ recov[l].allow \/ wallet[lot[l].mint] = 0
    /\ lot' = [lot EXCEPT ![l] = Failed(@, TRUE)]
    /\ positions' = positions \ {l}
    /\ recov' = [recov EXCEPT ![l] = NoRecov]
    /\ entering' = EntryDone(l)
    /\ UNCHANGED <<procVars, locked, graduated, timers, corePending, exitQ, seller, chainVars>>

\* UNKNOWN, or the RPC threw (which replaces the error that said "expired").
\* A transaction old enough to be aged is visible once it landed.
Unseen(l, expired, absent) ==
    \/ /\ expired = recov[l].expired /\ absent
       /\ ~(lot[l].aged /\ lot[l].sig /\ buyTx[l] = "LANDED")
    \/ /\ expired = recov[l].expired /\ ~absent
       /\ lot[l].sig /\ buyTx[l] = "LANDED"
    \/ ~expired /\ absent

\* Mutant of RecoveryUnsure: one attempt too many.
RecoveryUnsureOnceMore(l) ==
    /\ Alive /\ recov[l].phase = "WAIT" /\ recov[l].tries <= ReconcileCount
    /\ recov' = [recov EXCEPT ![l].phase = "DELAY"]
    /\ UNCHANGED <<procVars, storeVars, memVars, entering, exitQ, seller, chainVars>>

RecoveryUnsure(l) ==
    /\ Alive /\ recov[l].phase = "WAIT"
    /\ \E expired, absent \in BOOLEAN :
          LET r == [recov[l] EXCEPT !.expired = expired, !.absent = absent]
          IN  /\ Unseen(l, expired, absent)
              /\ \/ /\ r.tries < ReconcileCount
                    /\ recov' = [recov EXCEPT ![l] = [r EXCEPT !.phase = "DELAY"]]
                    /\ UNCHANGED <<lot, positions, timers, entering>>
                 \/ r.tries >= ReconcileCount /\ RecoveryEnds(l, lot, r)
    /\ UNCHANGED <<procVars, locked, graduated, corePending, exitQ, seller, chainVars>>

\* After the delay: another attempt, or the end of the loop when stopping.
RecoveryRetries(l) ==
    /\ Alive /\ recov[l].phase = "DELAY"
    /\ \/ /\ run = "UP"
          /\ recov' = [recov EXCEPT ![l] = Attempt(l, @.tries + 1, @.expired)]
          /\ UNCHANGED <<lot, positions, timers, entering>>
       \/ run = "STOPPING" /\ RecoveryEnds(l, lot, recov[l])
    /\ UNCHANGED <<procVars, locked, graduated, corePending, exitQ, seller, chainVars>>

-----------------------------------------------------------------------------
(* Timers and prices that ask for an exit *)

HoldFires(l) ==
    /\ Alive /\ timers[l].live["HOLD"] > 0
    /\ RequestExit(l, "NORMAL", lot, [timers EXCEPT ![l] = Fired(@, "HOLD")])
    /\ UNCHANGED <<procVars, locked, graduated, positions, corePending, entering,
                   recov, seller, chainVars>>

DeferFires(l) ==
    /\ Alive /\ timers[l].live["DEFER"] > 0
    /\ RequestExit(l, "NORMAL", lot, [timers EXCEPT ![l] = Fired(@, "DEFER")])
    /\ UNCHANGED <<procVars, locked, graduated, positions, corePending, entering,
                   recov, seller, chainVars>>

RecoverFires(l) ==
    /\ Alive /\ timers[l].live["RECOVER"] > 0 /\ lot[l].aged
    /\ timers' = [timers EXCEPT ![l] = Fired(@, "RECOVER")]
    /\ recov' = IF run = "UP" /\ l \in positions
                THEN [recov EXCEPT ![l] = Attempt(l, 1, lot[l].expired)] ELSE recov
    /\ UNCHANGED <<procVars, storeVars, positions, corePending, entering, exitQ,
                   seller, chainVars>>

\* _evaluatePositionExit: a stop, a trailing stop or an elapsed hold; only a
\* PLAIN strategy takes profit against a net-proceeds floor.
PriceExit(l, reason) ==
    /\ run = "UP" /\ l \in positions /\ lot[l].status = "OPEN"
    /\ reason = "TAKE_PROFIT" => lot[l].mode = "PLAIN"
    /\ RequestExit(l, reason, lot, timers)
    /\ UNCHANGED <<procVars, locked, graduated, positions, corePending, entering,
                   recov, seller, chainVars>>

\* _requestCoreExit
RequestCoreExit(l) ==
    /\ run = "UP" /\ l \in positions /\ lot[l].status = "OPEN"
    /\ lot[l].mode = "CORE" \/ (lot[l].mode = "GRAD" /\ lot[l].mint \in graduated)
    /\ ~lot[l].coreDone /\ ~lot[l].coreTried /\ l \notin corePending
    /\ lot' = [lot EXCEPT ![l] = [@ EXCEPT !.coreTried = TRUE]]
    /\ corePending' = corePending \cup {l}
    /\ exitQ' = Enqueued(l, "CORE")
    /\ UNCHANGED <<procVars, locked, graduated, positions, timers, entering, recov,
                   seller, chainVars>>

\* onGraduated re-arms the hold of every GRAD lot of the mint it holds.
Graduate(m) ==
    /\ run = "UP" /\ "GRAD" \in ExitModes /\ m \notin graduated
    /\ graduated' = graduated \cup {m}
    /\ timers' = [l \in Lots |-> IF l \in GradLots(m) THEN Armed(timers[l], "HOLD")
                                                      ELSE timers[l]]
    /\ UNCHANGED <<procVars, lot, locked, positions, corePending, taskVars, chainVars>>

-----------------------------------------------------------------------------
(* The exit queue of a mint *)

Head1(m) == Head(exitQ[m])
Running(m, kinds) == Alive /\ exitQ[m] # <<>> /\ Head1(m).kind \in kinds

\* The task at the head ends: the next one starts from scratch.
TaskDone(m) ==
    /\ exitQ' = [exitQ EXCEPT ![m] = Tail(@)]
    /\ seller' = [seller EXCEPT ![m] = NoSale]

\* Tokens the next attempt of the head task would sell: half for a core exit,
\* everything in the wallet for a lot without an amount.
Asked(m) ==
    LET p == lot[Head1(m).lot]
    IN  IF Head1(m).kind = "CORE" THEN p.amt \div 2
        ELSE IF p.amt = 0 THEN wallet[m] ELSE p.amt

\* sell() reads the wallet and sends.
Sell(m) ==
    LET q == Least(Asked(m), wallet[m])
    IN  /\ Running(m, TaskKinds) /\ seller[m].step = "READY"
        /\ run = "UP" \/ Head1(m).kind = "CORE"
        /\ q > 0
        /\ seller' = [seller EXCEPT ![m].step = "SENT", ![m].want = q]
        /\ UNCHANGED <<procVars, storeVars, memVars, entering, recov, exitQ, chainVars>>

\* The chain executes a sale of q tokens for lot l.
Sold(l, q) ==
    /\ q <= wallet[lot[l].mint]
    /\ wallet' = [wallet EXCEPT ![lot[l].mint] = @ - q]
    /\ net' = [net EXCEPT ![l] = @ - q]

\* Mutant of ExitAttemptOver: the attempts are not counted.
ExitAttemptForever(m, kinds) ==
    /\ lot' = [lot EXCEPT ![Head1(m).lot] = Ordered(@, kinds)]
    /\ seller' = [seller EXCEPT ![m] = [NoSale EXCEPT !.attempt = seller[m].attempt]]
    /\ UNCHANGED exitQ

\* An attempt of _exit that did not close the lot but left an order of these
\* kinds: another attempt, or EXIT_FAILED.
ExitAttemptOver(m, kinds) ==
    LET l == Head1(m).lot
    IN  \/ /\ seller[m].attempt < SellAttempts
           /\ lot' = [lot EXCEPT ![l] = Ordered(@, kinds)]
           /\ seller' = [seller EXCEPT ![m] = [NoSale EXCEPT !.attempt = seller[m].attempt + 1]]
           /\ UNCHANGED exitQ
        \/ /\ seller[m].attempt >= SellAttempts
           /\ lot' = [lot EXCEPT ![l] = Ended(@, kinds, "EXIT_FAILED")]
           /\ TaskDone(m)

\* Mutant of CloseLot: the closed lot stays in positions.
CloseLotKept(m, l) ==
    /\ lot' = [lot EXCEPT ![l] = Ended(@, {"SELL"}, "CLOSED")]
    /\ timers' = [timers EXCEPT ![l] = Cleared(@)]
    /\ TaskDone(m)
    /\ UNCHANGED positions

CloseLot(m, l) ==
    /\ lot' = [lot EXCEPT ![l] = Ended(@, {"SELL"}, "CLOSED")]
    /\ positions' = positions \ {l}
    /\ timers' = [timers EXCEPT ![l] = Cleared(@)]
    /\ TaskDone(m)

\* sell() finds nothing to sell.  A restart exit takes that for an unresolved
\* entry, any other for a lot that was sold already.
AlreadyEmpty(m) ==
    LET l == Head1(m).lot
    IN  /\ Running(m, ExitReasons) /\ run = "UP" /\ seller[m].step = "READY"
        /\ wallet[m] = 0
        /\ \/ Head1(m).kind # "RESTART" /\ CloseLot(m, l)
           \/ /\ Head1(m).kind = "RESTART"
              /\ ExitAttemptOver(m, {"SELL"})
              /\ UNCHANGED <<positions, timers>>
        /\ UNCHANGED <<procVars, locked, graduated, corePending, entering, recov, chainVars>>

\* The sale is confirmed and the balance read back: the lot closes unless its
\* amount was not covered, which is a CONFIRMED_PARTIAL order and a retry.
SaleConfirmed(m) ==
    LET l == Head1(m).lot
        q == seller[m].want
    IN  /\ Running(m, ExitReasons) /\ seller[m].step = "SENT"
        /\ Sold(l, q)
        /\ \/ lot[l].amt <= q /\ CloseLot(m, l)
           \/ /\ lot[l].amt > q
              /\ ExitAttemptOver(m, {"SELL", "PARTIAL"})
              /\ UNCHANGED <<positions, timers>>
        /\ UNCHANGED <<procVars, locked, graduated, corePending, entering, recov, buyTx, sellTx>>

\* The sale is confirmed and the balance cannot be read back: the amount of the
\* lot stays, and the next attempt asks for all of it again.
SaleUnverified(m) ==
    LET l == Head1(m).lot
    IN  /\ Running(m, ExitReasons) /\ seller[m].step = "SENT"
        /\ Sold(l, seller[m].want)
        /\ ExitAttemptOver(m, {"SELL"})
        /\ UNCHANGED <<procVars, locked, graduated, memVars, entering, recov, buyTx, sellTx>>

\* What may have become of a sale nobody confirmed: it landed, it is still in
\* flight (bound: one per lot), or it never will.
SaleFate(l, q) ==
    \/ Sold(l, q) /\ UNCHANGED <<buyTx, sellTx>>
    \/ /\ sellTx[l] = 0
       /\ sellTx' = [sellTx EXCEPT ![l] = q]
       /\ UNCHANGED <<wallet, buyTx, net>>
    \/ UNCHANGED chainVars

SaleUnanswered(m) ==
    LET l == Head1(m).lot
    IN  /\ Running(m, ExitReasons) /\ seller[m].step = "SENT"
        /\ SaleFate(l, seller[m].want)
        /\ ExitAttemptOver(m, {"SELL"})
        /\ UNCHANGED <<procVars, locked, graduated, memVars, entering, recov>>

\* The attempt fails before anything is sent.
SellThrows(m) ==
    LET l == Head1(m).lot
    IN  /\ Running(m, ExitReasons) /\ run = "UP" /\ seller[m].step = "READY"
        /\ ExitAttemptOver(m, {"SELL"})
        /\ UNCHANGED <<procVars, locked, graduated, memVars, entering, recov, chainVars>>

\* TAKE_PROFIT_NET_PROCEEDS_REJECTED: the lot is open again and re-armed.
TakeProfitRejected(m) ==
    LET l == Head1(m).lot
    IN  /\ Running(m, {"TAKE_PROFIT"}) /\ run = "UP" /\ seller[m].step = "READY"
        /\ wallet[m] > 0
        /\ lot' = [lot EXCEPT ![l] = Ended(@, {}, "OPEN")]
        /\ timers' = [timers EXCEPT ![l] = Armed(@, "HOLD")]
        /\ TaskDone(m)
        /\ UNCHANGED <<procVars, locked, graduated, positions, corePending, entering,
                       recov, chainVars>>

\* The loop of _exit ends because the manager is stopping.
ExitAbandoned(m) ==
    /\ Running(m, ExitReasons) /\ run = "STOPPING" /\ seller[m].step = "READY"
    /\ lot' = [lot EXCEPT ![Head1(m).lot] = Ended(@, {}, "EXIT_FAILED")]
    /\ TaskDone(m)
    /\ UNCHANGED <<procVars, locked, graduated, memVars, entering, recov, chainVars>>

\* _takeGraduationCore: the sale is confirmed and read back.
CoreSold(p, q) ==
    [p EXCEPT !.amt = @ - q, !.coreDone = TRUE, !.orders = @ \cup {"SELL", "PARTIAL"}]

CoreConfirmed(m) ==
    LET l == Head1(m).lot
        q == seller[m].want
    IN  /\ Running(m, {"CORE"}) /\ seller[m].step = "SENT"
        /\ lot[l].amt > q
        /\ Sold(l, q)
        /\ lot' = [lot EXCEPT ![l] = CoreSold(@, q)]
        /\ corePending' = corePending \ {l}
        /\ TaskDone(m)
        /\ UNCHANGED <<procVars, locked, graduated, positions, timers, entering,
                       recov, buyTx, sellTx>>

\* Any other outcome of the core sale leaves the lot's amount as it was.
CoreFails(m) ==
    LET l == Head1(m).lot
    IN  /\ Running(m, {"CORE"})
        /\ \/ seller[m].step = "READY" /\ UNCHANGED chainVars
           \/ seller[m].step = "SENT" /\ SaleFate(l, seller[m].want)
        /\ lot' = IF lot[l].amt \div 2 = 0 THEN lot
                  ELSE [lot EXCEPT ![l] = Ordered(@, {"SELL"})]
        /\ corePending' = corePending \ {l}
        /\ TaskDone(m)
        /\ UNCHANGED <<procVars, locked, graduated, positions, timers, entering, recov>>

-----------------------------------------------------------------------------
(* Wallet locks, the chain and the clock *)

\* _scheduleMintLockRecheck: a lock goes when the wallet is seen empty.
RecheckLock(m) ==
    /\ run = "UP" /\ m \in locked /\ wallet[m] = 0
    /\ locked' = locked \ {m}
    /\ UNCHANGED <<procVars, lot, graduated, memVars, taskVars, chainVars>>

\* The owner of the wallet sells by hand what a locked mint still holds.
SoldByHand(m) ==
    /\ m \in locked /\ wallet[m] > 0
    /\ wallet' = [wallet EXCEPT ![m] = 0]
    /\ UNCHANGED <<procVars, storeVars, memVars, taskVars, buyTx, sellTx, net>>

FlyingBuyEnds(l) ==
    /\ buyTx[l] = "FLYING"
    /\ \E fate \in {"LANDED", "ERR", "DROPPED"} : Fate(l, fate)
    /\ UNCHANGED <<procVars, storeVars, memVars, taskVars>>

FlyingSaleEnds(l) ==
    /\ sellTx[l] > 0
    /\ sellTx' = [sellTx EXCEPT ![l] = 0]
    /\ Sold(l, sellTx[l]) \/ UNCHANGED <<wallet, net>>
    /\ UNCHANGED <<procVars, storeVars, memVars, taskVars, buyTx>>

\* expiredEntryReleaseMs (at least a minute) passes since the row was created.
\* Timing: by then the buy has settled, and no answer older than that waits.
Age(l) ==
    /\ lot[l].status \in Active /\ ~lot[l].aged
    /\ buyTx[l] # "FLYING" /\ recov[l].phase # "DELAY"
    /\ entering.lot = l => entering.step = "RECOVER"
    /\ lot' = [lot EXCEPT ![l] = [@ EXCEPT !.aged = TRUE]]
    /\ UNCHANGED <<procVars, locked, graduated, memVars, taskVars, chainVars>>

-----------------------------------------------------------------------------
(* Stop, crash and start *)

\* stop(): timers in the Map are cleared; running tasks are awaited.
Stop ==
    /\ run = "UP" /\ stops < MaxStops
    /\ run' = "STOPPING" /\ stops' = stops + 1
    /\ timers' = [l \in Lots |-> Cleared(timers[l])]
    /\ UNCHANGED <<storeVars, positions, corePending, taskVars, chainVars>>

\* Everything that lived in memory is gone.
MemoryLost ==
    /\ run' = "DOWN"
    /\ positions' = {} /\ corePending' = {}
    /\ timers' = [l \in Lots |-> NoTimer]
    /\ entering' = NoEntry
    /\ recov' = [l \in Lots |-> NoRecov]
    /\ exitQ' = [m \in Mints |-> <<>>]
    /\ seller' = [m \in Mints |-> NoSale]
    /\ lot' = [l \in Lots |-> [lot[l] EXCEPT !.coreDone = FALSE, !.coreTried = FALSE]]
    /\ UNCHANGED <<locked, graduated>>

StopDone ==
    /\ run = "STOPPING" /\ entering = NoEntry
    /\ \A l \in Lots : recov[l].phase = "OFF"
    /\ \A m \in Mints : exitQ[m] = <<>>
    /\ MemoryLost
    /\ UNCHANGED <<stops, chainVars>>

\* A crash: a transaction just sent meets its fate unobserved.  At most one is
\* awaited here, the entry's or one mint's sale; others stay in flight or drop.
Crash ==
    /\ Alive /\ stops < MaxStops
    /\ stops' = stops + 1
    /\ MemoryLost
    /\ \/ /\ entering.step = "SENT"
          /\ \E fate \in {"DROPPED", "FLYING", "LANDED", "ERR"} : Fate(entering.lot, fate)
       \/ \E m \in Mints : /\ exitQ[m] # <<>> /\ seller[m].step = "SENT"
                           /\ SaleFate(Head1(m).lot, seller[m].want)
       \/ entering.step # "SENT" /\ UNCHANGED chainVars

\* start(): the rows are taken in the order they were created, so what recovery
\* may take for its own is judged by the lots restored before it.  The rows that
\* versions before the receipt-based reconciliation closed as empty, which start()
\* reopens, are left out: no code of this version writes them.
Unresolved(l) == lot[l].amt = 0 /\ (lot[l].status = "OPENING" \/ lot[l].unknown)
Interrupted(l) == lot[l].status \in {"OPENING", "EXITING"} /\ ~Unresolved(l)

ActiveRows == {l \in Lots : lot[l].status \in Active}

RestoredBefore(l) == {k \in ActiveRows : k < l /\ lot[k].mint = lot[l].mint}

Restored(l) ==
    [lot[l] EXCEPT !.status    = IF Interrupted(l) THEN "EXITING" ELSE @,
                   !.coreDone  = lot[l].mode # "PLAIN" /\ "PARTIAL" \in lot[l].orders,
                   !.coreTried = lot[l].mode # "PLAIN" /\ "SELL" \in lot[l].orders]

InterruptedOf(m) == {l \in ActiveRows : Interrupted(l) /\ lot[l].mint = m}

InCreationOrder(s, S) ==
    /\ {s[i] : i \in DOMAIN s} = S
    /\ \A i, j \in DOMAIN s : i < j => s[i] < s[j]

Start ==
    /\ run = "DOWN" /\ run' = "UP"
    /\ positions' = ActiveRows
    /\ lot' = [l \in Lots |-> IF l \in ActiveRows THEN Restored(l) ELSE lot[l]]
    /\ recov' = [l \in Lots |->
                   IF l \in ActiveRows /\ Unresolved(l)
                   THEN [Attempt(l, 1, lot[l].expired) EXCEPT !.allow = RestoredBefore(l) # {}]
                   ELSE NoRecov]
    /\ \E order \in [Mints -> UNION {[1..n -> Lots] : n \in 0..MaxLots}] :
          /\ \A m \in Mints : InCreationOrder(order[m], InterruptedOf(m))
          /\ exitQ' = [m \in Mints |-> [i \in DOMAIN order[m] |->
                                          [lot |-> order[m][i], kind |-> "RESTART"]]]
    /\ \E tracked \in SUBSET graduated :
          timers' = [l \in Lots |->
                       IF /\ l \in ActiveRows
                          /\ \/ ~Unresolved(l) /\ ~Interrupted(l)
                             \/ lot[l].mode = "GRAD" /\ lot[l].mint \in tracked
                       THEN Armed(NoTimer, "HOLD") ELSE NoTimer]
    /\ UNCHANGED <<stops, locked, graduated, corePending, entering, seller, chainVars>>

-----------------------------------------------------------------------------
EntryStep(l) ==
    \/ WalletHolds(l) \/ EntryRejected(l) \/ SendBuy(l) \/ BuyConfirmed(l)
    \/ BuyErred(l) \/ RefreshQuote(l) \/ SendThrows(l) \/ BuyTimesOut(l)
    \/ BuyReceived(l) \/ BuyUnseen(l) \/ ReadThrows(l)

RecoveryStep(l) ==
    RecoveryConfirms(l) \/ RecoveryFails(l) \/ RecoveryUnsure(l) \/ RecoveryRetries(l)

TimerStep(l) == HoldFires(l) \/ DeferFires(l) \/ RecoverFires(l)

ExitStep(m) ==
    \/ Sell(m) \/ AlreadyEmpty(m) \/ SaleConfirmed(m) \/ SaleUnverified(m)
    \/ SaleUnanswered(m) \/ SellThrows(m) \/ TakeProfitRejected(m)
    \/ ExitAbandoned(m) \/ CoreConfirmed(m) \/ CoreFails(m)

LotStep(l) ==
    \/ \E m \in Mints, mode \in ExitModes : Enter(l, m, mode)
    \/ EntryStep(l)
    \/ RecoveryStep(l)
    \/ TimerStep(l)
    \/ \E reason \in {"NORMAL", "TAKE_PROFIT"} : PriceExit(l, reason)
    \/ RequestCoreExit(l)
    \/ FlyingBuyEnds(l)
    \/ FlyingSaleEnds(l)
    \/ Age(l)

MintStep(m) == Graduate(m) \/ ExitStep(m) \/ RecheckLock(m) \/ SoldByHand(m)

Next ==
    \/ \E l \in Lots : LotStep(l)
    \/ \E m \in Mints : MintStep(m)
    \/ Stop \/ StopDone \/ Crash \/ Start

Spec == Init /\ [][Next]_vars

\* Every promise settles, every timer fires, and the service manager restarts
\* the process; nothing makes prices move or signals arrive.
Fairness ==
    /\ \A l \in Lots : /\ WF_vars(EntryStep(l)) /\ WF_vars(RecoveryStep(l))
                       /\ WF_vars(HoldFires(l)) /\ WF_vars(DeferFires(l))
    /\ \A m \in Mints : WF_vars(ExitStep(m))
    /\ WF_vars(StopDone) /\ WF_vars(Start)

FairSpec == Spec /\ Fairness

-----------------------------------------------------------------------------
(* Properties *)

\* While the manager runs, its positions are exactly the active rows: no lot is
\* forgotten by the process that must sell it, none is kept after it ended.  A
\* GRAD lot that waits for its recovery can be armed and sold meanwhile, and the
\* recovery then writes to a row whose lot is gone: of such lots only the second
\* half is promised.
MirrorsStore ==
    run = "UP" => /\ positions \subseteq ActiveRows
                  /\ \A l \in ActiveRows : lot[l].mode # "GRAD" => l \in positions

TasksOf(l, kinds) ==
    {i \in 1..Len(exitQ[lot[l].mint]) : /\ exitQ[lot[l].mint][i].lot = l
                                         /\ exitQ[lot[l].mint][i].kind \in kinds}

\* A lot that exits has its task in the queue of its mint, and its core exit is
\* pending exactly while the queue holds the one core task.  A lot that no
\* recovery can interfere with exits exactly when the queue holds its one exit
\* task, and a core sale and a full sale of it are never queued together.
OneSalePerLot ==
    Alive => \A l \in positions :
        /\ lot[l].status = "EXITING" => TasksOf(l, ExitReasons) # {}
        /\ l \in corePending <=> TasksOf(l, {"CORE"}) # {}
        /\ Cardinality(TasksOf(l, {"CORE"})) <= 1
        /\ lot[l].mode # "GRAD" =>
             /\ Cardinality(TasksOf(l, TaskKinds)) <= 1
             /\ TasksOf(l, ExitReasons) # {} => lot[l].status = "EXITING"

\* While the manager runs, an open lot always has a timer that will ask for its
\* exit, whatever deferrals and stray timers happened.
OpenIsArmed ==
    run = "UP" => \A l \in positions :
        lot[l].status = "OPEN" =>
            timers[l].live["HOLD"] > 0 \/ timers[l].live["DEFER"] > 0

\* In every mode, GRAD included: an open lot is armed, an exiting one queued, and
\* the manager keeps no lot that ended.
LotsAreServed == OpenIsArmed /\ OneSalePerLot /\ MirrorsStore

\* Tokens in the wallet belong to a lot the store still holds active, or to a
\* buy whose signature the manager never learnt.
Explains(l, m) ==
    /\ lot[l].status # "NONE" /\ lot[l].mint = m
    /\ \/ lot[l].status \in Active
       \/ lot[l].status = "ENTRY_FAILED" /\ ~lot[l].sig /\ buyTx[l] = "LANDED"

NoOrphanTokens == \A m \in Mints : wallet[m] > 0 => \E l \in Lots : Explains(l, m)

\* An entry given up although its signature is known never bought anything and
\* never will.
ReleasedNeverBought ==
    \A l \in Lots : lot[l].status = "ENTRY_FAILED" /\ lot[l].sig
                        => buyTx[l] \notin {"LANDED", "FLYING"}

\* Every token in the wallet has an owner, and no entry is given up while it may
\* still bring some (_recoverOpeningPosition, _requestExit, start).
WalletIsExplained == NoOrphanTokens /\ ReleasedNeverBought

\* The tokens of an open lot that sold none of them are still in the wallet: no
\* other lot of the mint has sold them.
OpenLotKeepsItsTokens ==
    \A l \in Lots : (lot[l].status = "OPEN" /\ net[l] = LotAmount)
                        => wallet[lot[l].mint] >= LotAmount

\* An entry of unknown outcome is not handed to the exit queue before an amount
\* was established for it.
UnknownNotSold ==
    [][\A l \in Lots : lot[l].unknown /\ lot'[l].status = "EXITING" => lot'[l].amt > 0]_vars

\* A buy the chain confirmed to the executor is not recorded as a failed entry.
ConfirmedNotFailed ==
    [][\A l \in Lots : entering.lot = l /\ entering.step = "READ"
                           => lot'[l].status # "ENTRY_FAILED"]_vars

\* An exit that was asked for is concluded: closed, failed or reopened.
ExitsConclude == \A l \in Lots : lot[l].status = "EXITING" ~> lot[l].status # "EXITING"

\* An open lot does not stay open for ever.
OpenEnds == \A l \in Lots : lot[l].status = "OPEN" ~> lot[l].status # "OPEN"

\* An entry does not stay in the opening state for ever.
OpeningEnds == \A l \in Lots : lot[l].status = "OPENING" ~> lot[l].status # "OPENING"

=============================================================================
