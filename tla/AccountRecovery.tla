--------------------------- MODULE AccountRecovery ---------------------------
(***************************************************************************)
(* LiveAccountRecovery.js and LiveAccountRecoveryStore.js: the background  *)
(* run that closes empty token accounts for their rent, with the part of   *)
(* LiveTradingManager.js that trades the same mints and the part of the    *)
(* chain that executes the closing transactions.                           *)
(*                                                                         *)
(* An action is what runs between two awaits; the turn between two rows of *)
(* a batch counts as one.  Rows and their signatures are durable; locks,   *)
(* the batch and the running step are memory, and lost by a crash.         *)
(*                                                                         *)
(* A candidate is a generation of a mint's token account: the account as   *)
(* one buy created it, until it is closed.                                 *)
(***************************************************************************)
EXTENDS Integers, FiniteSets

CONSTANTS
    Mints,        \* token mints, each with one associated token account
    MaxGens,      \* bound: times the account of a mint is created
    MaxDealings,   \* bound: entries, and accounts closed by hand
    BatchSize,    \* config.accountRecovery.batchSize
    MaxStops,     \* bound: crashes and stops of the process
    Unsigned,     \* mints whose account a former process left to be closed
    Signed        \* mints whose account it had sent a closing transaction for

ASSUME RecoveryAssumption ==
    /\ MaxGens \in Nat \ {0}
    /\ MaxDealings \in Nat
    /\ BatchSize \in Nat \ {0}
    /\ MaxStops \in Nat
    /\ Unsigned \subseteq Mints /\ Signed \subseteq Mints
    /\ Unsigned \cap Signed = {}

Rows == Mints \X (1..MaxGens)
MintOf(r) == r[1]
GenOf(r) == r[2]

\* SIGNED stands for PREPARED and UNKNOWN, which the code treats alike;
\* SUPERSEDED is BLOCKED with the error SUPERSEDED_ACCOUNT_CREATION.
Waiting  == {"PENDING", "SIGNED"}
Terminal == {"CONFIRMED", "BLOCKED", "SUPERSEDED", "ABSENT"}
Statuses == {"NONE"} \cup Waiting \cup Terminal
Fates    == {"NONE", "SIGNED", "FLYING", "LANDED", "FAILED", "EXPIRED"}

VARIABLES
    run,        \* the process: "DOWN", "UP", "STOPPING"
    stops,      \* how often it was stopped or crashed (bounded by MaxStops)
    enabled,    \* config.accountRecovery.enabled of the running process
    status,     \* Rows -> status of the live_account_recoveries row
    attempts,   \* Rows -> its attempts: closing transactions ever persisted
    due,        \* rows whose next_attempt_at has passed
    before,     \* their order (next_attempt_at, id): <<q, r>> when q comes first
    failed,     \* startFailed
    locks,      \* rows with an entry in the locks Map
    batch,      \* rows this run has still to process, as it read them
    step,       \* what the run awaits
    hand,       \* the row it awaits it for, if any
    pos,        \* Mints -> the live position of the mint
    dealings,    \* entries and closings by hand so far (bounded by MaxDealings)
    owed,       \* mints with an order whose receipt is not stored yet
    account,    \* Mints -> generation of the account on chain, 0 when absent
    gen,        \* Mints -> generations created so far
    traded,     \* generations a SELL closed
    tx          \* Rows -> fate of the row's closing transaction

procVars  == <<run, stops, enabled>>
dueVars   == <<due, before>>
storeVars == <<status, attempts, dueVars>>
memVars   == <<failed, locks, batch, step, hand>>
tradeVars == <<pos, dealings, owed, gen, traded>>
chainVars == <<account, tx>>
vars == <<procVars, storeVars, memVars, tradeVars, chainVars>>

BatchRow == [row : Rows, read : Waiting]

\* The pairs put the elements of the set one after the other.
InLine(S, pairs) ==
    /\ pairs \subseteq S \X S
    /\ \A p, q \in S : (<<p, q>> \in pairs) <=> (p # q /\ <<q, p>> \notin pairs)
    /\ \A p, q, s \in S : <<p, q>> \in pairs /\ <<q, s>> \in pairs => <<p, s>> \in pairs

TypeOK ==
    /\ run \in {"DOWN", "UP", "STOPPING"}
    /\ stops \in 0..MaxStops
    /\ enabled \in BOOLEAN
    /\ status \in [Rows -> Statuses]
    /\ attempts \in [Rows -> Nat]
    /\ due \subseteq {r \in Rows : status[r] \in Waiting} /\ InLine(due, before)
    /\ failed \in BOOLEAN
    /\ locks \subseteq Rows
    /\ batch \subseteq BatchRow /\ Cardinality(batch) + Cardinality(hand) <= BatchSize
    /\ step \in {"IDLE", "NEXT", "PREPARE", "SEND", "RECONCILE"}
    /\ hand \subseteq Rows /\ (hand = {} <=> step \in {"IDLE", "NEXT"})
    /\ pos \in [Mints -> {"NONE", "OPENING", "OPEN", "EXITING"}]
    /\ dealings \in 0..MaxDealings
    /\ owed \subseteq Mints
    /\ account \in [Mints -> 0..MaxGens]
    /\ gen \in [Mints -> 0..MaxGens]
    /\ traded \subseteq Rows
    /\ tx \in [Rows -> Fates]

Left == Unsigned \cup Signed
Generations == [m \in Mints |-> IF m \in Left THEN 1 ELSE 0]

Init ==
    /\ run = "DOWN" /\ stops = 0 /\ enabled = TRUE
    /\ status = [r \in Rows |-> IF r \in Unsigned \X {1} THEN "PENDING"
                               ELSE IF r \in Signed \X {1} THEN "SIGNED" ELSE "NONE"]
    /\ attempts = [r \in Rows |-> IF r \in Signed \X {1} THEN 1 ELSE 0]
    /\ due = {} /\ before = {}
    /\ failed = FALSE /\ locks = {}
    /\ batch = {} /\ step = "IDLE" /\ hand = {}
    /\ pos = [m \in Mints |-> "NONE"] /\ dealings = 0 /\ owed = {}
    /\ account = Generations
    /\ gen = Generations
    /\ traded = {}
    /\ tx = [r \in Rows |-> IF r \in Signed \X {1} THEN "FLYING" ELSE "NONE"]

-----------------------------------------------------------------------------
(* Helpers *)

Alive == run \in {"UP", "STOPPING"}
SignedRows == {r \in Rows : status[r] = "SIGNED"}

\* blocksMint: an outbox that cannot be read blocks every mint.
BlocksMint(m) == failed \/ \E r \in locks : MintOf(r) = m

\* canRun; the kill switch, read from disk on every call, may hold it up at any
\* time (SkipsRow, GivesUp).
CanRun == run = "UP" /\ \A m \in Mints : pos[m] \notin {"OPENING", "EXITING"}

\* isMintBusy, liveAccountRecoveryMintBlocked
Busy(m) == pos[m] # "NONE" \/ m \in owed

\* Of the due rows only these stay due.
Remain(S) == due' = due \cap S /\ before' = before \cap (S \X S)

\* The row's next attempt is later, or there is none.
Later(r) == Remain(Rows \ {r})

\* _save of a terminal status: a terminal row is left alone.
Concludes(r, s) ==
    /\ status[r] \in Waiting
    /\ status' = [status EXCEPT ![r] = s]
    /\ Later(r)

NotSaved == UNCHANGED <<status, dueVars>>

\* Mutant: the store does not compare the status with the one it has.
DeferredBlindly(r) == status' = [status EXCEPT ![r] = "PENDING"] /\ Later(r)

\* _defer, which the store may refuse or fail to save.
Deferred(r) ==
    \/ status[r] \in Waiting /\ Later(r) /\ UNCHANGED status
    \/ NotSaved

\* Row r, read with this status, is taken from the batch: signed rows first, and
\* those of the same kind in any order.
Turn(r, read) ==
    /\ step = "NEXT" /\ run = "UP"
    /\ [row |-> r, read |-> read] \in batch
    /\ read = "PENDING" => \A b \in batch : b.read = "PENDING"
    /\ batch' = batch \ {[row |-> r, read |-> read]}

Awaits(r, s) == step = s /\ hand = {r}

GoesOn(r, s) == step' = s /\ hand' = {r}
RowDone == step' = "NEXT" /\ hand' = {}

\* Mutant: an outbox that cannot be read counts as an empty one.
SyncLocksForgiving ==
    failed' = FALSE /\ (locks' = SignedRows \/ locks' = {})

\* Mutant: the locks of the outbox are added to those held.
SyncLocksKept ==
    \/ failed' = FALSE /\ locks' = locks \cup SignedRows
    \/ failed' = TRUE /\ UNCHANGED locks

\* _syncLocks: the durable outbox replaces the locks in memory, unless it
\* cannot be read.
SyncLocks ==
    \/ failed' = FALSE /\ locks' = SignedRows
    \/ failed' = TRUE /\ UNCHANGED locks

-----------------------------------------------------------------------------
(* A run: tick, _run and _process *)

Lane(s) == {q \in due : status[q] = s}
Ahead(q, S) == {p \in S : <<p, q>> \in before}
First(S, n) == {q \in S : Cardinality(Ahead(q, S)) < n}
AsRead(rows) == {[row |-> q, read |-> status[q]] : q \in rows}

\* Mutant: the place for the unsigned row is added to a full batch.
CandidatesOneMore ==
    AsRead(First(Lane("SIGNED"), BatchSize) \cup First(Lane("PENDING"), 1))

\* Mutant: no place is kept.
CandidatesSignedFirst ==
    LET some == First(Lane("SIGNED"), BatchSize)
    IN  AsRead(some \cup First(Lane("PENDING"), BatchSize - Cardinality(some)))

\* liveAccountRecoveryCandidates: signed rows first, one place kept for an
\* unsigned one.
Candidates ==
    LET limit == IF Lane("PENDING") # {} /\ BatchSize > 1 THEN BatchSize - 1 ELSE BatchSize
        some  == First(Lane("SIGNED"), limit)
    IN  AsRead(some \cup First(Lane("PENDING"), BatchSize - Cardinality(some)))

RunStarts ==
    /\ run = "UP" /\ step = "IDLE"
    /\ SyncLocks
    /\ IF failed' THEN UNCHANGED <<batch, step>>
                  ELSE batch' = Candidates /\ step' = "NEXT"
    /\ UNCHANGED <<procVars, storeVars, hand, tradeVars, chainVars>>

\* _backfill ran in between; its receipts are RecordBirth and RecordClose.
RunEnds ==
    /\ step = "NEXT" /\ (batch = {} \/ run = "STOPPING")
    /\ SyncLocks
    /\ batch' = {} /\ step' = "IDLE"
    /\ UNCHANGED <<procVars, storeVars, hand, tradeVars, chainVars>>

\* Disabled, a position on the move, or the kill switch: the row stays due.
SkipsRow(r) ==
    /\ Turn(r, "PENDING")
    /\ RowDone
    /\ UNCHANGED <<procVars, storeVars, failed, locks, tradeVars, chainVars>>

\* Too young, or its mint is busy.
PutsOff(r) ==
    /\ Turn(r, "PENDING") /\ enabled /\ CanRun
    /\ Deferred(r)
    /\ RowDone
    /\ UNCHANGED <<procVars, attempts, failed, locks, tradeVars, chainVars>>

\* The mint is locked in the segment that found it free, and the account is
\* examined; if the check cannot be saved the lock goes again.
Prepares(r) ==
    /\ Turn(r, "PENDING") /\ enabled /\ CanRun
    /\ ~Busy(MintOf(r))
    /\ \A q \in locks : MintOf(q) = MintOf(r) => q = r
    /\ \/ /\ status[r] = "PENDING"
          /\ locks' = locks \cup {r} /\ GoesOn(r, "PREPARE")
          /\ UNCHANGED <<status, dueVars>>
       \/ locks' = locks \ {r} /\ Deferred(r) /\ RowDone
    /\ UNCHANGED <<procVars, attempts, failed, tradeVars, chainVars>>

\* prepareEmptyTokenAccountClose finds no account, refuses it for good, fails,
\* or answers too late for a process that has moved on.
GivesUp(r) ==
    /\ Awaits(r, "PREPARE")
    /\ \/ account[MintOf(r)] = 0 /\ Concludes(r, "ABSENT")
       \/ Concludes(r, "BLOCKED")
       \/ Deferred(r)
    /\ locks' = locks \ {r}
    /\ RowDone
    /\ UNCHANGED <<procVars, attempts, failed, batch, tradeVars, chainVars>>

\* Mutant: the row counts as durable only after it was read back, so the lock
\* goes although the commit may have succeeded.
SignsLateDurable(r) ==
    /\ Awaits(r, "PREPARE") /\ account[MintOf(r)] \in {0, GenOf(r)}
    /\ enabled /\ CanRun /\ ~Busy(MintOf(r))
    /\ status[r] = "PENDING" /\ attempts[r] = 0
    /\ status' = [status EXCEPT ![r] = "SIGNED"]
    /\ Later(r)
    /\ attempts' = [attempts EXCEPT ![r] = @ + 1]
    /\ tx' = [tx EXCEPT ![r] = "SIGNED"]
    /\ \/ RowDone /\ locks' = locks \ {r}
       \/ GoesOn(r, "SEND") /\ UNCHANGED locks
    /\ UNCHANGED <<procVars, failed, batch, tradeVars, account>>

\* The transaction is signed and saved, and only a saved one that could be read
\* back is sent.  From here on the lock is only given up with the row.
Signs(r) ==
    /\ Awaits(r, "PREPARE")
    /\ account[MintOf(r)] \in {0, GenOf(r)}     \* 0: closed by hand meanwhile
    /\ enabled /\ CanRun /\ ~Busy(MintOf(r))
    /\ \/ /\ status[r] = "PENDING" /\ attempts[r] = 0   \* a signature is never replaced
          /\ status' = [status EXCEPT ![r] = "SIGNED"]
          /\ Later(r)
          /\ attempts' = [attempts EXCEPT ![r] = @ + 1]
          /\ tx' = [tx EXCEPT ![r] = "SIGNED"]
          /\ RowDone \/ GoesOn(r, "SEND")
       \/ NotSaved /\ RowDone /\ UNCHANGED <<attempts, tx>>
    /\ UNCHANGED <<procVars, failed, locks, batch, tradeVars, account>>

\* The bytes leave the process.
Broadcasts(r) ==
    /\ Awaits(r, "SEND") /\ tx[r] = "SIGNED"
    /\ tx' = [tx EXCEPT ![r] = "FLYING"]
    /\ UNCHANGED <<procVars, storeVars, memVars, tradeVars, account>>

SendAnswers(r) ==
    /\ Awaits(r, "SEND") /\ tx[r] # "SIGNED"
    /\ GoesOn(r, "RECONCILE")
    /\ UNCHANGED <<procVars, storeVars, failed, locks, batch, tradeVars, chainVars>>

\* Mutant: the lock goes with the error.
SendFailsUnlocked(r) ==
    /\ Awaits(r, "SEND")
    /\ UNCHANGED tx \/ (tx[r] = "SIGNED" /\ tx' = [tx EXCEPT ![r] = "FLYING"])
    /\ Deferred(r) /\ locks' = locks \ {r}
    /\ RowDone
    /\ UNCHANGED <<procVars, attempts, failed, batch, tradeVars, account>>

\* An error or a timeout, after which the bytes may still leave: UNKNOWN.
SendFails(r) ==
    /\ Awaits(r, "SEND")
    /\ UNCHANGED tx \/ (tx[r] = "SIGNED" /\ tx' = [tx EXCEPT ![r] = "FLYING"])
    /\ Deferred(r)
    /\ RowDone
    /\ UNCHANGED <<procVars, attempts, failed, batch, locks, tradeVars, account>>

\* A signed row of the batch is locked and its transaction asked for.
Reconciles(r) ==
    /\ Turn(r, "SIGNED")
    /\ locks' = locks \cup {r}
    /\ \/ GoesOn(r, "RECONCILE") /\ UNCHANGED <<status, dueVars>>
       \/ Deferred(r) /\ RowDone
    /\ UNCHANGED <<procVars, attempts, failed, tradeVars, chainVars>>

\* Mutant: a missing receipt is taken for an expired transaction.
VerdictRash(r) == IF tx[r] = "LANDED" THEN "CONFIRMED" ELSE "BLOCKED"

\* A finalized receipt, or the proof that there will be none.  The verdict is taken
\* from what has happened: the checks by which reconcileTokenAccountClose gets it (a
\* receipt that is the row's own, a finalized height past the last valid one, a
\* status at a slot that is recent enough, no receipt when asked again) are not
\* modelled, and when one of them fails the row StaysUnknown.
Verdict(r) == CASE tx[r] = "LANDED" -> "CONFIRMED"
                [] tx[r] \in {"FAILED", "EXPIRED"} -> "BLOCKED"
                [] OTHER -> "NONE"

\* The lock stays if the saved row cannot be read back.
Settles(r) ==
    /\ Awaits(r, "RECONCILE") /\ Verdict(r) # "NONE"
    /\ Concludes(r, Verdict(r))
    /\ locks' = locks \ {r} \/ UNCHANGED locks
    /\ RowDone
    /\ UNCHANGED <<procVars, attempts, failed, batch, tradeVars, chainVars>>

StaysUnknown(r) ==
    /\ Awaits(r, "RECONCILE")
    /\ Deferred(r)
    /\ RowDone
    /\ UNCHANGED <<procVars, attempts, failed, batch, locks, tradeVars, chainVars>>

\* next_attempt_at passes.
BecomesDue(r) ==
    /\ status[r] \in Waiting /\ r \notin due
    /\ due' = due \cup {r} /\ before' = before \cup (due \X {r})
    /\ UNCHANGED <<procVars, status, attempts, memVars, tradeVars, chainVars>>

-----------------------------------------------------------------------------
(* Receipts of the trades: recordLiveAccountFunding *)

Recorded(m) == {q \in Rows : MintOf(q) = m /\ status[q] # "NONE"}

\* The receipt of a buy that created the account: a new candidate, which
\* supersedes the unsigned ones before it (or is superseded itself).  Its
\* next_attempt_at is 0: it comes after other new rows and before those put off.
RecordBirth(r) ==
    LET known  == Recorded(MintOf(r)) \cup {r}
        Old(q) == \E k \in known : GenOf(k) > GenOf(q)
        After(q) == IF q \in known /\ Old(q) /\ (q = r \/ status[q] = "PENDING") THEN "SUPERSEDED"
                    ELSE IF q = r THEN "PENDING" ELSE status[q]
    IN  /\ Alive /\ GenOf(r) <= gen[MintOf(r)] /\ status[r] = "NONE"
        /\ status' = [q \in Rows |-> After(q)]
        /\ \E new \in SUBSET due :
              /\ \A p \in due, q \in new : <<p, q>> \in before => p \in new
              /\ LET line == before \cup (new \X {r}) \cup ({r} \X (due \ new))
                     Still == {q \in Rows : After(q) \in Waiting}
                 IN  due' = (due \cup {r}) \cap Still /\ before' = line \cap (Still \X Still)
        /\ UNCHANGED <<procVars, attempts, memVars, tradeVars, chainVars>>

\* The receipt of a sell that closed the account: the newest candidate known to
\* be created before it is absent, unless it was signed.
RecordClose(r) ==
    /\ Alive /\ r \in traded
    /\ \E q \in Recorded(MintOf(r)) :
          /\ GenOf(q) <= GenOf(r)
          /\ \A k \in Recorded(MintOf(r)) : GenOf(k) <= GenOf(r) => GenOf(k) <= GenOf(q)
          /\ status[q] \in {"PENDING", "SUPERSEDED"}
          /\ status' = [status EXCEPT ![q] = "ABSENT"]
          /\ Later(q)
    /\ UNCHANGED <<procVars, attempts, memVars, tradeVars, chainVars>>

-----------------------------------------------------------------------------
(* The trading side, of which only what it does to the account is kept *)

\* _riskReason and createLivePosition, with no await between them.
Enter(m) ==
    /\ run = "UP" /\ dealings < MaxDealings
    /\ pos[m] = "NONE" /\ ~BlocksMint(m)
    /\ account[m] = 0 => gen[m] < MaxGens
    /\ pos' = [pos EXCEPT ![m] = "OPENING"]
    /\ dealings' = dealings + 1
    /\ UNCHANGED <<procVars, storeVars, memVars, owed, gen, traded, chainVars>>

\* The buy creates the account unless it is there.
Bought(m) ==
    LET created == IF account[m] = 0 THEN gen[m] + 1 ELSE account[m]
    IN  /\ Alive /\ pos[m] = "OPENING" /\ created <= MaxGens
        /\ pos' = [pos EXCEPT ![m] = "OPEN"]
        /\ account' = [account EXCEPT ![m] = created]
        /\ gen' = [gen EXCEPT ![m] = IF created > @ THEN created ELSE @]
        /\ owed' = owed \cup {m}
        /\ UNCHANGED <<procVars, storeVars, memVars, dealings, traded, tx>>

NotBought(m) ==
    /\ Alive /\ pos[m] = "OPENING"
    /\ pos' = [pos EXCEPT ![m] = "NONE"]
    /\ UNCHANGED <<procVars, storeVars, memVars, dealings, owed, gen, traded, chainVars>>

Exits(m) ==
    /\ Alive /\ pos[m] = "OPEN"
    /\ pos' = [pos EXCEPT ![m] = "EXITING"]
    /\ UNCHANGED <<procVars, storeVars, memVars, dealings, owed, gen, traded, chainVars>>

\* The sell leaves an empty account, or closes it.
SoldOut(m) ==
    /\ Alive /\ pos[m] = "EXITING"
    /\ pos' = [pos EXCEPT ![m] = "NONE"]
    /\ owed' = owed \cup {m}
    /\ \/ UNCHANGED <<account, traded>>
       \/ /\ account[m] > 0
          /\ account' = [account EXCEPT ![m] = 0]
          /\ traded' = traded \cup {<<m, account[m]>>}
    /\ UNCHANGED <<procVars, storeVars, memVars, dealings, gen, tx>>

\* The receipts of the mint's orders are stored.
Reckons(m) ==
    /\ Alive /\ m \in owed
    /\ owed' = owed \ {m}
    /\ UNCHANGED <<procVars, storeVars, memVars, pos, dealings, gen, traded, chainVars>>

\* The owner closes an empty account by hand.
ClosedByHand(m) ==
    /\ pos[m] = "NONE" /\ account[m] > 0 /\ dealings < MaxDealings
    /\ account' = [account EXCEPT ![m] = 0]
    /\ dealings' = dealings + 1
    /\ UNCHANGED <<procVars, storeVars, memVars, pos, owed, gen, traded, tx>>

-----------------------------------------------------------------------------
(* The chain: CloseAccount executes on an account without tokens *)

Lands(r) ==
    /\ tx[r] = "FLYING" /\ account[MintOf(r)] > 0 /\ pos[MintOf(r)] \in {"NONE", "OPENING"}
    /\ tx' = [tx EXCEPT ![r] = "LANDED"]
    /\ account' = [account EXCEPT ![MintOf(r)] = 0]
    /\ UNCHANGED <<procVars, storeVars, memVars, tradeVars>>

Fails(r) ==
    /\ tx[r] = "FLYING"
    /\ tx' = [tx EXCEPT ![r] = "FAILED"]
    /\ UNCHANGED <<procVars, storeVars, memVars, tradeVars, account>>

\* Its blockhash is too old to be executed any more.
Expires(r) ==
    /\ tx[r] \in {"SIGNED", "FLYING"}
    /\ tx' = [tx EXCEPT ![r] = "EXPIRED"]
    /\ UNCHANGED <<procVars, storeVars, memVars, tradeVars, account>>

-----------------------------------------------------------------------------
(* Stop, crash and start *)

MemoryLost ==
    /\ run' = "DOWN"
    /\ failed' = FALSE /\ locks' = {} /\ batch' = {} /\ step' = "IDLE" /\ hand' = {}

Stop ==
    /\ run = "UP" /\ stops < MaxStops
    /\ run' = "STOPPING" /\ stops' = stops + 1
    /\ UNCHANGED <<enabled, storeVars, memVars, tradeVars, chainVars>>

\* stop() awaits the run.
StopDone ==
    /\ run = "STOPPING" /\ step = "IDLE"
    /\ MemoryLost
    /\ UNCHANGED <<stops, enabled, storeVars, tradeVars, chainVars>>

Crash ==
    /\ Alive /\ stops < MaxStops
    /\ stops' = stops + 1
    /\ MemoryLost
    /\ UNCHANGED <<enabled, storeVars, tradeVars, chainVars>>

\* Mutant: the locks are left to the first run.
StartUnlocked ==
    /\ run = "DOWN" /\ run' = "UP"
    /\ enabled' \in BOOLEAN
    /\ UNCHANGED <<stops, storeVars, memVars, tradeVars, chainVars>>

\* start(), before any entry is taken.
Start ==
    /\ run = "DOWN" /\ run' = "UP"
    /\ enabled' \in BOOLEAN
    /\ SyncLocks
    /\ UNCHANGED <<stops, storeVars, batch, step, hand, tradeVars, chainVars>>

-----------------------------------------------------------------------------
RowStep(r) ==
    \/ SkipsRow(r) \/ PutsOff(r) \/ Prepares(r) \/ GivesUp(r) \/ Signs(r)
    \/ Broadcasts(r) \/ SendAnswers(r) \/ SendFails(r)
    \/ Reconciles(r) \/ Settles(r) \/ StaysUnknown(r)
    \/ BecomesDue(r) \/ RecordBirth(r) \/ RecordClose(r)
    \/ Lands(r) \/ Fails(r) \/ Expires(r)

MintStep(m) ==
    \/ Enter(m) \/ Bought(m) \/ NotBought(m) \/ Exits(m) \/ SoldOut(m)
    \/ Reckons(m) \/ ClosedByHand(m)

Next ==
    \/ RunStarts \/ RunEnds
    \/ \E r \in Rows : RowStep(r)
    \/ \E m \in Mints : MintStep(m)
    \/ Stop \/ StopDone \/ Crash \/ Start

Spec == Init /\ [][Next]_vars

\* Awaits end, timers fire, a stopped process is started again; the database, the
\* kill switch and the RPC node do not fail every time, for the turn of a row and for
\* the answers as a whole.  Nothing is assumed of the chain: a transaction may stay
\* without a verdict for ever.
RunStep ==
    \/ RunEnds
    \/ \E r \in Rows :
          \/ SkipsRow(r) \/ PutsOff(r) \/ Prepares(r) \/ Reconciles(r)
          \/ GivesUp(r) \/ Signs(r) \/ SendAnswers(r) \/ SendFails(r)
          \/ Settles(r) \/ StaysUnknown(r)

TurnSaved(r) ==
    \/ PutsOff(r) /\ due' # due
    \/ Reconciles(r) /\ step' = "RECONCILE"
AnswerSaved(r) == StaysUnknown(r) /\ due' # due

Fairness ==
    /\ WF_vars(RunStep) /\ WF_vars(StopDone) /\ WF_vars(Start)
    /\ WF_vars(RunStarts /\ ~failed')
    /\ SF_vars(\E r \in Rows : Settles(r)) /\ SF_vars(\E r \in Rows : AnswerSaved(r))
    /\ \A r \in Rows : WF_vars(BecomesDue(r)) /\ SF_vars(TurnSaved(r))

FairSpec == Spec /\ Fairness

-----------------------------------------------------------------------------
(* Properties *)

Flying(r) == tx[r] \in {"SIGNED", "FLYING"}

\* While a closing transaction may still be executed nobody trades its mint: no
\* tokens can arrive in, and no sale can depend on, an account that is about to
\* disappear (blocksMint, isMintBusy and the locks restored by start).
NoTradeWhileClosing ==
    \A r \in Rows : Flying(r) \/ status[r] = "SIGNED" => pos[MintOf(r)] = "NONE"

\* A process that can read its outbox holds the lock of every signed row, also
\* when a commit succeeded whose readback threw (_save, durable).
LocksCoverSigned == run = "UP" => failed \/ SignedRows \subseteq locks

\* A closing transaction that may still be executed is durable as such, and was
\* the only one ever signed for its row (persist before broadcast, no re-sign).
DurableWhileFlying ==
    \A r \in Rows : /\ Flying(r) => status[r] = "SIGNED"
                    /\ attempts[r] = IF tx[r] = "NONE" THEN 0 ELSE 1

\* A transaction that may still be executed is on record as the only one of its
\* row, and a running process holds its lock: no commit that threw, no timeout and
\* no restart makes the manager forget it (_save, start).
SignedIsCovered == LocksCoverSigned /\ DurableWhileFlying

\* What a concluded row says is what happened to its transaction (_reconcile).
VerdictIsTrue ==
    \A r \in Rows :
        /\ status[r] = "CONFIRMED" => tx[r] = "LANDED"
        /\ status[r] = "BLOCKED" /\ attempts[r] > 0 => tx[r] \in {"FAILED", "EXPIRED"}
        /\ status[r] \in {"SUPERSEDED", "ABSENT"} => attempts[r] = 0

\* A candidate is only dropped as absent or superseded, or counted as refunded,
\* when its account is gone, whatever the order in which the receipts of the
\* mint's trades arrive (recordLiveAccountFunding).
DroppedOnlyIfGone ==
    \A r \in Rows : status[r] \in {"CONFIRMED", "SUPERSEDED", "ABSENT"}
                    => account[MintOf(r)] # GenOf(r)

\* The store and the chain agree about every row that was concluded, by a verdict
\* on its transaction or by the receipts of the mint's trades.
ConclusionsAreTrue == VerdictIsTrue /\ DroppedOnlyIfGone

\* A closing transaction closes the account it was signed for, never one that a
\* later buy created at the same address.
LandsOn(r) == tx[r] # "LANDED" /\ tx'[r] = "LANDED" => account[MintOf(r)] = GenOf(r)
ClosesItsOwn == [][\A r \in Rows : LandsOn(r)]_vars

\* No stale copy of a row reopens it: a terminal row stays as it is, except that
\* a superseded one may turn out closed by a trade, and a signed row never
\* becomes unsigned (the guards of updateLiveAccountRecovery).
KeepsConclusion(r) ==
    /\ status[r] \in Terminal =>
          status'[r] = status[r] \/ (status[r] = "SUPERSEDED" /\ status'[r] = "ABSENT")
    /\ status[r] = "SIGNED" => status'[r] \in {"SIGNED", "CONFIRMED", "BLOCKED"}
ConclusionsAreFinal == [][\A r \in Rows : KeepsConclusion(r)]_vars

\* The promise of CloseProtocol, of which crashes and restarts are no part.
Closing == {r \in Rows : status[r] = "SIGNED" \/ Flying(r)}
Protocol == INSTANCE CloseProtocol WITH
    Accounts <- Rows,
    closing <- Closing,
    done    <- {r \in Rows : attempts[r] > 0} \ Closing,
    trading <- {m \in Mints : pos[m] # "NONE"}
ImplementsProtocol == Protocol!Spec

\* Once the chain has decided on a closing transaction its row is concluded and its
\* lock is given back, also when the process is stopped or killed in between, the
\* node answers late or the outbox cannot be read for a while (_reconcile, _save,
\* _syncLocks): time and again the outbox is read and no mint is kept closed by a
\* transaction that is over.
Decided(r) == status[r] = "SIGNED" /\ tx[r] \in {"LANDED", "FAILED", "EXPIRED"}
LockedInVain(r) == status[r] \in Terminal /\ r \in locks
DecidedConcludes == []<>(~failed /\ \A r \in Rows : ~Decided(r) /\ ~LockedInVain(r))

\* Rows whose transaction stays unknown for ever do not keep an unsigned one from
\* its turn (the place kept by liveAccountRecoveryCandidates).
WaitsUnsigned(r) == status[r] = "PENDING" /\ r \in due
GetsTurn(r) == status[r] # "PENDING" \/ ~enabled \/ \E b \in batch : b.row = r
UnsignedServed == \A r \in Rows : []<>(WaitsUnsigned(r) => GetsTurn(r))

=============================================================================
