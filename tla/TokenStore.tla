----------------------------- MODULE TokenStore -----------------------------
(***************************************************************************)
(* The token rows and the raw trade buffer of ResearchStore.               *)
(*                                                                         *)
(* What is known of a mint lives twice: in the table flow_tokens, and in   *)
(* the map every component reads with getToken().  An event is merged into *)
(* the map at once and then written.  When another writer holds the SQLite *)
(* lock, or while the store backs off from an earlier failure, the write   *)
(* is deferred: one patch per mint, merged key by key, applied later by    *)
(* the flush timer.  Trades wait in a buffer of their own, written in one  *)
(* transaction by the timer or as soon as the buffer is long enough; after *)
(* that write the rows of the mints are read back into the map.            *)
(*                                                                         *)
(* Everything below is synchronous in the code, so an event, a tick of the *)
(* timer and a restart are one step each.  The lock belongs to another     *)
(* process and may be taken between two statements of a flush.             *)
(***************************************************************************)
EXTENDS Integers, Sequences

CONSTANTS
    Mints,
    FlushMax,        \* storage.flushMax: a buffer this long is written at once
    BatchMax,        \* most trades written in one transaction
    MaxPending,      \* storage.maxPendingTrades: the oldest trades are dropped beyond it
    ObservedTimes,   \* block times of the AMM trades that may be observed
    MaxEvents,       \* bound on the events of a behaviour
    MaxLocks,        \* bound on the times another writer takes the lock
    MaxErrors,       \* bound on writes that fail for another reason than the lock
    MaxCrashes       \* bound on kills of the process

\* A mint completes its curve once and migrates once: each event has one block
\* time, however often it is delivered.  0 stands for an absent time.
CompleteAt == 1
ExactAt == 2

ASSUME BoundsAssumption ==
    /\ FlushMax \in Nat \ {0} /\ BatchMax \in Nat /\ BatchMax >= FlushMax
    /\ MaxPending \in Nat /\ MaxPending >= FlushMax
    /\ MaxEvents \in Nat /\ MaxLocks \in Nat /\ MaxErrors \in Nat /\ MaxCrashes \in Nat
    /\ ObservedTimes \subseteq {t \in Nat : t > ExactAt}

VARIABLES
    mem,        \* tokens: the map read by getToken()
    rows,       \* flow_tokens
    deferred,   \* pendingTokenWrites
    backoff,    \* Date.now() < nextWriteRetryAt
    raw,        \* rawBuffer, as the mints of its trades
    locked,     \* another process holds the write lock
    accepted,   \* history: mints whose completion was recorded, and not lost by a kill
    failed,     \* history: mints with an event or a flush that raised
    left        \* bounds not used yet

store == <<mem, rows, deferred, backoff, raw>>
vars == <<mem, rows, deferred, backoff, raw, locked, accepted, failed, left>>

-----------------------------------------------------------------------------
(* Tokens, patches and the statements on a row *)

Sources == {"NONE", "FIRST_AMM_OBSERVED", "CHAIN_EVENT"}
Times == {0, CompleteAt, ExactAt} \cup ObservedTimes
Token == [known: BOOLEAN, created: BOOLEAN, grad: Times, mig: Times, src: Sources]
Absent == [known |-> FALSE, created |-> FALSE, grad |-> 0, mig |-> 0, src |-> "NONE"]

Patch == [due: BOOLEAN, create: BOOLEAN, complete: BOOLEAN, mig: Times, src: Sources]
NoPatch == [due |-> FALSE, create |-> FALSE, complete |-> FALSE, mig |-> 0, src |-> "NONE"]

Earlier(a, b) == IF a = 0 \/ (b # 0 /\ b < a) THEN b ELSE a

Ensured(r) == [r EXCEPT !.known = TRUE]
Created(r) == [r EXCEPT !.known = TRUE, !.created = TRUE]
\* An UPDATE finds nothing to change when the mint has no row.
Completed(r) == IF r.known THEN [r EXCEPT !.grad = Earlier(r.grad, CompleteAt)] ELSE r

\* An exact migration replaces an observed one; of one source the earlier stays.
Supersedes(r, t, src) ==
    \/ r.mig = 0
    \/ src = "CHAIN_EVENT" /\ r.src # "CHAIN_EVENT"
    \/ src = r.src /\ t < r.mig

Migrated(r, t, src) ==
    IF ~r.known THEN r
    ELSE LET g == [r EXCEPT !.grad = IF @ = 0 THEN t ELSE @]
         IN IF Supersedes(r, t, src) THEN [g EXCEPT !.mig = t, !.src = src] ELSE g

\* The statements of a deferred patch, in the order of the flush.
FirstStatement(r, p) == IF p.create THEN Created(r) ELSE Ensured(r)
SecondStatement(r, p) == IF p.complete THEN Completed(r) ELSE r
ThirdStatement(r, p) == IF p.mig # 0 THEN Migrated(r, p.mig, p.src) ELSE r
Patched(r, p) == ThirdStatement(SecondStatement(FirstStatement(r, p), p), p)

-----------------------------------------------------------------------------
(* One record operation, on what the store holds of one mint *)

Held(m) == [mem |-> mem[m], row |-> rows[m], patch |-> deferred[m], backoff |-> backoff]

\* The try block of recordCreate, ensureToken, recordComplete and recordMigration:
\* hold the write back, find the lock taken, or write and read the row back.
Put(c, heldBack, merged, row, patch) ==
    IF heldBack \/ locked
    THEN [c EXCEPT !.mem = merged, !.patch = patch, !.backoff = @ \/ ~heldBack]
    ELSE [c EXCEPT !.mem = IF row.known THEN row ELSE merged, !.row = row, !.backoff = FALSE]

HeldBack(c) == c.patch.due \/ c.backoff

\* ensureToken does not ask for an earlier patch: a mint that has one is in the map.
Ensure(c) ==
    IF c.mem.known THEN c
    ELSE Put(c, c.backoff, Ensured(c.mem), Ensured(c.row), [c.patch EXCEPT !.due = TRUE])

RecordCreate(c) ==
    Put(c, HeldBack(c), Created(c.mem), Created(c.row),
        [c.patch EXCEPT !.due = TRUE, !.create = TRUE])
\* Mutant: the patch of an earlier event that still waits is not asked for.
RecordCompleteUnheld(c) ==
    Put(c, c.backoff, Completed(c.mem), Completed(c.row),
        [c.patch EXCEPT !.due = TRUE, !.complete = TRUE])

RecordComplete(c) ==
    Put(c, HeldBack(c), Completed(c.mem), Completed(c.row),
        [c.patch EXCEPT !.due = TRUE, !.complete = TRUE])
\* A later patch of the same key replaces the earlier one.
RecordMigration(c, t, src) ==
    Put(c, HeldBack(c), Migrated(c.mem, t, src), Migrated(c.row, t, src),
        [c.patch EXCEPT !.due = TRUE, !.mig = t, !.src = src])

Keep(m, c) ==
    /\ mem' = [mem EXCEPT ![m] = c.mem]
    /\ rows' = [rows EXCEPT ![m] = c.row]
    /\ deferred' = [deferred EXCEPT ![m] = c.patch]
    /\ backoff' = c.backoff

\* A write that fails for another reason than the lock raises: the event is
\* dropped by the dispatcher, and what was merged into the map stays there.
Raise(m, c, merged) ==
    /\ left.errors > 0
    /\ left' = [left EXCEPT !.errors = @ - 1, !.events = @ - 1]
    /\ Keep(m, [c EXCEPT !.mem = merged, !.backoff = TRUE])
    /\ failed' = failed \cup {m}
    /\ UNCHANGED <<raw, locked, accepted>>

EnsureRaises(m) == ~mem[m].known /\ ~backoff /\ Raise(m, Held(m), Ensured(mem[m]))

Accept(ms) ==
    /\ left' = [left EXCEPT !.events = @ - 1]
    /\ accepted' = accepted \cup ms
    /\ UNCHANGED <<locked, failed>>

-----------------------------------------------------------------------------
(* The raw trade buffer *)

\* Mutant: nothing is dropped when the buffer is over its limit.
QueuedUnbounded(m) == Append(raw, m)

\* queueRawTrade pushes the trade and drops the oldest beyond the limit.
Queued(m) == LET q == Append(raw, m)
             IN IF Len(q) > MaxPending THEN Tail(q) ELSE q

Batch(q) == {q[i] : i \in 1 .. (IF Len(q) > BatchMax THEN BatchMax ELSE Len(q))}
AfterBatch(q) == SubSeq(q, BatchMax + 1, Len(q))

\* After the transaction every mint of the batch is read back from its row.
ReadBack(known, table, ms) == [m \in Mints |-> IF m \in ms /\ table[m].known THEN table[m] ELSE known[m]]

\* queueRawTrade after the other writes of the event; flushRawTrades when the
\* buffer has grown to FlushMax.
Queue(m, c) ==
    LET q == Queued(m)
        full == Len(q) >= FlushMax /\ ~c.backoff
    IN \/ /\ ~full
          /\ Keep(m, c) /\ raw' = q
          /\ Accept({})
       \/ /\ full /\ locked
          /\ Keep(m, [c EXCEPT !.backoff = TRUE]) /\ raw' = q
          /\ Accept({})
       \/ /\ full /\ ~locked
          /\ rows' = [rows EXCEPT ![m] = c.row]
          /\ mem' = ReadBack([mem EXCEPT ![m] = c.mem], rows', Batch(q))
          /\ deferred' = [deferred EXCEPT ![m] = c.patch]
          /\ raw' = AfterBatch(q)
          /\ backoff' = FALSE
          /\ Accept({})
       \/ /\ full /\ left.errors > 0
          /\ Keep(m, [c EXCEPT !.backoff = TRUE]) /\ raw' = q
          /\ left' = [left EXCEPT !.errors = @ - 1, !.events = @ - 1]
          /\ UNCHANGED <<locked, accepted, failed>>

-----------------------------------------------------------------------------
(* Events of the parser *)

Create(m) ==
    /\ left.events > 0
    /\ \/ Keep(m, RecordCreate(Held(m))) /\ Accept({}) /\ UNCHANGED raw
       \/ ~HeldBack(Held(m)) /\ Raise(m, Held(m), Created(mem[m]))

Complete(m) ==
    /\ left.events > 0
    /\ LET c == Ensure(Held(m))
       IN \/ Keep(m, RecordComplete(c)) /\ Accept({m}) /\ UNCHANGED raw
          \/ EnsureRaises(m)
          \/ ~HeldBack(c) /\ Raise(m, c, Completed(c.mem))

Migrate(m) ==
    /\ left.events > 0
    /\ LET c == Ensure(Held(m))
       IN \/ /\ Keep(m, RecordMigration(c, ExactAt, "CHAIN_EVENT"))
             /\ Accept({})
             /\ UNCHANGED raw
          \/ EnsureRaises(m)
          \/ ~HeldBack(c) /\ Raise(m, c, Migrated(c.mem, ExactAt, "CHAIN_EVENT"))

CurveTrade(m) ==
    /\ left.events > 0
    /\ Queue(m, Ensure(Held(m))) \/ EnsureRaises(m)

\* The first AMM trade of a completed mint without a migration stands for it.
NeedsMigration(t) == t.grad > 0 /\ t.mig = 0

AmmTrade(m, at) ==
    /\ left.events > 0 /\ mem[m].known
    /\ LET c == Held(m)
           migratedAt == IF mem[m].grad > at THEN mem[m].grad ELSE at
       IN IF NeedsMigration(mem[m])
          THEN \/ Queue(m, RecordMigration(c, migratedAt, "FIRST_AMM_OBSERVED"))
               \/ ~HeldBack(c) /\ Raise(m, c, Migrated(c.mem, migratedAt, "FIRST_AMM_OBSERVED"))
          ELSE Queue(m, c)

-----------------------------------------------------------------------------
(* The flush timer, the lock and a kill *)

Waiting == {m \in Mints : deferred[m].due}

\* Mutant: the map keeps what it held before the flush.
FlushedUnread(D, traded) ==
    /\ deferred' = [m \in Mints |-> IF m \in D THEN NoPatch ELSE deferred[m]]
    /\ mem' = ReadBack(mem, rows', traded)

\* Mutant: the patch is not removed once it is applied.
FlushedKept(D, traded) ==
    /\ UNCHANGED deferred
    /\ mem' = ReadBack(mem, rows', D \cup traded)

\* The patches of D are applied and forgotten, and their mints read back with
\* those of the trades that were written.
Flushed(D, traded) ==
    /\ deferred' = [m \in Mints |-> IF m \in D THEN NoPatch ELSE deferred[m]]
    /\ mem' = ReadBack(mem, rows', D \cup traded)

Tick ==
    /\ ~backoff /\ (Waiting # {} \/ raw # <<>>)
    /\ \/ /\ locked
          /\ backoff' = TRUE
          /\ UNCHANGED <<mem, rows, deferred, raw>>
       \/ /\ ~locked
          /\ rows' = [m \in Mints |-> IF m \in Waiting THEN Patched(rows[m], deferred[m]) ELSE rows[m]]
          /\ raw' = AfterBatch(raw)
          /\ Flushed(Waiting, Batch(raw))
          /\ UNCHANGED backoff
    /\ UNCHANGED <<locked, accepted, failed, left>>

Stopped ==
    /\ backoff' = TRUE /\ UNCHANGED <<raw, accepted, failed>>
    /\ \/ /\ left.locks > 0
          /\ locked' = TRUE
          /\ left' = [left EXCEPT !.locks = @ - 1]
       \/ /\ left.errors > 0
          /\ left' = [left EXCEPT !.errors = @ - 1]
          /\ UNCHANGED locked

\* The flush stops where the lock is taken or a statement raises: some mints
\* are done, the next one may have seen part of its statements (each commits by
\* itself), and the trades are not written.
TickCut ==
    /\ ~backoff /\ ~locked
    /\ Stopped
    /\ \/ \E D \in SUBSET Waiting : \E next \in Waiting \ D, part \in 0 .. 2 :
            /\ rows' = [m \in Mints |->
                  IF m \in D THEN Patched(rows[m], deferred[m])
                  ELSE IF m # next \/ part = 0 THEN rows[m]
                  ELSE LET first == FirstStatement(rows[m], deferred[m])
                       IN IF part = 1 THEN first ELSE SecondStatement(first, deferred[m])]
            /\ Flushed(D, {})
       \/ /\ raw # <<>>
          /\ rows' = [m \in Mints |-> IF m \in Waiting THEN Patched(rows[m], deferred[m]) ELSE rows[m]]
          /\ Flushed(Waiting, {})

\* The time of the retry is reached, or another write of the store succeeds.
BackoffEnds ==
    /\ backoff /\ backoff' = FALSE
    /\ UNCHANGED <<mem, rows, deferred, raw, locked, accepted, failed, left>>

Lock ==
    /\ ~locked /\ left.locks > 0
    /\ locked' = TRUE /\ left' = [left EXCEPT !.locks = @ - 1]
    /\ UNCHANGED <<store, accepted, failed>>

Unlock ==
    /\ locked /\ locked' = FALSE
    /\ UNCHANGED <<store, accepted, failed, left>>

InRow(m) == rows[m].grad = CompleteAt

\* A kill loses what is only in memory; the constructor reads every row.
Crash ==
    /\ left.crashes > 0
    /\ left' = [left EXCEPT !.crashes = @ - 1]
    /\ mem' = rows /\ deferred' = [m \in Mints |-> NoPatch] /\ raw' = <<>> /\ backoff' = FALSE
    /\ accepted' = {m \in accepted : InRow(m)} /\ failed' = {}
    /\ UNCHANGED <<rows, locked>>

-----------------------------------------------------------------------------
Init ==
    /\ mem = [m \in Mints |-> Absent] /\ rows = mem
    /\ deferred = [m \in Mints |-> NoPatch]
    /\ backoff = FALSE /\ raw = <<>> /\ locked = FALSE
    /\ accepted = {} /\ failed = {}
    /\ left = [events |-> MaxEvents, locks |-> MaxLocks, errors |-> MaxErrors, crashes |-> MaxCrashes]

Next ==
    \/ \E m \in Mints : Create(m) \/ Complete(m) \/ Migrate(m) \/ CurveTrade(m)
    \/ \E m \in Mints, at \in ObservedTimes : AmmTrade(m, at)
    \/ Tick \/ TickCut \/ BackoffEnds \/ Lock \/ Unlock \/ Crash

Spec == Init /\ [][Next]_vars

\* The timer fires as long as the process lives, a retry time passes, and
\* another writer gives the lock back.
FairSpec == Spec /\ WF_vars(Tick) /\ WF_vars(BackoffEnds) /\ WF_vars(Unlock)

-----------------------------------------------------------------------------
(* Properties *)

\* Every variable keeps its type: no step puts a token, a patch or a buffer of
\* another shape into the store.
TypeOK ==
    /\ mem \in [Mints -> Token] /\ rows \in [Mints -> Token]
    /\ deferred \in [Mints -> Patch]
    /\ backoff \in BOOLEAN /\ locked \in BOOLEAN
    /\ raw \in Seq(Mints) /\ Len(raw) <= MaxPending
    /\ accepted \in SUBSET Mints
    /\ failed \in SUBSET Mints
    /\ left \in [events : 0 .. MaxEvents, locks : 0 .. MaxLocks,
                 errors : 0 .. MaxErrors, crashes : 0 .. MaxCrashes]

\* A completion that was recorded is in the row of its mint or waits in its
\* patch, whatever was deferred, flushed in part or read back around it
\* (recordComplete updates a row that an earlier deferred write has yet to make).
CompletionNotLost ==
    \A m \in Mints \ failed : m \in accepted => InRow(m) \/ deferred[m].complete

\* When nothing is deferred for a mint, what getToken() answers is the row: no
\* order of events, flushes and retries leaves the map ahead or behind for good.
SettledAgrees ==
    \A m \in Mints \ failed : ~deferred[m].due => mem[m] = rows[m]

\* A deferred write is not forgotten: it is applied, or the process is killed.
DeferredIsWritten == \A m \in Mints : deferred[m].due ~> ~deferred[m].due

=============================================================================
