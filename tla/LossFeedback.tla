---------------------------- MODULE LossFeedback ----------------------------
(***************************************************************************)
(* What the bot learns from its own losses: core/LiveLossRugFeedback.js,   *)
(* with the case rows of ResearchStore.js and the learning of              *)
(* PreEntryRugRiskTracker.js.                                              *)
(*                                                                         *)
(* Evidence about a position is taken when it is entered and when it has   *)
(* first fallen far enough, and is queued in memory; a settlement queues   *)
(* the question whether the loss was a rug.  A flush works off a copy of   *)
(* the queue, one item after the other: it saves the evidence, verifies    *)
(* the accounting, analyses, perhaps waits for a confirmation, learns and  *)
(* concludes the case.  Every write may fail, the process may be killed    *)
(* between any two, and a stop makes one bounded attempt per item.         *)
(*                                                                         *)
(* An action is what happens between two awaits of the flush.  Positions   *)
(* are the ids of live_positions; the contents of the evidence, the        *)
(* verdict's reasons and the release of the tracker's samples are left out.*)
(***************************************************************************)
EXTENDS Integers, Sequences, FiniteSets

CONSTANTS
    NumPositions,   \* positions are 1 .. NumPositions, in the order of their ids
    MaxPending,     \* capacity of the queue, and of the evidence in memory
    BatchSize,      \* items of one flush
    RecoveryBatch,  \* ids of one page of the recovery scan
    Budgets         \* bounds, taken together: on entries, on faults (reads and writes
                    \* that fail, and kills) and on stops that are asked for

ASSUME FeedbackAssumption ==
    /\ NumPositions \in Nat
    /\ Budgets \subseteq [entries : Nat, faults : Nat, stops : Nat]
    /\ {MaxPending, BatchSize, RecoveryBatch} \subseteq Nat \ {0}

Positions == 1 .. NumPositions

VARIABLES
    pos,        \* live_positions: status
    net,        \* live_positions: realized_return_pct, once it is complete
    proved,     \* live_orders: every signed order is settled and resolved
    cases,      \* live_loss_rug_cases
    learned,    \* toxic history: analyses that became templates
    queue,      \* pending, in the order of the Map
    item,       \* pending, by position
    tracked,    \* evidence in memory
    cursor, scanDue,  \* the recovery scan: last id, and whether its time has come
    work, step, \* the items of the flush that are left, and where it is with the first
    halt,       \* where a stop is
    passes,     \* forced flushes a stop may still make
    accepted,   \* history: evidence whose capture was accepted and not lost by a kill
    left        \* bounds not used yet

dealVars == <<pos, net, proved>>
memVars == <<queue, item, tracked, cursor, scanDue>>
flushVars == <<work, step>>
lifeVars == <<halt, passes, left>>
vars == <<dealVars, cases, learned, memVars, flushVars, lifeVars, accepted>>

-----------------------------------------------------------------------------
(* Cases, queued items *)

Verdicts == {"CANDIDATE", "RUG", "OTHER"}
Deadlines == {"NONE", "AHEAD", "PASSED"}

Case == [status : {"NONE", "CAPTURED", "TRIGGERED", "INVALID_SETTLEMENT",
                   "AWAITING_CONFIRMATION", "ANALYZED", "FINAL"},
         entry : BOOLEAN, trigger : BOOLEAN,
         class : {"NONE", "NOT_LOSS", "RECOVERED", "NOT_APPLICABLE"} \cup Verdicts,
         known : Nat,         \* which analysis of the position: its knownAt
         deadline : Deadlines]
NoCase == [status |-> "NONE", entry |-> FALSE, trigger |-> FALSE, class |-> "NONE",
           known |-> 0, deadline |-> "NONE"]

Patch == [entry : BOOLEAN, trigger : BOOLEAN, status : {"NONE", "CAPTURED", "TRIGGERED", "FINAL"}]
NoPatch == [entry |-> FALSE, trigger |-> FALSE, status |-> "NONE"]

Item == [patch : Patch, needs : BOOLEAN,  \* needsSettlement
         failedOnly : BOOLEAN,            \* entryFailureOnly
         wait : {"NOW", "RETRY", "DEADLINE"},  \* nextAttemptAt
         saved : BOOLEAN,                 \* durableDeferred
         seen : BOOLEAN]                  \* the flush works on this revision
NoItem == [patch |-> NoPatch, needs |-> FALSE, failedOnly |-> FALSE, wait |-> "NOW",
           saved |-> FALSE, seen |-> FALSE]

Nothing == [entry |-> FALSE, trigger |-> FALSE]
Pending(p) == \E i \in DOMAIN queue : queue[i] = p
Queued == {p \in Positions : Pending(p)}
Place(p) == CHOOSE i \in DOMAIN queue : queue[i] = p

\* The positions of S one after the other, as they are in the queue or by their ids.
Listings(S) == {s \in [1 .. Cardinality(S) -> S] : \A p \in S : \E i \in DOMAIN s : s[i] = p}
InLine(S) == {s \in Listings(S) : \A i, j \in DOMAIN s : i < j => Place(s[i]) < Place(s[j])}
ById(S) == {s \in Listings(S) : \A i, j \in DOMAIN s : i < j => s[i] < s[j]}

\* Mutant: the queue grows without a bound.
RoomAlways(p) == p \in Positions

Room(p) == Pending(p) \/ Len(queue) < MaxPending
Tracks(p) == tracked[p] # Nothing
TrackingRoom == Cardinality({p \in Positions : Tracks(p)}) < MaxPending

Or(a, b) == IF a = "NONE" THEN b ELSE a

\* The settlement is in, and every signed order of the closed position agrees.
Verified(p) == pos[p] = "CLOSED" /\ net[p] # "UNKNOWN" /\ proved[p]

Spend(what) == left[what] > 0 /\ left' = [left EXCEPT ![what] = @ - 1]

Init ==
    /\ pos = [p \in Positions |-> "NONE"]
    /\ net = [p \in Positions |-> "UNKNOWN"]
    /\ proved = [p \in Positions |-> FALSE]
    /\ cases = [p \in Positions |-> NoCase]
    /\ learned = {}
    /\ queue = <<>> /\ item = [p \in Positions |-> NoItem]
    /\ tracked = [p \in Positions |-> Nothing]
    /\ cursor = 0 /\ scanDue = TRUE
    /\ work = <<>> /\ step = "IDLE"
    /\ halt = "RUNS" /\ passes = 0
    /\ accepted = {}
    /\ left \in Budgets

-----------------------------------------------------------------------------
(* The queue *)

\* A new revision of an item: what waits is merged with what is new.
Merged(it, patch, settles) ==
    [it EXCEPT !.patch = [entry |-> patch.entry \/ @.entry,
                          trigger |-> patch.trigger \/ @.trigger,
                          status |-> Or(patch.status, @.status)],
               !.needs = @ \/ settles,
               !.saved = FALSE, !.seen = FALSE]

Enqueue(p, patch, settles) ==
    /\ queue' = IF Pending(p) THEN queue ELSE Append(queue, p)
    /\ item' = [item EXCEPT ![p] = Merged(@, patch, settles)]

Release(p) == tracked' = [tracked EXCEPT ![p] = Nothing]

-----------------------------------------------------------------------------
(* What the trading manager reports *)

Enters(p) ==
    /\ halt = "RUNS" /\ pos[p] = "NONE"
    /\ \A q \in Positions : q < p => pos[q] # "NONE"
    /\ Spend("entries")
    /\ pos' = [pos EXCEPT ![p] = "OPENING"]
    /\ IF Room(p) /\ TrackingRoom
       THEN /\ tracked' = [tracked EXCEPT ![p].entry = TRUE]
            /\ Enqueue(p, [NoPatch EXCEPT !.entry = TRUE, !.status = "CAPTURED"], FALSE)
            /\ accepted' = accepted \cup {<<p, "ENTRY">>}
       ELSE UNCHANGED <<tracked, queue, item, accepted>>
    /\ UNCHANGED <<net, proved, cases, learned, cursor, scanDue, flushVars, halt, passes>>

EntryFails(p) ==
    /\ halt = "RUNS" /\ pos[p] = "OPENING"
    /\ pos' = [pos EXCEPT ![p] = "ENTRY_FAILED"]
    /\ IF Room(p)
       THEN /\ queue' = IF Pending(p) THEN queue ELSE Append(queue, p)
            /\ item' = [item EXCEPT ![p] = [Merged(@, [NoPatch EXCEPT !.status = "FINAL"], FALSE)
                                              EXCEPT !.failedOnly = TRUE]]
            /\ Release(p)
       ELSE UNCHANGED <<queue, item, tracked>>
    /\ UNCHANGED <<net, proved, cases, learned, cursor, scanDue, flushVars, lifeVars, accepted>>

Opens(p) ==
    /\ halt = "RUNS" /\ pos[p] = "OPENING"
    /\ pos' = [pos EXCEPT ![p] = "OPEN"]
    /\ UNCHANGED <<net, proved, cases, learned, memVars, flushVars, lifeVars, accepted>>

\* The first trade at half the entry price; after a restart it may be taken again.
Drops(p) ==
    /\ halt = "RUNS" /\ pos[p] = "OPEN" /\ ~tracked[p].trigger
    /\ Room(p) /\ (Tracks(p) \/ TrackingRoom)
    /\ tracked' = [tracked EXCEPT ![p].trigger = TRUE]
    /\ Enqueue(p, [NoPatch EXCEPT !.trigger = TRUE, !.status = "TRIGGERED"], FALSE)
    /\ accepted' = accepted \cup {<<p, "TRIGGER">>}
    /\ UNCHANGED <<dealVars, cases, learned, cursor, scanDue, flushVars, lifeVars>>

Closes(p) ==
    /\ halt = "RUNS" /\ pos[p] = "OPEN"
    /\ pos' = [pos EXCEPT ![p] = "CLOSED"]
    /\ UNCHANGED <<net, proved, cases, learned, memVars, flushVars, lifeVars, accepted>>

\* The last receipt is in.  It may come during a stop, and the settlement is
\* dropped when the queue is full.
Settles(p) ==
    /\ halt # "DOWN" /\ pos[p] = "CLOSED" /\ net[p] = "UNKNOWN"
    /\ \E n \in {"LOSS", "SMALL"} : net' = [net EXCEPT ![p] = n]
    /\ \E b \in BOOLEAN : proved' = [proved EXCEPT ![p] = b]
    /\ IF Room(p) THEN Enqueue(p, NoPatch, TRUE) ELSE UNCHANGED <<queue, item>>
    /\ UNCHANGED <<pos, cases, learned, tracked, cursor, scanDue, flushVars, lifeVars, accepted>>

\* The order that was not resolved is; nobody reports it.
Resolves(p) ==
    /\ halt # "DOWN" /\ net[p] # "UNKNOWN" /\ ~proved[p]
    /\ proved' = [proved EXCEPT ![p] = TRUE]
    /\ UNCHANGED <<pos, net, cases, learned, memVars, flushVars, lifeVars, accepted>>

-----------------------------------------------------------------------------
(* Time *)

RetryDue(p) ==
    /\ item[p].wait = "RETRY"
    /\ item' = [item EXCEPT ![p].wait = "NOW"]
    /\ UNCHANGED <<dealVars, cases, learned, queue, tracked, cursor, scanDue>>
    /\ UNCHANGED <<flushVars, lifeVars, accepted>>

DeadlinePasses(p) ==
    /\ cases[p].deadline = "AHEAD"
    /\ cases' = [cases EXCEPT ![p].deadline = "PASSED"]
    /\ item' = [item EXCEPT ![p].wait = IF @ = "DEADLINE" THEN "NOW" ELSE @]
    /\ UNCHANGED <<dealVars, learned, queue, tracked, cursor, scanDue>>
    /\ UNCHANGED <<flushVars, lifeVars, accepted>>

ScanDue ==
    /\ ~scanDue /\ scanDue' = TRUE
    /\ UNCHANGED <<dealVars, cases, learned, queue, item, tracked, cursor>>
    /\ UNCHANGED <<flushVars, lifeVars, accepted>>

-----------------------------------------------------------------------------
(* A flush begins: the recovery scan, then a copy of the queue *)

Limit == IF MaxPending - Len(queue) < RecoveryBatch THEN MaxPending - Len(queue) ELSE RecoveryBatch

\* One page: the next ids of losses and of cases, whatever became of them.
Candidates == {p \in Positions : p > cursor /\ (net[p] = "LOSS" \/ cases[p].status # "NONE")}
Page == {p \in Candidates : Cardinality({q \in Candidates : q < p}) < Limit}
PageIsFull == Cardinality(Page) = Limit

\* Mutant: an analyzed case counts as done.
UnfinishedUnanalyzed(p) ==
    /\ cases[p].status \notin {"ANALYZED", "FINAL"}
    /\ \/ net[p] = "LOSS"
       \/ cases[p].status # "NONE" /\ (net[p] = "SMALL" \/ pos[p] = "ENTRY_FAILED")

\* Of the page, those with something left to do.
Unfinished(p) ==
    /\ cases[p].status # "FINAL"
    /\ \/ net[p] = "LOSS"
       \/ cases[p].status # "NONE" /\ (net[p] = "SMALL" \/ pos[p] = "ENTRY_FAILED")

Recovered == {p \in Page : Unfinished(p) /\ ~Pending(p)}

\* A flush that finds the scan due awaits it first.
ScanBegins == step = "IDLE" /\ halt = "RUNS" /\ scanDue /\ Len(queue) < MaxPending

Scan ==
    /\ ScanBegins
    /\ step' = "SCANNED" /\ scanDue' = FALSE
    /\ \/ /\ \E new \in ById(Recovered) : queue' = queue \o new
          /\ item' = [p \in Positions |->
                        IF p \in Recovered THEN Merged(item[p], NoPatch, TRUE) ELSE item[p]]
          /\ cursor' = IF PageIsFull THEN CHOOSE p \in Page : \A q \in Page : q <= p ELSE 0
          /\ UNCHANGED left
       \/ /\ Spend("faults")
          /\ UNCHANGED <<queue, item, cursor>>
    /\ UNCHANGED <<dealVars, cases, learned, tracked, work, halt, passes, accepted>>

\* The items of a flush, as they are now; a forced one does not wait.
Due(forced) == {p \in Queued : forced \/ item[p].wait = "NOW"}
Batch(forced) == {p \in Due(forced) : Cardinality({q \in Due(forced) : Place(q) < Place(p)}) < BatchSize}

Copy(p) == [id |-> p, patch |-> item[p].patch, needs |-> item[p].needs,
            failedOnly |-> item[p].failedOnly]

Begin(forced) ==
    /\ \E b \in InLine(Batch(forced)) : work' = [i \in DOMAIN b |-> Copy(b[i])]
    /\ step' = IF Batch(forced) = {} THEN "IDLE" ELSE "SAVE"
    /\ item' = [p \in Positions |-> [item[p] EXCEPT !.seen = p \in Batch(forced)]]
    /\ UNCHANGED <<dealVars, cases, learned, queue, tracked, cursor, scanDue, accepted>>

FlushBegins ==
    /\ \/ step = "SCANNED"
       \/ step = "IDLE" /\ halt = "RUNS" /\ ~ScanBegins /\ Due(FALSE) # {}
    /\ Begin(FALSE)
    /\ UNCHANGED lifeVars

-----------------------------------------------------------------------------
(* The end of an item *)

Now == Head(work)
Id == Now.id

GoesOn(rest) == work' = rest /\ step' = IF rest = <<>> THEN "IDLE" ELSE "SAVE"

\* Mutant: an item that has changed meanwhile is deleted as well.
FinishUnchecked(p) ==
    /\ GoesOn(Tail(work))
    /\ queue' \in InLine(Queued \ {p})
    /\ item' = [item EXCEPT ![p] = NoItem]
    /\ UNCHANGED left

\* It leaves the queue, unless a newer revision came while it was worked on.
Finish(p) ==
    /\ GoesOn(Tail(work))
    /\ IF item[p].seen
       THEN /\ queue' \in InLine(Queued \ {p})
            /\ item' = [item EXCEPT ![p] = NoItem]
       ELSE UNCHANGED <<queue, item>>
    /\ UNCHANGED left

\* A write or the learning throws: the item goes to the end of the queue and
\* waits; a database that is busy ends the flush.
Fails(p) ==
    /\ Spend("faults")
    /\ \E busy \in BOOLEAN : GoesOn(IF busy THEN <<>> ELSE Tail(work))
    /\ \E others \in InLine(Queued \ {p}) : queue' = Append(others, p)
    /\ item' = [item EXCEPT ![p].wait = "RETRY", ![p].seen = FALSE]

GoesTo(s) == step' = s /\ UNCHANGED <<work, queue, item, left>>

Rest == UNCHANGED <<dealVars, cursor, scanDue, halt, passes, accepted>>

\* _process has returned; the evidence of a concluded case is released.
Leaves ==
    /\ step = "LEAVES"
    /\ Finish(Id)
    /\ IF cases[Id].status = "FINAL" THEN Release(Id) ELSE UNCHANGED tracked
    /\ UNCHANGED <<cases, learned>> /\ Rest

\* It waits for its deadline, if that has not passed, in the queue, and is durable.
Defers ==
    /\ step = "DEFERS"
    /\ GoesOn(Tail(work))
    /\ LET wait == IF cases[Id].deadline = "AHEAD" THEN "DEADLINE" ELSE "NOW"
       IN item' = IF item[Id].seen
                   THEN [item EXCEPT ![Id].wait = wait, ![Id].saved = TRUE, ![Id].seen = FALSE]
                   ELSE item
    /\ UNCHANGED <<queue, tracked, left, cases, learned>> /\ Rest

-----------------------------------------------------------------------------
(* _process *)

\* What is written first: the patch, and evidence in memory the case lacks.
ToSave(p) ==
    LET c == cases[p] IN
    [entry |-> Now.patch.entry \/ (~c.entry /\ tracked[p].entry),
     trigger |-> Now.patch.trigger \/ (~c.trigger /\ tracked[p].trigger),
     status |-> Now.patch.status]

\* Mutant: a late patch sets the status of an analyzed case.
PatchedBlindly(c, patch) ==
    [c EXCEPT !.entry = @ \/ patch.entry, !.trigger = @ \/ patch.trigger,
              !.status = Or(patch.status, @),
              !.class = IF patch.status = "FINAL" THEN "NOT_APPLICABLE" ELSE @]

\* Evidence that is stored is never replaced, nor the status of an analyzed case.
Patched(c, patch) ==
    [c EXCEPT !.entry = @ \/ patch.entry, !.trigger = @ \/ patch.trigger,
              !.status = IF @ = "ANALYZED" THEN @ ELSE Or(patch.status, @),
              !.class = IF patch.status = "FINAL" THEN "NOT_APPLICABLE" ELSE @]

\* Nothing was captured of an entry that failed, so there is no case to conclude.
NothingToConclude == Now.failedOnly /\ cases[Id].status = "NONE" /\ ~Now.patch.entry

Save ==
    /\ step = "SAVE"
    /\ \/ /\ cases[Id].status = "FINAL" \/ NothingToConclude
          /\ GoesTo("LEAVES")
          /\ UNCHANGED cases
       \/ /\ cases[Id].status # "FINAL" /\ ~NothingToConclude
          /\ cases' = [cases EXCEPT ![Id] = Patched(@, ToSave(Id))]
          /\ GoesTo(IF Now.needs THEN "SETTLE" ELSE "LEAVES")
       \/ Fails(Id) /\ UNCHANGED cases
    /\ UNCHANGED <<learned, tracked>> /\ Rest

Becomes(c) == cases' = [cases EXCEPT ![Id] = c] /\ GoesTo("LEAVES")

Concluded(class) ==
    [cases[Id] EXCEPT !.status = "FINAL", !.class = class, !.known = 0, !.deadline = "NONE"]

\* No loss to learn from: the entry failed, the accounting does not hold, or the
\* position did not lose that much.
SettlesWithout ==
    /\ step = "SETTLE" /\ ~(Verified(Id) /\ net[Id] = "LOSS")
    /\ \/ pos[Id] = "ENTRY_FAILED" /\ Becomes(Concluded("NOT_APPLICABLE"))
       \/ /\ Verified(Id)
          /\ Becomes(Concluded(IF cases[Id].trigger THEN "RECOVERED" ELSE "NOT_LOSS"))
       \/ /\ pos[Id] # "ENTRY_FAILED" /\ ~Verified(Id)
          /\ Becomes([cases[Id] EXCEPT !.status = "INVALID_SETTLEMENT", !.known = 0, !.deadline = "NONE"])
       \/ Fails(Id) /\ UNCHANGED cases
    /\ UNCHANGED <<learned, tracked>> /\ Rest

\* Without evidence from the entry there is nothing to compare with: the answer is
\* INSUFFICIENT, for which OTHER stands, as it is when the evidence is of no use.
Findings(c) == IF c.entry THEN Verdicts ELSE {"OTHER"}

\* Five seconds after the settlement was first queued, unless the case has a
\* deadline already; when that was is not kept.
MayWait(p) == cases[p].deadline \in {"NONE", "AHEAD"}
MayNotWait(p) == cases[p].deadline \in {"NONE", "PASSED"}

Analyzed(c, v) == [c EXCEPT !.status = "ANALYZED", !.class = v, !.known = @ + 1, !.deadline = "NONE"]

AfterAnalysis(v) == GoesTo(IF v = "RUG" THEN "LEARN" ELSE "CONCLUDE")

\* Mutant: the case is written when it has been learned.
AnalyzeUnsaved(v) == AfterAnalysis(v) /\ UNCHANGED cases

Analyze(v) ==
    /\ \/ /\ v = "CANDIDATE" /\ MayWait(Id)
          /\ cases' = [cases EXCEPT ![Id].status = "AWAITING_CONFIRMATION", ![Id].class = v,
                                    ![Id].deadline = "AHEAD"]
          /\ GoesTo("DEFERS")
       \/ /\ v # "CANDIDATE" \/ MayNotWait(Id)
          /\ cases' = [cases EXCEPT ![Id] = Analyzed(@, v)]
          /\ AfterAnalysis(v)

Waits(c) == c.status = "AWAITING_CONFIRMATION" /\ c.deadline = "AHEAD"

SettlesLoss ==
    /\ step = "SETTLE" /\ Verified(Id) /\ net[Id] = "LOSS"
    /\ LET c == cases[Id] IN
       \/ Waits(c) /\ GoesTo("DEFERS") /\ UNCHANGED cases
       \/ c.status = "ANALYZED" /\ AfterAnalysis(c.class) /\ UNCHANGED cases
       \/ c.status # "ANALYZED" /\ ~Waits(c) /\ \E v \in Findings(c) : Analyze(v)
       \/ Fails(Id) /\ UNCHANGED cases
    /\ UNCHANGED <<learned, tracked>> /\ Rest

Learn ==
    /\ step = "LEARN"
    /\ \/ learned' = learned \cup {<<Id, cases[Id].known>>} /\ GoesTo("CONCLUDE")
       \/ Fails(Id) /\ UNCHANGED learned
    /\ UNCHANGED <<cases, tracked>> /\ Rest

Conclude ==
    /\ step = "CONCLUDE"
    /\ \/ Becomes([cases[Id] EXCEPT !.status = "FINAL"])
       \/ Fails(Id) /\ UNCHANGED cases
    /\ UNCHANGED <<learned, tracked>> /\ Rest

-----------------------------------------------------------------------------
(* Stop, kill and start *)

Stop ==
    /\ halt \in {"RUNS", "FAILED"} /\ Spend("stops")
    /\ halt' = "WAITING"
    /\ UNCHANGED <<dealVars, cases, learned, memVars, flushVars, passes, accepted>>

\* The flush that was running is over: one forced attempt for each item.
StopCounts ==
    /\ halt = "WAITING" /\ step = "IDLE"
    /\ halt' = "FLUSHING"
    /\ passes' = (Len(queue) + BatchSize - 1) \div BatchSize
    /\ UNCHANGED <<dealVars, cases, learned, memVars, flushVars, left, accepted>>

StopFlushes ==
    /\ halt = "FLUSHING" /\ step = "IDLE" /\ passes > 0 /\ queue # <<>>
    /\ passes' = passes - 1
    /\ Begin(TRUE)
    /\ UNCHANGED <<halt, left>>

\* What only waits for its confirmation is durable; anything else fails the stop.
StopEnds ==
    /\ halt = "FLUSHING" /\ step = "IDLE" /\ (passes = 0 \/ queue = <<>>)
    /\ queue' \in InLine({p \in Queued : ~item[p].saved})
    /\ item' = [p \in Positions |-> IF item[p].saved THEN NoItem ELSE item[p]]
    /\ halt' = IF queue' = <<>> THEN "SAVED" ELSE "FAILED"
    /\ passes' = 0
    /\ UNCHANGED <<dealVars, cases, learned, tracked, cursor, scanDue, flushVars, left, accepted>>

Gone ==
    /\ queue' = <<>> /\ item' = [p \in Positions |-> NoItem]
    /\ tracked' = [p \in Positions |-> Nothing]
    /\ cursor' = 0 /\ scanDue' = TRUE /\ work' = <<>> /\ step' = "IDLE"
    /\ halt' = "DOWN" /\ passes' = 0
    /\ UNCHANGED <<dealVars, cases, learned>>

Stored(e) == CASE e[2] = "ENTRY" -> cases[e[1]].entry
               [] e[2] = "TRIGGER" -> cases[e[1]].trigger

\* A stop that saved everything ends the process; nothing may be missing then.
Exits == halt = "SAVED" /\ Gone /\ UNCHANGED <<accepted, left>>

\* A stop that failed leaves the process to be killed, and it may be at any time.
Crash ==
    /\ halt # "DOWN"
    /\ IF halt = "FAILED" THEN UNCHANGED left ELSE Spend("faults")
    /\ Gone
    /\ accepted' = {e \in accepted : Stored(e)}

Start ==
    /\ halt = "DOWN" /\ halt' = "RUNS"
    /\ UNCHANGED <<dealVars, cases, learned, memVars, flushVars, passes, left, accepted>>

-----------------------------------------------------------------------------
DealStep(p) == Enters(p) \/ EntryFails(p) \/ Opens(p) \/ Drops(p) \/ Closes(p) \/ Settles(p) \/ Resolves(p)
TimeStep == \E p \in Positions : RetryDue(p) \/ DeadlinePasses(p)
FlushStep == Scan \/ FlushBegins \/ Save \/ SettlesWithout \/ SettlesLoss \/ Learn \/ Conclude \/ Leaves \/ Defers
StopStep == StopCounts \/ StopFlushes \/ StopEnds \/ Exits

Next ==
    \/ \E p \in Positions : DealStep(p)
    \/ TimeStep \/ ScanDue \/ FlushStep
    \/ Stop \/ StopStep \/ Crash \/ Start

Spec == Init /\ [][Next]_vars

\* At most one of these is possible at a time: the flush goes on, the stop goes
\* on, a stop that failed is tried again or killed, the service is started again.
ProcessStep == FlushStep \/ StopStep \/ Start \/ (halt = "FAILED" /\ (Stop \/ Crash))

\* Times are reached, the flush timer fires, and the database and the tracker answer.
FairSpec == Spec /\ WF_vars(TimeStep) /\ WF_vars(ScanDue) /\ WF_vars(ProcessStep)

-----------------------------------------------------------------------------
(* Properties *)

\* Every variable keeps its type: an item is queued once, within the capacity,
\* and the flush works on queued items only (a Map bounded by maxPending).
TypeOK ==
    /\ pos \in [Positions -> {"NONE", "OPENING", "OPEN", "CLOSED", "ENTRY_FAILED"}]
    /\ net \in [Positions -> {"UNKNOWN", "LOSS", "SMALL"}] /\ proved \in [Positions -> BOOLEAN]
    /\ cases \in [Positions -> Case]
    /\ learned \in SUBSET (Positions \X Nat)
    /\ queue \in Seq(Positions) /\ Len(queue) <= MaxPending
    /\ \A i, j \in DOMAIN queue : queue[i] = queue[j] => i = j
    /\ item \in [Positions -> Item] /\ \A p \in Positions : Pending(p) \/ item[p] = NoItem
    /\ tracked \in [Positions -> [entry : BOOLEAN, trigger : BOOLEAN]]
    /\ cursor \in 0 .. NumPositions /\ scanDue \in BOOLEAN
    /\ work \in Seq([id : Positions, patch : Patch, needs : BOOLEAN, failedOnly : BOOLEAN])
    /\ Len(work) <= BatchSize /\ \A i \in DOMAIN work : Pending(work[i].id)
    /\ step \in {"IDLE", "SCANNED", "SAVE", "SETTLE", "LEARN", "CONCLUDE",
                "LEAVES", "DEFERS"}
    /\ halt \in {"RUNS", "WAITING", "FLUSHING", "FAILED", "SAVED", "DOWN"} /\ passes \in 0 .. MaxPending
    /\ accepted \in SUBSET (Positions \X {"ENTRY", "TRIGGER"})
    /\ left \in [entries : Nat, faults : Nat, stops : Nat]

\* Evidence that was accepted is in its case or still queued to get there, and
\* after a stop that succeeded it is in its case ("shutdown must expose undrained
\* evidence", LiveTradingManager.stop).
NothingAcceptedIsLost ==
    \A e \in accepted : \/ Stored(e)
                        \/ /\ halt # "SAVED" /\ Pending(e[1])
                           /\ CASE e[2] = "ENTRY" -> item[e[1]].patch.entry
                                [] e[2] = "TRIGGER" -> item[e[1]].patch.trigger

\* Only the analysis on record is learned, and only from a proved loss with
\* evidence from its entry: whatever fails between analysing, learning and
\* concluding, no second analysis of a position becomes a template
\* ("Retry never reruns it against later market data").
LearnedIsOnRecord ==
    \A l \in learned :
        /\ cases[l[1]].status \in {"ANALYZED", "FINAL"} /\ cases[l[1]].class = "RUG"
        /\ cases[l[1]].known = l[2] /\ cases[l[1]].entry
        /\ net[l[1]] = "LOSS" /\ proved[l[1]]

\* An analysis that was saved is frozen: neither a late patch nor a retry nor a
\* restart changes or repeats it, the case can only be concluded.
AnalysisIsFrozen ==
    [][\A p \in Positions : cases[p].status = "ANALYZED" =>
          cases'[p] \in {cases[p], [cases[p] EXCEPT !.status = "FINAL"]}]_vars

\* A proved loss becomes a concluded case, across failed writes, a full queue,
\* stops and kills (the recovery scan finds what memory has lost).
LossesConclude ==
    \A p \in Positions : (net[p] = "LOSS" /\ proved[p]) ~> (cases[p].status = "FINAL")

=============================================================================
