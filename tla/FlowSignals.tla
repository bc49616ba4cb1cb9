---------------------------- MODULE FlowSignals ----------------------------
(***************************************************************************)
(* Flow signals of one mint and the labels they get afterwards:            *)
(* core/FlowAccelerationEngine.js, core/SignalLabeler.js and the rows      *)
(* signal_returns of ResearchStore.js.                                     *)
(*                                                                         *)
(* A trade of the bonding curve may make a signal.  From then on the       *)
(* labeler follows the mint: the label of a horizon is the first trade     *)
(* that is at least that old and not much older, an excursion is taken     *)
(* over the trades of a window.  Labels are written at once, or deferred   *)
(* while the database is locked; trades are written later, in batches.  A  *)
(* restart rebuilds the labels that are not final from the stored trades.  *)
(*                                                                         *)
(* A trade stands for its price: a label is the number of the trade it was *)
(* taken from, an excursion the set of trades it was taken over.  Which    *)
(* signals the sums over the three windows make is left open, and so are   *)
(* the numbering of signals and the cooldown, which is 0 by default.       *)
(***************************************************************************)
EXTENDS Integers, Sequences, FiniteSets

CONSTANTS
    Variants,     \* signals on a rising edge: primary_3w and its shadows
    Primary,      \* the variant the profiles are a stricter form of
    Profiles,     \* primary threshold profiles, once for a candidate
    Horizons, Excursions,   \* in seconds
    MaxLag,       \* maxObservationLagMs
    Lookback,     \* how old a signal may be to be restored
    IdleAfter,    \* candidateIdleMs
    MaxTime,      \* bound on the clock
    Budgets       \* bounds, taken together: on trades and signals, on locks, on writes
                  \* that raise, and on restarts

MaxHorizon == CHOOSE h \in Horizons : \A k \in Horizons : k <= h

ASSUME SignalsAssumption ==
    /\ Primary \in Variants /\ Variants \cap Profiles = {}
    /\ Horizons \subseteq Nat \ {0} /\ \E h \in Horizons : \A k \in Horizons : k <= h
    /\ Excursions \subseteq Nat \ {0} /\ \A e \in Excursions : e <= MaxHorizon
    /\ {MaxLag, Lookback, IdleAfter, MaxTime} \subseteq Nat
    /\ Lookback > MaxHorizon + MaxLag
    /\ Budgets \subseteq [trades : Nat, signals : Nat, locks : Nat, errors : Nat, restarts : Nat]

VARIABLES
    now,        \* the clock, in seconds
    chain,      \* where the mint is traded
    trades,     \* history: the trades queued, each with its time, its market and whether
                \* the engine and the labeler have seen it
    buffer,     \* rawBuffer
    stored,     \* raw_trades
    rows,       \* signal_returns, by signal
    unlabelled, \* flow_signals without a row of signal_returns
    states,     \* pendingByMint: the signals that are followed
    patches,    \* pendingSignalReturnUpdates
    candidate, active, triggered,  \* of the engine
    graduated,  \* the engine knows that the mint has graduated
    runs,       \* the process is up
    locked, backoff,  \* the database, and nextWriteRetryAt
    spoiled,    \* history: signals a write of which has raised
    left        \* the bounds; of locks, errors and restarts those not used yet

engineVars == <<candidate, active, triggered, graduated>>
labelVars == <<rows, unlabelled, states, patches>>
vars == <<now, chain, trades, buffer, stored, labelVars, engineVars, runs, locked, backoff,
          spoiled, left>>

-----------------------------------------------------------------------------
(* Signals, rows, states *)

\* A signal is known by what made it and by the trade it was made at.
Signals == [by : Variants \cup Profiles, at : 1 .. Len(trades)]

Unset == [h \in Horizons |-> 0]
Untaken == [e \in Excursions |-> {}]

\* A row, and a patch: what is set in it.
Blank == [ret |-> Unset, exc |-> Untaken, status |-> "PENDING"]

\* A sample is a trade and how long after the signal it was; the first is the
\* trade of the signal itself.
Sample(u, age) == [trade |-> u, age |-> age]
Fresh(i, t) == [t |-> t, ret |-> Unset, exc |-> Untaken, samples |-> {Sample(i.at, 0)}]

Merge(a, b) == [ret |-> [h \in Horizons |-> IF b.ret[h] # 0 THEN b.ret[h] ELSE a.ret[h]],
                exc |-> [e \in Excursions |-> IF b.exc[e] # {} THEN b.exc[e] ELSE a.exc[e]],
                status |-> IF b.status # "PENDING" THEN b.status ELSE a.status]

\* A late sample is not taken for the price at the horizon.
Timely(age, h) == age >= h /\ age - h <= MaxLag
Within(S, e) == {w.trade : w \in {x \in S : x.age <= e}}

Time(u) == trades[u].t
OnCurve(u) == trades[u].market = "CURVE"
Final(i) == rows[i].status # "PENDING"

Spend(what) == left[what] > 0 /\ left' = [left EXCEPT ![what] = @ - 1]

Init ==
    /\ now = 0 /\ chain = "CURVE"
    /\ trades = <<>> /\ buffer = {} /\ stored = {}
    /\ rows = <<>> /\ unlabelled = {} /\ states = <<>> /\ patches = <<>>
    /\ candidate = FALSE /\ active = {} /\ triggered = {} /\ graduated = FALSE
    /\ runs = TRUE /\ locked = FALSE /\ backoff = FALSE
    /\ spoiled = {}
    /\ left \in Budgets

-----------------------------------------------------------------------------
(* updateSignalReturn, one after the other for the signals that have a patch *)

Deferred(W) == [i \in DOMAIN patches \cup DOMAIN W |->
                  IF i \notin DOMAIN W THEN patches[i]
                  ELSE IF i \in DOMAIN patches THEN Merge(patches[i], W[i]) ELSE W[i]]
Written(table, W) == [i \in DOMAIN table |-> IF i \in DOMAIN W THEN Merge(table[i], W[i]) ELSE table[i]]
Only(W, S) == [i \in DOMAIN W \cap S |-> W[i]]

\* Mutant: a patch that still waits is not asked for.
HeldBackUnasked(W) == IF backoff THEN DOMAIN W ELSE {}

\* Held back while an earlier patch of the signal waits or the back-off lasts.
HeldBack(W) == IF backoff THEN DOMAIN W ELSE DOMAIN W \cap DOMAIN patches

\* The first write that meets the lock is deferred and starts the back-off.
Update(table, W) ==
    LET tried == DOMAIN W \ HeldBack(W)
    IN IF locked /\ tried # {}
       THEN rows' = table /\ patches' = Deferred(W) /\ backoff' = TRUE
       ELSE /\ rows' = Written(table, Only(W, tried))
            /\ patches' = Deferred(Only(W, HeldBack(W)))
            /\ UNCHANGED backoff

\* The write for i raises for another reason: those before it in the order of the
\* Map have been served, those after it are not.
Raises(table, i, W, before) ==
    /\ ~locked /\ i \in DOMAIN W \ HeldBack(W)
    /\ before \subseteq DOMAIN W \ {i}
    /\ \A j \in DOMAIN W \ {i} : /\ j.at < i.at => j \in before
                                 /\ j.at > i.at => j \notin before
    /\ rows' = Written(table, Only(W, before \ HeldBack(W)))
    /\ patches' = Deferred(Only(W, before \cap HeldBack(W)))
    /\ backoff' = TRUE
    /\ spoiled' = spoiled \cup (DOMAIN W \ before)

-----------------------------------------------------------------------------
(* The engine: the signals of one trade *)

Matches == {m \in SUBSET (Variants \cup Profiles) : m \cap Profiles # {} => Primary \in m}

\* Either the mint stays no candidate, or it is one and its windows match.
Engine(matched) ==
    \/ /\ ~candidate /\ matched = {}
       /\ UNCHANGED <<candidate, active, triggered>>
    \/ /\ candidate' = TRUE
       /\ active' = matched \cap Variants
       /\ triggered' = triggered \cup (matched \cap Profiles)

\* A variant makes a signal when it begins to match, a profile once for a candidate.
Emitted(matched) == (matched \ active) \ triggered

\* recordSignal does not wait for the back-off: the signal is lost, or its second
\* statement fails and it is stored without a row for its labels.
Recorded(new, whole, half) ==
    /\ whole \cup half \subseteq new /\ whole \cap half = {}
    /\ locked => whole \cup half = {}
    /\ ~locked => Cardinality(new \ whole) <= 1

-----------------------------------------------------------------------------
(* The labeler: a trade of the signal's market *)

Sampled(s, u, age) ==
    LET seen == s.samples \cup {Sample(u, age)} IN
    [s EXCEPT !.samples = seen,
              !.ret = [h \in Horizons |-> IF @[h] = 0 /\ Timely(age, h) THEN u ELSE @[h]],
              !.exc = [e \in Excursions |->
                         IF @[e] = {} /\ Timely(age, e) THEN Within(seen, e) ELSE @[e]]]

\* What has been set since, and the verdict when it is the last patch.
Changes(before, after, last) ==
    [ret |-> [h \in Horizons |-> IF before.ret[h] = 0 THEN after.ret[h] ELSE 0],
     exc |-> [e \in Excursions |-> IF before.exc[e] = {} THEN after.exc[e] ELSE {}],
     status |-> IF ~last THEN "PENDING"
                ELSE IF \E h \in Horizons : after.ret[h] = 0 THEN "CENSORED" ELSE "COMPLETE"]

\* onTrade, over the states F: each gets the sample and writes its patch; those that
\* are old enough are finished with.
Aged(F) == {i \in DOMAIN F : now - F[i].t >= MaxHorizon}
After(F, u) == [i \in DOMAIN F |-> Sampled(F[i], u, now - F[i].t)]
Patches(F, u) == LET after == After(F, u)
                 IN [i \in DOMAIN F |-> Changes(F[i], after[i], i \in Aged(F))]

OnTrade(table, F, u) ==
    /\ Update(table, Patches(F, u))
    /\ states' = Only(After(F, u), DOMAIN F \ Aged(F))
    /\ UNCHANGED spoiled

\* A write that raises leaves the states after it without the sample.
OnTradeRaises(table, F, u) ==
    \E i \in DOMAIN F : \E before \in SUBSET DOMAIN F :
        /\ Raises(table, i, Patches(F, u), before)
        /\ states' = [j \in DOMAIN F \ (Aged(F) \cap (before \cup {i})) |->
                        IF j \in before \cup {i} THEN After(F, u)[j] ELSE F[j]]

Receive(market, seen) ==
    /\ runs /\ Len(trades) < left.trades
    /\ trades' = Append(trades, [t |-> now, market |-> market, seen |-> seen])
    /\ buffer' = buffer \cup {Len(trades')}

\* The bound: signals are made early enough to be concluded by MaxTime.
Bounded(new) == /\ Cardinality(DOMAIN rows \cup unlabelled) + Cardinality(new) <= left.signals
                /\ new # {} => now + MaxHorizon + MaxLag <= MaxTime

\* The handler of a trade: it is queued, the engine sees it, then the labeler.
\* One write of a trade raises at most, which is a bound.
CurveTrade(matched) ==
    /\ chain = "CURVE" /\ Receive("CURVE", TRUE)
    /\ Engine(matched)
    /\ LET u == Len(trades')
           new == {[by |-> v, at |-> u] : v \in Emitted(matched)}
       IN /\ Bounded(new)
          /\ \E whole \in SUBSET new : \E half \in SUBSET new :
                LET table == [i \in DOMAIN rows \cup whole |-> IF i \in whole THEN Blank ELSE rows[i]]
                    F == [i \in DOMAIN states \cup whole |->
                            IF i \in whole THEN Fresh(i, now) ELSE states[i]]
                IN /\ Recorded(new, whole, half)
                   /\ unlabelled' = unlabelled \cup half
                   /\ \/ /\ OnTrade(table, F, u)
                         /\ IF whole = new \/ locked THEN UNCHANGED left ELSE Spend("errors")
                      \/ whole = new /\ Spend("errors") /\ OnTradeRaises(table, F, u)
    /\ UNCHANGED <<now, chain, stored, graduated, runs, locked>>

\* Mutant: what has matched stays when the candidate goes.
ResetsCandidate == candidate' = FALSE /\ UNCHANGED <<active, triggered>>

Resets == candidate' = FALSE /\ active' = {} /\ triggered' = {}

Learned == IF graduated THEN UNCHANGED engineVars ELSE graduated' = TRUE /\ Resets

\* A write outside of this module raises.
Failed == IF locked THEN UNCHANGED left ELSE Spend("errors")

\* The completion of the curve, which a process that is down does not see, nor does
\* the engine when the store raises.
Graduate ==
    /\ chain = "CURVE" /\ chain' = "AMM"
    /\ \/ runs /\ graduated' = TRUE /\ Resets /\ UNCHANGED left
       \/ runs /\ Failed /\ UNCHANGED engineVars
       \/ ~runs /\ UNCHANGED <<engineVars, left>>
    /\ UNCHANGED <<now, trades, buffer, stored, labelVars, runs, locked, backoff, spoiled>>

\* The first trade of the pool tells as well.  The labeler samples none of them.
AmmTrade ==
    /\ chain = "AMM" /\ Receive("AMM", TRUE)
    /\ Learned
    /\ UNCHANGED <<now, chain, stored, labelVars, runs, locked, backoff, spoiled, left>>

\* The trade is queued, then the handler ends: the trader writes at once and raises,
\* by the lock or by an error (so may the flush of a batch, with the same effect).
\* The trade will be stored, and neither the engine nor the labeler has seen it; of
\* the graduation the engine has heard before.
UnseenTrade ==
    /\ Receive(chain, FALSE)
    /\ \/ UNCHANGED engineVars
       \/ chain = "AMM" /\ Learned
    /\ Failed
    /\ UNCHANGED <<now, chain, stored, labelVars, runs, locked, backoff, spoiled>>

-----------------------------------------------------------------------------
(* Maintenance *)

\* cleanup: a candidate without trades is one no more.
Cleanup ==
    /\ runs /\ candidate
    /\ \A u \in 1 .. Len(trades) : trades[u].seen => now - Time(u) > IdleAfter
    /\ Resets
    /\ UNCHANGED <<now, chain, trades, buffer, stored, labelVars, graduated, runs, locked, backoff>>
    /\ UNCHANGED <<spoiled, left>>

\* The first sample that is timely for a horizon without a return.
Earliest(S) == CHOOSE w \in S : \A x \in S : w.trade <= x.trade
Backfilled(s) ==
    [s EXCEPT !.ret = [h \in Horizons |->
        LET timely == {w \in s.samples : Timely(w.age, h)}
        IN IF @[h] = 0 /\ timely # {} THEN Earliest(timely).trade ELSE @[h]]]

\* An excursion needs a sample that is timely at its end.
Covered(s) ==
    [s EXCEPT !.exc = [e \in Excursions |->
        IF @[e] = {} /\ \E w \in s.samples : Timely(w.age, e) THEN Within(s.samples, e) ELSE @[e]]]

\* Mutant: a mint that has graduated is passed over.
OverdueBeforeGraduation(i) == ~graduated /\ now - states[i].t >= MaxHorizon + MaxLag

Overdue(i) == now - states[i].t >= MaxHorizon + MaxLag

\* advanceTime: what no trade has finished.  The first write that raises ends it,
\* and what was set in the state it was for is not written again.
AdvanceTime ==
    LET due == {i \in DOMAIN states : Overdue(i)}
        after == [i \in due |-> Covered(Backfilled(states[i]))]
        W == [i \in due |-> Changes(states[i], after[i], TRUE)]
    IN /\ runs /\ due # {}
       /\ \/ /\ Update(rows, W)
             /\ states' = [i \in DOMAIN states \ due |-> states[i]]
             /\ UNCHANGED <<spoiled, left>>
          \/ \E i \in due : \E before \in SUBSET due :
                /\ Spend("errors")
                /\ Raises(rows, i, W, before)
                /\ states' = [j \in DOMAIN states \ before |-> IF j = i THEN after[j] ELSE states[j]]
       /\ UNCHANGED <<now, chain, trades, buffer, stored, unlabelled, engineVars, runs, locked>>

\* The flush timer: the deferred patches, then the trades.
Flush ==
    /\ runs /\ ~backoff /\ (patches # <<>> \/ buffer # {})
    /\ IF locked THEN /\ backoff' = TRUE
                      /\ UNCHANGED <<rows, patches, stored, buffer>>
       ELSE /\ rows' = Written(rows, patches) /\ patches' = <<>>
            /\ stored' = stored \cup buffer /\ buffer' = {}
            /\ UNCHANGED backoff
    /\ UNCHANGED <<now, chain, trades, unlabelled, states, engineVars, runs, locked, spoiled, left>>

\* A deferred write that raises stays, and ends the flush.
FlushRaises ==
    /\ runs /\ ~backoff /\ ~locked /\ Spend("errors")
    /\ \E done \in SUBSET DOMAIN patches :
          /\ done # DOMAIN patches
          /\ rows' = Written(rows, Only(patches, done))
          /\ patches' = Only(patches, DOMAIN patches \ done)
    /\ backoff' = TRUE
    /\ UNCHANGED <<now, chain, trades, buffer, stored, unlabelled, states, engineVars, runs, locked>>
    /\ UNCHANGED spoiled

BackoffEnds ==
    /\ backoff /\ backoff' = FALSE
    /\ UNCHANGED <<now, chain, trades, buffer, stored, labelVars, engineVars, runs, locked>>
    /\ UNCHANGED <<spoiled, left>>

-----------------------------------------------------------------------------
(* Stop, kill, start *)

Gone ==
    /\ runs /\ Spend("restarts") /\ runs' = FALSE
    /\ buffer' = {} /\ states' = <<>> /\ patches' = <<>> /\ backoff' = FALSE
    /\ Resets /\ UNCHANGED <<now, chain, trades, unlabelled, graduated, locked, spoiled>>

Crash == Gone /\ UNCHANGED <<stored, rows>>

\* A stop drains both queues first.
Stop == Gone /\ ~locked /\ stored' = stored \cup buffer /\ rows' = Written(rows, patches)

Restorable(i) == rows[i].status = "PENDING" /\ Time(i.at) >= now - Lookback

\* Mutant: the stored trades are not read again.
RestoredBare(i) ==
    [t |-> Time(i.at), ret |-> rows[i].ret, exc |-> rows[i].exc, samples |-> {Sample(i.at, 0)}]

\* A state is made from its row and from the stored trades of its window.
Restored(i) ==
    LET t == Time(i.at)
        window == {u \in stored : /\ trades[u].market = "CURVE"
                                  /\ Time(u) >= t /\ Time(u) <= t + MaxHorizon + MaxLag}
    IN [t |-> t, ret |-> rows[i].ret, exc |-> rows[i].exc,
        samples |-> {Sample(i.at, 0)} \cup {Sample(u, Time(u) - t) : u \in window}]

Start ==
    /\ ~runs /\ runs' = TRUE
    /\ LET young == {i \in DOMAIN rows : Restorable(i)}
           read == [i \in young |-> Restored(i)]
           W == [i \in young |-> Changes(read[i], Backfilled(read[i]), FALSE)]
       IN /\ Update(rows, Only(W, {i \in young : W[i] # Blank}))
          /\ states' = [i \in young |-> Backfilled(read[i])]
    /\ UNCHANGED <<now, chain, trades, buffer, stored, unlabelled, engineVars, locked, spoiled, left>>

-----------------------------------------------------------------------------
(* Time and the lock *)

TimePasses ==
    /\ now < MaxTime /\ now' = now + 1
    /\ UNCHANGED <<chain, trades, buffer, stored, labelVars, engineVars, runs, locked, backoff>>
    /\ UNCHANGED <<spoiled, left>>

Lock ==
    /\ ~locked /\ Spend("locks") /\ locked' = TRUE
    /\ UNCHANGED <<now, chain, trades, buffer, stored, labelVars, engineVars, runs, backoff, spoiled>>

Unlock ==
    /\ locked /\ locked' = FALSE
    /\ UNCHANGED <<now, chain, trades, buffer, stored, labelVars, engineVars, runs, backoff>>
    /\ UNCHANGED <<spoiled, left>>

Next ==
    \/ \E matched \in Matches : CurveTrade(matched)
    \/ Graduate \/ AmmTrade \/ UnseenTrade
    \/ Cleanup \/ AdvanceTime \/ Flush \/ FlushRaises \/ BackoffEnds
    \/ Crash \/ Stop \/ Start
    \/ TimePasses \/ Lock \/ Unlock

Spec == Init /\ [][Next]_vars

\* The timers fire, the clock goes on, a lock is given back, the service is started
\* again; nothing promises another trade.
FairSpec ==
    /\ Spec
    /\ WF_vars(AdvanceTime) /\ WF_vars(Flush) /\ WF_vars(BackoffEnds)
    /\ WF_vars(TimePasses) /\ WF_vars(Unlock) /\ WF_vars(Start)

-----------------------------------------------------------------------------
(* Properties *)

\* Every variable keeps its type; a signal that is followed or has a patch has its
\* row, and what is buffered is neither stored nor unknown.
TypeOK ==
    LET Trades == 1 .. Len(trades)
        Patch == [ret : [Horizons -> 0 .. Len(trades)], exc : [Excursions -> SUBSET Trades],
                  status : {"PENDING", "COMPLETE", "CENSORED"}]
        Sampling == [trade : Trades, age : 0 .. MaxTime]
    IN /\ now \in 0 .. MaxTime /\ chain \in {"CURVE", "AMM"}
       /\ trades \in Seq([t : 0 .. now, market : {"CURVE", "AMM"}, seen : BOOLEAN])
       /\ buffer \cup stored \subseteq Trades /\ buffer \cap stored = {}
       /\ DOMAIN rows \cup unlabelled \subseteq Signals /\ DOMAIN rows \cap unlabelled = {}
       /\ DOMAIN states \cup DOMAIN patches \subseteq DOMAIN rows
       /\ \A i \in DOMAIN rows : rows[i] \in Patch
       /\ \A i \in DOMAIN patches : patches[i] \in Patch
       /\ \A i \in DOMAIN states : /\ states[i].t = Time(i.at)
                                   /\ states[i].ret \in [Horizons -> 0 .. Len(trades)]
                                   /\ states[i].exc \in [Excursions -> SUBSET Trades]
                                   /\ states[i].samples \subseteq Sampling
       /\ candidate \in BOOLEAN /\ active \subseteq Variants /\ triggered \subseteq Profiles
       /\ ~candidate => active \cup triggered = {}
       /\ {graduated, runs, locked, backoff} \subseteq BOOLEAN
       /\ spoiled \subseteq DOMAIN rows

Stamp(i, u) == Time(u) - Time(i.at)

\* Known to the labeler, and stored.  A trade it has not seen is stored as well, and a
\* restart may find it.
Known(i, u) == u \in stored /\ trades[u].seen /\ OnCurve(u) /\ u >= i.at

\* A return is that of the first trade known to be timely for its horizon ("the
\* first trade after a horizon", README.md), and one that is missing at the end has
\* none: whether it was sampled when it came or found after a restart, and whatever
\* was deferred.  Only a trade of the very moment in which the signal became overdue
\* may come after its verdict.  A label is complete when nothing is missing.
ReturnsAreFirst(i) ==
    \A h \in Horizons :
        LET r == rows[i].ret[h]
            timely == {u \in stored : Known(i, u) /\ Timely(Stamp(i, u), h)}
        IN /\ r # 0 => OnCurve(r) /\ Timely(Stamp(i, r), h) /\ \A u \in timely : r <= u
           /\ r = 0 /\ Final(i) => \A u \in timely : Stamp(i, u) = MaxHorizon + MaxLag
CompleteIsFull(i) == Final(i) => (rows[i].status = "COMPLETE" <=> \A h \in Horizons : rows[i].ret[h] # 0)

\* An excursion covers every known trade of its window.
ExcursionsCover(i) ==
    \A e \in Excursions : LET x == rows[i].exc[e] IN x # {} =>
        /\ \A u \in x : Stamp(i, u) \in 0 .. e
        /\ \A u \in stored : Known(i, u) /\ Stamp(i, u) < e => u \in x

\* What the rows say is true, except for signals a write of which has raised.
LabelsAreTrue ==
    \A i \in DOMAIN rows \ spoiled : ReturnsAreFirst(i) /\ CompleteIsFull(i) /\ ExcursionsCover(i)

\* A label that is final is not touched again, by no patch that comes late and by
\* no restart.
FinalIsFinal == [][\A i \in DOMAIN rows : Final(i) => i \in DOMAIN rows' /\ rows'[i] = rows[i]]_vars

\* Every signal with a row for its labels is concluded in the end, unless a write
\* raised or the process was down until it was too old to be restored (README.md:
\* the labels of the last 120 seconds are followed again after a restart).
TooOld(i) == i \notin DOMAIN states /\ now > Time(i.at) + Lookback
LabelsConclude == <>[](\A i \in DOMAIN rows : Final(i) \/ i \in spoiled \/ TooOld(i))

=============================================================================
