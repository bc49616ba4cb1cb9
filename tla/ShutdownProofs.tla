--------------------------- MODULE ShutdownProofs ---------------------------
(***************************************************************************)
(* Proofs about Shutdown, for any tasks, works and queues and any bounds.  *)
(*                                                                         *)
(* The argument: a stage that was reached has silenced its part for good.  *)
(* What could bring a part back is a start() that is still under way, so   *)
(* the invariant follows main() as well: nothing of start() sets the       *)
(* dashboard off once a stop is asked for, and what answers later finds    *)
(* the flag of the stop set.                                               *)
(***************************************************************************)
EXTENDS Shutdown, TLAPS

\* TypeOK, one group of variables after the other.
MainTyped ==
    /\ main \in {"LAUNCH", "YIELD", "SWAP", "YIELD AGAIN", "START DASHBOARD", "START STREAM",
                 "DONE", "FAILED", "THREW"}
    /\ stopRequested \in BOOLEAN /\ startup \in BOOLEAN
    /\ request \in {"NONE", "AWAIT STARTUP", "STOP STARTUP PAGE", "STAGES", "FAILED", "EXITED",
                    "ENDED"}
SequenceTyped ==
    /\ stopping \in BOOLEAN /\ status \in {"IDLE", "STOPPING", "STOP_FAILED", "STOPPED"}
    /\ next \in 1 .. 9 /\ begun \in BOOLEAN
    /\ halted \subseteq {"SETTLE_TRADING", "STOP_OBSERVERS", "STOP_DASHBOARD"}
PartsTyped ==
    /\ timers \subseteq {"MAINTENANCE", "FLUSH", "SAMPLER", "PUBLISH", "RESTART"}
    /\ stream \in {"OFF", "CONNECTING", "ON", "CLOSED"}
    /\ tasks \subseteq Tasks /\ awaited \subseteq Tasks /\ works \subseteq Works
    /\ child \in {"NONE", "STARTING", "UP", "KILLED"} /\ starting \in BOOLEAN
Bounds == [rows : 0 .. MaxRows, starts : 0 .. MaxStarts, signals : 0 .. MaxSignals,
           fails : 0 .. MaxFails, exits : 0 .. MaxExits]
StoreTyped == rows \in [Queues -> 0 .. MaxRows] /\ db \in {"NONE", "OPEN", "CLOSED"} /\ left \in Bounds
Typed == MainTyped /\ SequenceTyped /\ PartsTyped /\ StoreTyped

\* The synchronous part of stage n has run, in the present attempt or before.
Reached(n) == next > n \/ (next = n /\ begun)

\* What the pending stop waits for, where main() is and how far the stages are.
Signalled ==
    /\ request \notin {"NONE", "ENDED"} => stopRequested
    /\ stopping => stopRequested /\ ~startup
    /\ stopping <=> status # "IDLE"
    /\ request = "STAGES" => status \in {"STOPPING", "STOPPED"}
    /\ status = "STOPPING" => request = "STAGES"
    /\ status = "STOPPED" => request \in {"STAGES", "EXITED"}
    /\ request = "FAILED" => status = "STOP_FAILED"
    /\ status = "STOP_FAILED" => request \in {"FAILED", "STOP STARTUP PAGE"}
    /\ begun => status = "STOPPING"
    /\ ~stopping => next = 1 /\ halted = {}
    /\ request = "EXITED" => ~startup /\ (~HasRuntime \/ status = "STOPPED")

Connected ==
    /\ db = "NONE" => /\ ~stopping /\ timers = {} /\ stream = "OFF" /\ tasks = {} /\ works = {}
                      /\ child = "NONE" /\ ~starting /\ Drained
    /\ db = "NONE" \/ main \notin {"LAUNCH", "YIELD"}
    /\ db = "NONE" => main \in {"LAUNCH", "YIELD", "DONE", "THREW"}
    /\ main = "THREW" => /\ ~stopping /\ ~startup /\ stream = "OFF"
                              /\ child = "NONE" /\ "RESTART" \notin timers
    /\ status = "STOPPED" <=> db = "CLOSED"
    /\ db = "CLOSED" <=> next = 9

\* Only the first start of the dashboard is awaited by start().
Starting ==
    /\ starting <=> main = "START DASHBOARD"
    /\ starting => child = "STARTING" /\ "RESTART" \notin timers
    /\ main \in {"SWAP", "YIELD AGAIN"} => child = "NONE" /\ "RESTART" \notin timers

\* What every stage leaves behind: timers, work, and the rest.
TimersSilent ==
    /\ Reached(1) => "MAINTENANCE" \notin timers
    /\ Reached(6) => "FLUSH" \notin timers /\ "SAMPLER" \notin timers
    /\ "STOP_DASHBOARD" \in halted => "PUBLISH" \notin timers /\ "RESTART" \notin timers
WorkSilent ==
    /\ Reached(3) => stream = "CLOSED"
    /\ Reached(4) => "SETTLE_TRADING" \in halted
    /\ next = 4 /\ begun => tasks \subseteq awaited
    /\ next > 4 => tasks = {}
    /\ Reached(5) => "STOP_OBSERVERS" \in halted
    /\ next > 5 => works = {}
DashboardSilent ==
    /\ next > 2 => ~starting
    /\ Reached(7) => "STOP_DASHBOARD" \in halted
    /\ "STOP_DASHBOARD" \in halted => next >= 7
    /\ next > 7 => child = "NONE"
Emptied == next > 6 => Drained
Silenced == TimersSilent /\ WorkSilent /\ DashboardSilent /\ Emptied

\* No queue holds more than has been put into memory.
Counted == \A q \in Queues : rows[q] + left.rows <= MaxRows

IInv == Typed /\ Signalled /\ Connected /\ Starting /\ Silenced /\ Counted
-----------------------------------------------------------------------------
(* Stages, bounds, the initial state *)

LEMMA StageNames ==
    /\ Len(Stages) = 8
    /\ Stages[1] = "STOP_MAINTENANCE" /\ Stages[2] = "SETTLE_DASHBOARD_START"
    /\ Stages[3] = "STOP_STREAM" /\ Stages[4] = "SETTLE_TRADING"
    /\ Stages[5] = "STOP_OBSERVERS" /\ Stages[6] = "DRAIN_DATABASE"
    /\ Stages[7] = "STOP_DASHBOARD" /\ Stages[8] = "CLOSE_DATABASE"
BY DEF Stages

LEMMA CurrentStage ==
    ASSUME next \in 1 .. 8
    PROVE  /\ Current = "STOP_MAINTENANCE" <=> next = 1
           /\ Current = "SETTLE_DASHBOARD_START" <=> next = 2
           /\ Current = "STOP_STREAM" <=> next = 3
           /\ Current = "SETTLE_TRADING" <=> next = 4
           /\ Current = "STOP_OBSERVERS" <=> next = 5
           /\ Current = "DRAIN_DATABASE" <=> next = 6
           /\ Current = "STOP_DASHBOARD" <=> next = 7
           /\ Current = "CLOSE_DATABASE" <=> next = 8
BY StageNames DEF Current

LEMMA TypedIsTypeOK == Typed <=> TypeOK
<1>1. Len(Stages) + 1 = 9
  BY StageNames
<1>. QED BY <1>1 DEF Typed, MainTyped, SequenceTyped, PartsTyped, StoreTyped, Bounds, TypeOK

LEMMA BoundsAreNat == /\ MaxRows \in Nat /\ MaxStarts \in Nat /\ MaxSignals \in Nat
                      /\ MaxFails \in Nat /\ MaxExits \in Nat
BY BoundsAssumption

LEMMA SpendType ==
    ASSUME left \in Bounds, NEW what \in {"rows", "starts", "signals", "fails", "exits"}, Spend(what)
    PROVE  /\ left' \in Bounds
           /\ left'.rows = IF what = "rows" THEN left.rows - 1 ELSE left.rows
<1>. USE BoundsAreNat DEF Bounds, Spend
<1>1. CASE what = "rows"
  BY <1>1
<1>2. CASE what = "starts"
  BY <1>2
<1>3. CASE what = "signals"
  BY <1>3
<1>4. CASE what = "fails"
  BY <1>4
<1>5. CASE what = "exits"
  BY <1>5
<1>. QED BY <1>1, <1>2, <1>3, <1>4, <1>5

LEMMA NotStopping ==
    ASSUME IInv, ~stopping
    PROVE  next = 1 /\ ~begun /\ halted = {}
BY DEF IInv, Signalled, Connected

LEMMA NoRuntimeYet ==
    ASSUME IInv, db = "NONE"
    PROVE  next = 1 /\ ~begun /\ halted = {} /\ ~stopping
BY NotStopping DEF IInv, Connected

\* Before the first stage begins there is nothing to be silent about.
LEMMA NothingReached ==
    ASSUME next' = 1, begun' = FALSE, halted' = {}
    PROVE  TimersSilent' /\ WorkSilent' /\ DashboardSilent' /\ Emptied'
<1>1. ~Reached(1)' /\ ~Reached(3)' /\ ~Reached(4)' /\ ~Reached(5)' /\ ~Reached(6)' /\ ~Reached(7)'
  BY DEF Reached
<1>2. "STOP_DASHBOARD" \notin halted'
  OBVIOUS
<1>3. TimersSilent'
  BY <1>1, <1>2 DEF TimersSilent
<1>4. WorkSilent'
  BY <1>1 DEF WorkSilent
<1>5. DashboardSilent' /\ Emptied'
  BY <1>1, <1>2 DEF DashboardSilent, Emptied
<1>. QED BY <1>3, <1>4, <1>5

LEMMA StartingIsEarly == ASSUME IInv, starting PROVE "STOP_DASHBOARD" \notin halted
BY DEF IInv, Typed, SequenceTyped, Silenced, DashboardSilent

LEMMA SameStageWork ==
    ASSUME WorkSilent, UNCHANGED <<next, begun, halted, stream, tasks, awaited, works>>
    PROVE  WorkSilent'
<1>1. \A n \in 1 .. 8 : Reached(n)' <=> Reached(n)
  BY DEF Reached
<1>. QED BY <1>1 DEF WorkSilent

LEMMA SameStageTimers ==
    ASSUME TimersSilent, UNCHANGED <<next, begun, halted>>, "STOP_DASHBOARD" \notin halted,
           timers' = timers \cup {"PUBLISH"}
    PROVE  TimersSilent'
<1>1. (Reached(1)' <=> Reached(1)) /\ (Reached(6)' <=> Reached(6))
  BY DEF Reached
<1>. QED BY <1>1 DEF TimersSilent

LEMMA SameTimers ==
    ASSUME TimersSilent, UNCHANGED <<next, begun, halted, timers>>
    PROVE  TimersSilent'
<1>1. (Reached(1)' <=> Reached(1)) /\ (Reached(6)' <=> Reached(6))
  BY DEF Reached
<1>. QED BY <1>1 DEF TimersSilent

LEMMA InitInv == ASSUME Init PROVE IInv
<1>1. MainTyped
  BY DEF Init, MainTyped
<1>1a. SequenceTyped
  <2>1. stopping \in BOOLEAN /\ begun \in BOOLEAN
    BY DEF Init
  <2>3. next \in 1 .. 9
    BY DEF Init
  <2>2. /\ status \in {"IDLE", "STOPPING", "STOP_FAILED", "STOPPED"}
        /\ halted \subseteq {"SETTLE_TRADING", "STOP_OBSERVERS", "STOP_DASHBOARD"}
    BY DEF Init
  <2>. QED BY <2>1, <2>2, <2>3 DEF SequenceTyped
<1>1b. PartsTyped
  BY DEF Init, PartsTyped
<1>2. StoreTyped
  BY BoundsAreNat DEF Init, StoreTyped, Bounds
<1>3. Signalled /\ Connected
  BY DEF Init, Signalled, Connected, Drained
<1>4. Starting /\ Silenced
  BY DEF Init, Starting, Silenced, TimersSilent, WorkSilent, DashboardSilent, Emptied, Reached, Drained
<1>5. Counted
  BY BoundsAreNat DEF Init, Counted
<1>. QED BY <1>1, <1>1a, <1>1b, <1>2, <1>3, <1>4, <1>5 DEF IInv, Typed

-----------------------------------------------------------------------------
(* main() and start() *)

LEMMA LaunchInv == ASSUME IInv, Alive, Launch PROVE IInv'
<1>. USE DEF Launch, IInv, Typed, vars, mainVars, seqVars, partVars, Alive
<1>1. MainTyped'
  BY DEF MainTyped
<1>2. SequenceTyped'
  BY DEF SequenceTyped
<1>3. PartsTyped'
  BY DEF PartsTyped
<1>4. StoreTyped'
  BY SpendType DEF StoreTyped
<1>5. Signalled'
  BY DEF Signalled, Connected, MainTyped, SequenceTyped, Pending, HasRuntime
<1>6. Connected'
  BY DEF Connected, Drained, Signalled, Starting, StoreTyped, SequenceTyped
<1>7. Starting'
  BY DEF Starting, Connected, Signalled, PartsTyped
<1>8. Silenced'
  <2>1. TimersSilent'
    BY DEF Silenced, TimersSilent, Reached, Signalled, Starting, Connected, SequenceTyped, DashboardSilent
  <2>2. WorkSilent'
    BY DEF Silenced, WorkSilent, Reached, Signalled, Starting, Connected, SequenceTyped
  <2>3. DashboardSilent'
    BY DEF Silenced, DashboardSilent, TimersSilent, Reached, Signalled, Starting, Connected, SequenceTyped
  <2>4. Emptied'
    BY DEF Silenced, Emptied, Drained, SequenceTyped, Signalled, Connected
  <2>. QED BY <2>1, <2>2, <2>3, <2>4 DEF Silenced
<1>9. Counted'
  BY SpendType DEF Counted, StoreTyped
<1>. QED BY <1>1, <1>2, <1>3, <1>4, <1>5, <1>6, <1>7, <1>8, <1>9

\* A batch put into memory is paid for.
LEMMA CountedRows ==
    ASSUME StoreTyped, Counted, Spend("rows"), NEW q \in Queues,
           rows' = [rows EXCEPT ![q] = rows[q] + 1]
    PROVE  rows' \in [Queues -> 0 .. MaxRows] /\ left' \in Bounds /\ Counted'
<1>1. left' \in Bounds /\ left'.rows = left.rows - 1 /\ left.rows \in 0 .. MaxRows
  BY SpendType DEF StoreTyped, Bounds
<1>2. rows \in [Queues -> 0 .. MaxRows] /\ MaxRows \in Nat /\ left.rows > 0
  BY BoundsAreNat DEF StoreTyped, Spend
<1>3. rows[q] + left.rows <= MaxRows
  BY DEF Counted
<1>4. rows' \in [Queues -> 0 .. MaxRows]
  BY <1>1, <1>2, <1>3
<1>5. \A p \in Queues : rows'[p] + left'.rows <= MaxRows
  BY <1>1, <1>2, <1>3 DEF Counted
<1>. QED BY <1>1, <1>4, <1>5 DEF Counted

LEMMA RestoreInv == ASSUME IInv, Alive, Restore PROVE IInv'
<1>. USE DEF Restore, IInv, Typed, vars, mainVars, seqVars, partVars, Alive
<1>1. MainTyped'
  BY DEF MainTyped
<1>2. SequenceTyped'
  BY DEF SequenceTyped
<1>3. PartsTyped'
  BY DEF PartsTyped
<1>a. \/ UNCHANGED <<rows, left>>
      \/ /\ Spend("rows")
         /\ \E q \in Queues : rows' = [rows EXCEPT ![q] = rows[q] + 1]
  BY DEF Restore
<1>b. db' \in {"NONE", "OPEN", "CLOSED"}
  BY DEF StoreTyped
<1>4. StoreTyped' /\ Counted'
  <2>1. CASE UNCHANGED <<rows, left>>
    BY <2>1, <1>b DEF StoreTyped, Counted
  <2>2. CASE /\ Spend("rows")
             /\ \E q \in Queues : rows' = [rows EXCEPT ![q] = rows[q] + 1]
    BY <2>2, <1>b, CountedRows DEF StoreTyped
  <2>. QED BY <1>a, <2>1, <2>2
<1>5. Signalled'
  BY DEF Signalled, Connected, MainTyped, SequenceTyped, Pending, HasRuntime
<1>6. Connected'
  BY DEF Connected, Drained, Signalled, Starting, StoreTyped, SequenceTyped
<1>7. Starting'
  BY DEF Starting, Connected, Signalled, PartsTyped
<1>8. Silenced'
  <2>1. next' = 1 /\ ~begun' /\ halted' = {} /\ begun' \in BOOLEAN
    BY <1>2, NoRuntimeYet DEF Connected, SequenceTyped
  <2>. QED BY <2>1, NothingReached DEF Silenced
<1>. QED BY <1>1, <1>2, <1>3, <1>4, <1>5, <1>6, <1>7, <1>8

LEMMA SwapInv == ASSUME IInv, Alive, Swap PROVE IInv'
<1>. USE DEF Swap, IInv, Typed, vars, mainVars, seqVars, partVars, Alive
<1>1. MainTyped'
  BY DEF MainTyped
<1>2. SequenceTyped'
  BY DEF SequenceTyped
<1>3. PartsTyped'
  BY DEF PartsTyped
<1>4. StoreTyped'
  BY SpendType DEF StoreTyped
<1>5. Signalled'
  BY DEF Signalled, Connected, MainTyped, SequenceTyped, Pending, HasRuntime
<1>6. Connected'
  BY DEF Connected, Drained, Signalled, Starting, StoreTyped, SequenceTyped
<1>7. Starting'
  BY DEF Starting, Connected, Signalled, PartsTyped
<1>8. Silenced'
  <2>1. TimersSilent'
    BY DEF Silenced, TimersSilent, Reached, Signalled, Starting, Connected, SequenceTyped, DashboardSilent
  <2>2. WorkSilent'
    BY DEF Silenced, WorkSilent, Reached, Signalled, Starting, Connected, SequenceTyped
  <2>3. DashboardSilent'
    BY DEF Silenced, DashboardSilent, TimersSilent, Reached, Signalled, Starting, Connected, SequenceTyped
  <2>4. Emptied'
    BY DEF Silenced, Emptied, Drained, SequenceTyped, Signalled, Connected
  <2>. QED BY <2>1, <2>2, <2>3, <2>4 DEF Silenced
<1>9. Counted'
  BY SpendType DEF Counted, StoreTyped
<1>. QED BY <1>1, <1>2, <1>3, <1>4, <1>5, <1>6, <1>7, <1>8, <1>9

LEMMA StartRuntimeInv == ASSUME IInv, Alive, StartRuntime PROVE IInv'
<1>. USE DEF StartRuntime, IInv, Typed, vars, mainVars, seqVars, partVars, Alive
<1>1. MainTyped'
  BY DEF MainTyped
<1>2. SequenceTyped'
  BY DEF SequenceTyped
<1>3. PartsTyped'
  BY DEF PartsTyped
<1>4. StoreTyped'
  BY SpendType DEF StoreTyped
<1>5. Signalled'
  BY DEF Signalled, Connected, MainTyped, SequenceTyped, Pending, HasRuntime
<1>6. Connected'
  BY DEF Connected, Drained, Signalled, Starting, StoreTyped, SequenceTyped
<1>7. Starting'
  BY DEF Starting, Connected, Signalled, PartsTyped
<1>8. Silenced'
  <2>1. TimersSilent'
    BY DEF Silenced, TimersSilent, Reached, Signalled, Starting, Connected, SequenceTyped, DashboardSilent
  <2>2. WorkSilent'
    BY DEF Silenced, WorkSilent, Reached, Signalled, Starting, Connected, SequenceTyped
  <2>3. DashboardSilent'
    <3>1. CASE stopRequested
      BY <3>1 DEF Silenced, DashboardSilent, Reached
    <3>2. CASE ~stopRequested
      <4>1. next = 1 /\ begun = FALSE /\ halted = {}
        BY <3>2, NotStopping DEF Signalled, SequenceTyped
      <4>2. next' = 1 /\ begun' = FALSE /\ halted' = {}
        BY <4>1
      <4>. QED BY <4>2, NothingReached
    <3>. QED BY <3>1, <3>2
  <2>4. Emptied'
    BY DEF Silenced, Emptied, Drained, SequenceTyped, Signalled, Connected
  <2>. QED BY <2>1, <2>2, <2>3, <2>4 DEF Silenced
<1>9. Counted'
  BY SpendType DEF Counted, StoreTyped
<1>. QED BY <1>1, <1>2, <1>3, <1>4, <1>5, <1>6, <1>7, <1>8, <1>9

LEMMA DashboardUpInv == ASSUME IInv, Alive, DashboardUp PROVE IInv'
<1>. USE DEF DashboardUp, IInv, Typed, vars, mainVars, seqVars, partVars, Alive
<1>1. MainTyped'
  BY DEF MainTyped
<1>2. SequenceTyped'
  BY DEF SequenceTyped
<1>3. PartsTyped'
  BY DEF PartsTyped
<1>4. StoreTyped'
  BY SpendType DEF StoreTyped
<1>5. Signalled'
  BY DEF Signalled, Connected, MainTyped, SequenceTyped, Pending, HasRuntime
<1>6. Connected'
  BY DEF Connected, Drained, Signalled, Starting, StoreTyped, SequenceTyped
<1>7. Starting'
  BY DEF Starting, Connected, Signalled, PartsTyped
<1>8. Silenced'
  <2>1. TimersSilent'
    <3>1. CASE stopping
      <4>1. UNCHANGED <<next, begun, halted>> /\ timers' = timers \cup {"PUBLISH"}
        BY <3>1
      <4>2. "STOP_DASHBOARD" \notin halted
        BY StartingIsEarly
      <4>. QED BY <4>1, <4>2, SameStageTimers DEF Silenced
    <3>2. CASE ~stopping
      <4>1. next' = 1 /\ begun' = FALSE /\ halted' = {}
        BY <3>2, NotStopping DEF SequenceTyped
      <4>. QED BY <4>1, NothingReached
    <3>. QED BY <3>1, <3>2
  <2>2. WorkSilent'
    <3>1. CASE stopping
      <4>1. UNCHANGED <<next, begun, halted, stream, tasks, awaited, works>>
        BY <3>1
      <4>. QED BY <4>1, SameStageWork DEF Silenced
    <3>2. CASE ~stopping
      <4>1. next' = 1 /\ begun' = FALSE /\ halted' = {}
        BY <3>2, NotStopping DEF SequenceTyped
      <4>. QED BY <4>1, NothingReached
    <3>. QED BY <3>1, <3>2
  <2>3. DashboardSilent'
    BY DEF Silenced, DashboardSilent, TimersSilent, Reached, Signalled, Starting, Connected, SequenceTyped
  <2>4. Emptied'
    BY DEF Silenced, Emptied, Drained, SequenceTyped, Signalled, Connected
  <2>. QED BY <2>1, <2>2, <2>3, <2>4 DEF Silenced
<1>9. Counted'
  BY SpendType DEF Counted, StoreTyped
<1>. QED BY <1>1, <1>2, <1>3, <1>4, <1>5, <1>6, <1>7, <1>8, <1>9

LEMMA DashboardFailsInv == ASSUME IInv, Alive, DashboardFails PROVE IInv'
<1>. USE DEF DashboardFails, IInv, Typed, vars, mainVars, seqVars, partVars, Alive
<1>1. MainTyped'
  BY DEF MainTyped
<1>2. SequenceTyped'
  BY DEF SequenceTyped
<1>3. PartsTyped'
  BY DEF PartsTyped
<1>4. StoreTyped'
  BY SpendType DEF StoreTyped
<1>5. Signalled'
  BY DEF Signalled, Connected, MainTyped, SequenceTyped, Pending, HasRuntime
<1>6. Connected'
  BY DEF Connected, Drained, Signalled, Starting, StoreTyped, SequenceTyped
<1>7. Starting'
  BY DEF Starting, Connected, Signalled, PartsTyped
<1>8. Silenced'
  <2>1. TimersSilent'
    BY DEF Silenced, TimersSilent, Reached, Signalled, Starting, Connected, SequenceTyped, DashboardSilent
  <2>2. WorkSilent'
    BY DEF Silenced, WorkSilent, Reached, Signalled, Starting, Connected, SequenceTyped
  <2>3. DashboardSilent'
    BY DEF Silenced, DashboardSilent, TimersSilent, Reached, Signalled, Starting, Connected, SequenceTyped
  <2>4. Emptied'
    BY DEF Silenced, Emptied, Drained, SequenceTyped, Signalled, Connected
  <2>. QED BY <2>1, <2>2, <2>3, <2>4 DEF Silenced
<1>9. Counted'
  BY SpendType DEF Counted, StoreTyped
<1>. QED BY <1>1, <1>2, <1>3, <1>4, <1>5, <1>6, <1>7, <1>8, <1>9

LEMMA StreamStartedInv == ASSUME IInv, Alive, StreamStarted PROVE IInv'
<1>. USE DEF StreamStarted, IInv, Typed, vars, mainVars, seqVars, partVars, Alive
<1>1. MainTyped'
  BY DEF MainTyped
<1>2. SequenceTyped'
  BY DEF SequenceTyped
<1>3. PartsTyped'
  BY DEF PartsTyped
<1>4. StoreTyped'
  BY SpendType DEF StoreTyped
<1>5. Signalled'
  BY DEF Signalled, Connected, MainTyped, SequenceTyped, Pending, HasRuntime
<1>6. Connected'
  BY DEF Connected, Drained, Signalled, Starting, StoreTyped, SequenceTyped
<1>7. Starting'
  BY DEF Starting, Connected, Signalled, PartsTyped
<1>8. Silenced'
  <2>1. TimersSilent'
    <3>1. CASE stopping
      <4>1. UNCHANGED <<timers, next, begun, halted>>
        BY <3>1
      <4>. QED BY <4>1, SameTimers DEF Silenced
    <3>2. CASE ~stopping
      <4>1. next' = 1 /\ begun' = FALSE /\ halted' = {}
        BY <3>2, NotStopping DEF SequenceTyped
      <4>. QED BY <4>1, NothingReached
    <3>. QED BY <3>1, <3>2
  <2>2. WorkSilent'
    BY DEF Silenced, WorkSilent, Reached, Signalled, Starting, Connected, SequenceTyped
  <2>3. DashboardSilent'
    BY DEF Silenced, DashboardSilent, TimersSilent, Reached, Signalled, Starting, Connected, SequenceTyped
  <2>4. Emptied'
    BY DEF Silenced, Emptied, Drained, SequenceTyped, Signalled, Connected
  <2>. QED BY <2>1, <2>2, <2>3, <2>4 DEF Silenced
<1>9. Counted'
  BY SpendType DEF Counted, StoreTyped
<1>. QED BY <1>1, <1>2, <1>3, <1>4, <1>5, <1>6, <1>7, <1>8, <1>9

-----------------------------------------------------------------------------
(* What the runtime does meanwhile *)

LEMMA RowsArriveInv == ASSUME IInv, Alive, RowsArrive PROVE IInv'
<1>. USE DEF RowsArrive, IInv, Typed, vars, mainVars, seqVars, partVars, Alive
<1>1. MainTyped'
  BY DEF MainTyped
<1>2. SequenceTyped'
  BY DEF SequenceTyped
<1>3. PartsTyped'
  BY DEF PartsTyped
<1>4. StoreTyped' /\ Counted'
  BY CountedRows DEF StoreTyped
<1>5. Signalled'
  BY DEF Signalled, Connected, MainTyped, SequenceTyped, Pending, HasRuntime
<1>6. Connected'
  BY DEF Connected, Drained, Signalled, Starting, StoreTyped, SequenceTyped
<1>7. Starting'
  BY DEF Starting, Connected, Signalled, PartsTyped
<1>8. Silenced'
  <2>1. TimersSilent'
    BY DEF Silenced, TimersSilent, Reached, Signalled, Starting, Connected, SequenceTyped, DashboardSilent
  <2>2. WorkSilent'
    BY DEF Silenced, WorkSilent, Reached, Signalled, Starting, Connected, SequenceTyped
  <2>3. DashboardSilent'
    BY DEF Silenced, DashboardSilent, TimersSilent, Reached, Signalled, Starting, Connected, SequenceTyped
  <2>4. Emptied'
    <3>1. next \in 1 .. 9 /\ UNCHANGED next
      BY DEF SequenceTyped
    <3>2. CASE ~stopping
      BY <3>1, <3>2, NotStopping DEF Emptied
    <3>3. CASE "MAINTENANCE" \in timers
      BY <3>1, <3>3 DEF Silenced, TimersSilent, Reached, Emptied
    <3>. QED BY <3>2, <3>3
  <2>. QED BY <2>1, <2>2, <2>3, <2>4 DEF Silenced
<1>. QED BY <1>1, <1>2, <1>3, <1>4, <1>5, <1>6, <1>7, <1>8

LEMMA FlushFiresInv == ASSUME IInv, Alive, FlushFires PROVE IInv'
<1>. USE DEF FlushFires, IInv, Typed, vars, mainVars, seqVars, partVars, Alive
<1>1. MainTyped'
  BY DEF MainTyped
<1>2. SequenceTyped'
  BY DEF SequenceTyped
<1>3. PartsTyped'
  BY DEF PartsTyped
<1>3a. PICK q \in Queues : rows[q] > 0 /\ rows' = [rows EXCEPT ![q] = 0]
  OBVIOUS
<1>3b. rows \in [Queues -> 0 .. MaxRows] /\ left.rows \in 0 .. MaxRows /\ MaxRows \in Nat /\ left' = left
  BY BoundsAreNat DEF StoreTyped, Bounds
<1>3c. 0 \in 0 .. MaxRows /\ 0 <= rows[q]
  BY <1>3a, <1>3b
<1>4. StoreTyped'
  BY <1>3a, <1>3b, <1>3c DEF StoreTyped
<1>9. Counted'
  <2>1. \A p \in Queues : rows'[p] <= rows[p] /\ rows'[p] \in Int /\ rows[p] \in Int
    BY <1>3a, <1>3b, <1>3c
  <2>. QED BY <2>1, <1>3b DEF Counted
<1>5. Signalled'
  BY DEF Signalled, Connected, MainTyped, SequenceTyped, Pending, HasRuntime
<1>6. Connected'
  <2>1. db # "NONE"
    BY DEF Connected
  <2>. QED BY <2>1 DEF Connected
<1>7. Starting'
  BY DEF Starting, Connected, Signalled, PartsTyped
<1>8. Silenced'
  <2>1. TimersSilent'
    BY DEF Silenced, TimersSilent, Reached, Signalled, Starting, Connected, SequenceTyped, DashboardSilent
  <2>2. WorkSilent'
    BY DEF Silenced, WorkSilent, Reached, Signalled, Starting, Connected, SequenceTyped
  <2>3. DashboardSilent'
    BY DEF Silenced, DashboardSilent, TimersSilent, Reached, Signalled, Starting, Connected, SequenceTyped
  <2>4. Emptied'
    BY <1>3a, <1>3b DEF Silenced, Emptied, Drained
  <2>. QED BY <2>1, <2>2, <2>3, <2>4 DEF Silenced
<1>. QED BY <1>1, <1>2, <1>3, <1>4, <1>5, <1>6, <1>7, <1>8, <1>9

LEMMA TaskStartsInv == ASSUME IInv, Alive, NEW t \in Tasks, TaskStarts(t) PROVE IInv'
<1>. USE DEF TaskStarts, IInv, Typed, vars, mainVars, seqVars, partVars, Alive
<1>1. MainTyped'
  BY DEF MainTyped
<1>2. SequenceTyped'
  BY DEF SequenceTyped
<1>3. PartsTyped'
  BY DEF PartsTyped
<1>4. StoreTyped'
  BY SpendType DEF StoreTyped
<1>5. Signalled'
  BY DEF Signalled, Connected, MainTyped, SequenceTyped, Pending, HasRuntime
<1>6. Connected'
  BY DEF Connected, Drained, Signalled, Starting, StoreTyped, SequenceTyped
<1>7. Starting'
  BY DEF Starting, Connected, Signalled, PartsTyped
<1>8. Silenced'
  <2>1. TimersSilent'
    BY DEF Silenced, TimersSilent, Reached, Signalled, Starting, Connected, SequenceTyped, DashboardSilent
  <2>2. WorkSilent'
    BY DEF Silenced, WorkSilent, Reached, Signalled, Starting, Connected, SequenceTyped
  <2>3. DashboardSilent'
    BY DEF Silenced, DashboardSilent, TimersSilent, Reached, Signalled, Starting, Connected, SequenceTyped
  <2>4. Emptied'
    BY DEF Silenced, Emptied, Drained, SequenceTyped, Signalled, Connected
  <2>. QED BY <2>1, <2>2, <2>3, <2>4 DEF Silenced
<1>9. Counted'
  BY SpendType DEF Counted, StoreTyped
<1>. QED BY <1>1, <1>2, <1>3, <1>4, <1>5, <1>6, <1>7, <1>8, <1>9

LEMMA TaskEndsInv == ASSUME IInv, Alive, NEW t \in Tasks, TaskEnds(t) PROVE IInv'
<1>. USE DEF TaskEnds, IInv, Typed, vars, mainVars, seqVars, partVars, Alive
<1>1. MainTyped'
  BY DEF MainTyped
<1>2. SequenceTyped'
  BY DEF SequenceTyped
<1>3. PartsTyped'
  BY DEF PartsTyped
<1>4. StoreTyped'
  BY SpendType DEF StoreTyped
<1>5. Signalled'
  BY DEF Signalled, Connected, MainTyped, SequenceTyped, Pending, HasRuntime
<1>6. Connected'
  BY DEF Connected, Drained, Signalled, Starting, StoreTyped, SequenceTyped
<1>7. Starting'
  BY DEF Starting, Connected, Signalled, PartsTyped
<1>8. Silenced'
  <2>1. TimersSilent'
    BY DEF Silenced, TimersSilent, Reached, Signalled, Starting, Connected, SequenceTyped, DashboardSilent
  <2>2. WorkSilent'
    BY DEF Silenced, WorkSilent, Reached, Signalled, Starting, Connected, SequenceTyped
  <2>3. DashboardSilent'
    BY DEF Silenced, DashboardSilent, TimersSilent, Reached, Signalled, Starting, Connected, SequenceTyped
  <2>4. Emptied'
    BY DEF Silenced, Emptied, Drained, SequenceTyped, Signalled, Connected
  <2>. QED BY <2>1, <2>2, <2>3, <2>4 DEF Silenced
<1>9. Counted'
  BY SpendType DEF Counted, StoreTyped
<1>. QED BY <1>1, <1>2, <1>3, <1>4, <1>5, <1>6, <1>7, <1>8, <1>9

LEMMA WorkStartsInv == ASSUME IInv, Alive, NEW w \in Works, WorkStarts(w) PROVE IInv'
<1>. USE DEF WorkStarts, IInv, Typed, vars, mainVars, seqVars, partVars, Alive
<1>1. MainTyped'
  BY DEF MainTyped
<1>2. SequenceTyped'
  BY DEF SequenceTyped
<1>3. PartsTyped'
  BY DEF PartsTyped
<1>4. StoreTyped'
  BY SpendType DEF StoreTyped
<1>5. Signalled'
  BY DEF Signalled, Connected, MainTyped, SequenceTyped, Pending, HasRuntime
<1>6. Connected'
  BY DEF Connected, Drained, Signalled, Starting, StoreTyped, SequenceTyped
<1>7. Starting'
  BY DEF Starting, Connected, Signalled, PartsTyped
<1>8. Silenced'
  <2>1. TimersSilent'
    BY DEF Silenced, TimersSilent, Reached, Signalled, Starting, Connected, SequenceTyped, DashboardSilent
  <2>2. WorkSilent'
    BY DEF Silenced, WorkSilent, Reached, Signalled, Starting, Connected, SequenceTyped
  <2>3. DashboardSilent'
    BY DEF Silenced, DashboardSilent, TimersSilent, Reached, Signalled, Starting, Connected, SequenceTyped
  <2>4. Emptied'
    BY DEF Silenced, Emptied, Drained, SequenceTyped, Signalled, Connected
  <2>. QED BY <2>1, <2>2, <2>3, <2>4 DEF Silenced
<1>9. Counted'
  BY SpendType DEF Counted, StoreTyped
<1>. QED BY <1>1, <1>2, <1>3, <1>4, <1>5, <1>6, <1>7, <1>8, <1>9

LEMMA WorkEndsInv == ASSUME IInv, Alive, NEW w \in Works, WorkEnds(w) PROVE IInv'
<1>. USE DEF WorkEnds, IInv, Typed, vars, mainVars, seqVars, partVars, Alive
<1>1. MainTyped'
  BY DEF MainTyped
<1>2. SequenceTyped'
  BY DEF SequenceTyped
<1>3. PartsTyped'
  BY DEF PartsTyped
<1>4. StoreTyped'
  BY SpendType DEF StoreTyped
<1>5. Signalled'
  BY DEF Signalled, Connected, MainTyped, SequenceTyped, Pending, HasRuntime
<1>6. Connected'
  BY DEF Connected, Drained, Signalled, Starting, StoreTyped, SequenceTyped
<1>7. Starting'
  BY DEF Starting, Connected, Signalled, PartsTyped
<1>8. Silenced'
  <2>1. TimersSilent'
    BY DEF Silenced, TimersSilent, Reached, Signalled, Starting, Connected, SequenceTyped, DashboardSilent
  <2>2. WorkSilent'
    BY DEF Silenced, WorkSilent, Reached, Signalled, Starting, Connected, SequenceTyped
  <2>3. DashboardSilent'
    BY DEF Silenced, DashboardSilent, TimersSilent, Reached, Signalled, Starting, Connected, SequenceTyped
  <2>4. Emptied'
    BY DEF Silenced, Emptied, Drained, SequenceTyped, Signalled, Connected
  <2>. QED BY <2>1, <2>2, <2>3, <2>4 DEF Silenced
<1>9. Counted'
  BY SpendType DEF Counted, StoreTyped
<1>. QED BY <1>1, <1>2, <1>3, <1>4, <1>5, <1>6, <1>7, <1>8, <1>9

LEMMA ChildExitsInv == ASSUME IInv, Alive, ChildExits PROVE IInv'
<1>. USE DEF ChildExits, IInv, Typed, vars, mainVars, seqVars, partVars, Alive
<1>1. MainTyped'
  BY DEF MainTyped
<1>2. SequenceTyped'
  BY DEF SequenceTyped
<1>3. PartsTyped'
  BY DEF PartsTyped
<1>4. StoreTyped'
  BY SpendType DEF StoreTyped
<1>5. Signalled'
  BY DEF Signalled, Connected, MainTyped, SequenceTyped, Pending, HasRuntime
<1>6. Connected'
  BY DEF Connected, Drained, Signalled, Starting, StoreTyped, SequenceTyped
<1>7. Starting'
  BY DEF Starting, Connected, Signalled, PartsTyped
<1>8. Silenced'
  <2>1. TimersSilent'
    <3>1. UNCHANGED <<next, begun, halted>>
      OBVIOUS
    <3>2. timers' = timers \/ ("STOP_DASHBOARD" \notin halted /\ timers' = timers \cup {"RESTART"})
      OBVIOUS
    <3>. QED BY <3>1, <3>2 DEF Silenced, TimersSilent, Reached
  <2>2. WorkSilent'
    BY DEF Silenced, WorkSilent, Reached, Signalled, Starting, Connected, SequenceTyped
  <2>3. DashboardSilent'
    BY DEF Silenced, DashboardSilent, TimersSilent, Reached, Signalled, Starting, Connected, SequenceTyped
  <2>4. Emptied'
    BY DEF Silenced, Emptied, Drained, SequenceTyped, Signalled, Connected
  <2>. QED BY <2>1, <2>2, <2>3, <2>4 DEF Silenced
<1>9. Counted'
  BY SpendType DEF Counted, StoreTyped
<1>. QED BY <1>1, <1>2, <1>3, <1>4, <1>5, <1>6, <1>7, <1>8, <1>9

LEMMA RestartFiresInv == ASSUME IInv, Alive, RestartFires PROVE IInv'
<1>. USE DEF RestartFires, IInv, Typed, vars, mainVars, seqVars, partVars, Alive
<1>1. MainTyped'
  BY DEF MainTyped
<1>2. SequenceTyped'
  BY DEF SequenceTyped
<1>3. PartsTyped'
  BY DEF PartsTyped
<1>4. StoreTyped'
  BY SpendType DEF StoreTyped
<1>5. Signalled'
  BY DEF Signalled, Connected, MainTyped, SequenceTyped, Pending, HasRuntime
<1>6. Connected'
  BY DEF Connected, Drained, Signalled, Starting, StoreTyped, SequenceTyped
<1>7. Starting'
  BY DEF Starting, Connected, Signalled, PartsTyped
<1>8. Silenced'
  <2>1. TimersSilent'
    BY DEF Silenced, TimersSilent, Reached, Signalled, Starting, Connected, SequenceTyped, DashboardSilent
  <2>2. WorkSilent'
    BY DEF Silenced, WorkSilent, Reached, Signalled, Starting, Connected, SequenceTyped
  <2>3. DashboardSilent'
    BY DEF Silenced, DashboardSilent, TimersSilent, Reached, Signalled, Starting, Connected, SequenceTyped
  <2>4. Emptied'
    BY DEF Silenced, Emptied, Drained, SequenceTyped, Signalled, Connected
  <2>. QED BY <2>1, <2>2, <2>3, <2>4 DEF Silenced
<1>9. Counted'
  BY SpendType DEF Counted, StoreTyped
<1>. QED BY <1>1, <1>2, <1>3, <1>4, <1>5, <1>6, <1>7, <1>8, <1>9

LEMMA RestartedInv == ASSUME IInv, Alive, Restarted PROVE IInv'
<1>. USE DEF Restarted, IInv, Typed, vars, mainVars, seqVars, partVars, Alive
<1>1. MainTyped'
  BY DEF MainTyped
<1>2. SequenceTyped'
  BY DEF SequenceTyped
<1>3. PartsTyped'
  BY DEF PartsTyped
<1>4. StoreTyped'
  BY SpendType DEF StoreTyped
<1>5. Signalled'
  BY DEF Signalled, Connected, MainTyped, SequenceTyped, Pending, HasRuntime
<1>6. Connected'
  BY DEF Connected, Drained, Signalled, Starting, StoreTyped, SequenceTyped
<1>7. Starting'
  BY DEF Starting, Connected, Signalled, PartsTyped
<1>8. Silenced'
  <2>1. TimersSilent'
    BY DEF Silenced, TimersSilent, Reached, Signalled, Starting, Connected, SequenceTyped, DashboardSilent
  <2>2. WorkSilent'
    BY DEF Silenced, WorkSilent, Reached, Signalled, Starting, Connected, SequenceTyped
  <2>3. DashboardSilent'
    BY DEF Silenced, DashboardSilent, TimersSilent, Reached, Signalled, Starting, Connected, SequenceTyped
  <2>4. Emptied'
    BY DEF Silenced, Emptied, Drained, SequenceTyped, Signalled, Connected
  <2>. QED BY <2>1, <2>2, <2>3, <2>4 DEF Silenced
<1>9. Counted'
  BY SpendType DEF Counted, StoreTyped
<1>. QED BY <1>1, <1>2, <1>3, <1>4, <1>5, <1>6, <1>7, <1>8, <1>9

-----------------------------------------------------------------------------
(* The signal *)

LEMMA SignalInv == ASSUME IInv, Alive, Signal PROVE IInv'
<1>. USE DEF Signal, IInv, Typed, vars, mainVars, seqVars, partVars, Alive
<1>1. MainTyped'
  BY DEF MainTyped
<1>2. SequenceTyped'
  BY DEF SequenceTyped
<1>3. PartsTyped'
  BY DEF PartsTyped
<1>4. StoreTyped'
  BY SpendType DEF StoreTyped
<1>5. Signalled'
  BY DEF Signalled, Connected, MainTyped, SequenceTyped, Pending, HasRuntime
<1>6. Connected'
  BY DEF Connected, Drained, Signalled, Starting, StoreTyped, SequenceTyped
<1>7. Starting'
  BY DEF Starting, Connected, Signalled, PartsTyped
<1>8. Silenced'
  <2>1. TimersSilent'
    BY DEF Silenced, TimersSilent, Reached, Signalled, Starting, Connected, SequenceTyped, DashboardSilent
  <2>2. WorkSilent'
    BY DEF Silenced, WorkSilent, Reached, Signalled, Starting, Connected, SequenceTyped
  <2>3. DashboardSilent'
    BY DEF Silenced, DashboardSilent, TimersSilent, Reached, Signalled, Starting, Connected, SequenceTyped
  <2>4. Emptied'
    BY DEF Silenced, Emptied, Drained, SequenceTyped, Signalled, Connected
  <2>. QED BY <2>1, <2>2, <2>3, <2>4 DEF Silenced
<1>9. Counted'
  BY SpendType DEF Counted, StoreTyped
<1>. QED BY <1>1, <1>2, <1>3, <1>4, <1>5, <1>6, <1>7, <1>8, <1>9

LEMMA StartupFinishedInv == ASSUME IInv, Alive, StartupFinished PROVE IInv'
<1>. USE DEF StartupFinished, IInv, Typed, vars, mainVars, seqVars, partVars, Alive
<1>1. MainTyped'
  BY DEF MainTyped
<1>2. SequenceTyped'
  BY DEF SequenceTyped
<1>3. PartsTyped'
  BY DEF PartsTyped
<1>4. StoreTyped'
  BY SpendType DEF StoreTyped
<1>5. Signalled'
  BY DEF Signalled, Connected, MainTyped, SequenceTyped, Pending, HasRuntime
<1>6. Connected'
  BY DEF Connected, Drained, Signalled, Starting, StoreTyped, SequenceTyped
<1>7. Starting'
  BY DEF Starting, Connected, Signalled, PartsTyped
<1>8. Silenced'
  <2>1. TimersSilent'
    BY DEF Silenced, TimersSilent, Reached, Signalled, Starting, Connected, SequenceTyped, DashboardSilent
  <2>2. WorkSilent'
    BY DEF Silenced, WorkSilent, Reached, Signalled, Starting, Connected, SequenceTyped
  <2>3. DashboardSilent'
    BY DEF Silenced, DashboardSilent, TimersSilent, Reached, Signalled, Starting, Connected, SequenceTyped
  <2>4. Emptied'
    BY DEF Silenced, Emptied, Drained, SequenceTyped, Signalled, Connected
  <2>. QED BY <2>1, <2>2, <2>3, <2>4 DEF Silenced
<1>9. Counted'
  BY SpendType DEF Counted, StoreTyped
<1>. QED BY <1>1, <1>2, <1>3, <1>4, <1>5, <1>6, <1>7, <1>8, <1>9

LEMMA StartupPageStoppedInv == ASSUME IInv, Alive, StartupPageStopped PROVE IInv'
<1>. USE DEF StartupPageStopped, IInv, Typed, vars, mainVars, seqVars, partVars, Alive
<1>1. MainTyped'
  BY DEF MainTyped
<1>2. SequenceTyped'
  BY DEF SequenceTyped
<1>3. PartsTyped'
  BY DEF PartsTyped
<1>4. StoreTyped'
  BY SpendType DEF StoreTyped
<1>5. Signalled'
  BY DEF Signalled, Connected, MainTyped, SequenceTyped, Pending, HasRuntime
<1>6. Connected'
  BY DEF Connected, Drained, Signalled, HasRuntime
<1>7. Starting'
  BY DEF Starting, Connected, Signalled, PartsTyped
<1>8. Silenced'
  <2>1. TimersSilent'
    BY DEF Silenced, TimersSilent, Reached, Signalled, Starting, Connected, SequenceTyped, DashboardSilent
  <2>2. WorkSilent'
    BY DEF Silenced, WorkSilent, Reached, Signalled, Starting, Connected, SequenceTyped
  <2>3. DashboardSilent'
    BY DEF Silenced, DashboardSilent, TimersSilent, Reached, Signalled, Starting, Connected, SequenceTyped
  <2>4. Emptied'
    BY DEF Silenced, Emptied, Drained, SequenceTyped, Signalled, Connected
  <2>. QED BY <2>1, <2>2, <2>3, <2>4 DEF Silenced
<1>9. Counted'
  BY SpendType DEF Counted, StoreTyped
<1>. QED BY <1>1, <1>2, <1>3, <1>4, <1>5, <1>6, <1>7, <1>8, <1>9

LEMMA RunsDryInv == ASSUME IInv, Alive, RunsDry PROVE IInv'
<1>. USE DEF RunsDry, IInv, Typed, vars, mainVars, seqVars, partVars, Alive
<1>1. MainTyped'
  BY DEF MainTyped
<1>1a. SequenceTyped'
  BY DEF SequenceTyped
<1>1b. PartsTyped' /\ StoreTyped'
  BY DEF PartsTyped, StoreTyped
<1>2. Signalled'
  BY DEF Signalled, HasRuntime
<1>3. Connected' /\ Starting'
  BY DEF Connected, Drained, Starting
<1>4. TimersSilent' /\ WorkSilent'
  BY SameTimers, SameStageWork DEF Silenced
<1>5. DashboardSilent' /\ Emptied'
  BY DEF Silenced, DashboardSilent, Reached, Emptied, Drained
<1>6. Counted'
  BY DEF Counted
<1>. QED BY <1>1, <1>1a, <1>1b, <1>2, <1>3, <1>4, <1>5, <1>6 DEF Silenced

LEMMA ExitInv == ASSUME IInv, Alive, Exit PROVE IInv'
<1>. USE DEF Exit, IInv, Typed, vars, mainVars, seqVars, partVars, Alive
<1>1. MainTyped'
  BY DEF MainTyped
<1>2. SequenceTyped'
  BY DEF SequenceTyped
<1>3. PartsTyped'
  BY DEF PartsTyped
<1>4. StoreTyped'
  BY SpendType DEF StoreTyped
<1>5. Signalled'
  BY DEF Signalled, Connected, MainTyped, SequenceTyped, Pending, HasRuntime
<1>6. Connected'
  BY DEF Connected, Drained, Signalled, Starting, StoreTyped, SequenceTyped
<1>7. Starting'
  BY DEF Starting, Connected, Signalled, PartsTyped
<1>8. Silenced'
  <2>1. TimersSilent'
    BY DEF Silenced, TimersSilent, Reached, Signalled, Starting, Connected, SequenceTyped, DashboardSilent
  <2>2. WorkSilent'
    BY DEF Silenced, WorkSilent, Reached, Signalled, Starting, Connected, SequenceTyped
  <2>3. DashboardSilent'
    BY DEF Silenced, DashboardSilent, TimersSilent, Reached, Signalled, Starting, Connected, SequenceTyped
  <2>4. Emptied'
    BY DEF Silenced, Emptied, Drained, SequenceTyped, Signalled, Connected
  <2>. QED BY <2>1, <2>2, <2>3, <2>4 DEF Silenced
<1>9. Counted'
  BY SpendType DEF Counted, StoreTyped
<1>. QED BY <1>1, <1>2, <1>3, <1>4, <1>5, <1>6, <1>7, <1>8, <1>9

-----------------------------------------------------------------------------
(* The stages *)

LEMMA StageBeginsInv == ASSUME IInv, Alive, StageBegins PROVE IInv'
<1>. USE DEF StageBegins, IInv, Typed, vars, mainVars, seqVars, partVars, Alive
<1>1. MainTyped'
  BY DEF MainTyped
<1>2. SequenceTyped'
  BY DEF SequenceTyped
<1>3. PartsTyped'
  BY DEF PartsTyped
<1>4. StoreTyped'
  BY SpendType DEF StoreTyped
<1>5. Signalled'
  BY DEF Signalled, Connected, MainTyped, SequenceTyped, Pending, HasRuntime
<1>6. Connected'
  BY DEF Connected, Drained, Signalled, Starting, StoreTyped, SequenceTyped
<1>7. Starting'
  BY DEF Starting, Connected, Signalled, PartsTyped
<1>8. Silenced'
  <2>a. next \in 1 .. 8 /\ next' = next /\ begun' /\ ~begun
    BY StageNames DEF SequenceTyped
  <2>b. halted' = halted \cup ({Current} \cap {"SETTLE_TRADING", "STOP_OBSERVERS", "STOP_DASHBOARD"})
    OBVIOUS
  <2>c. "STOP_DASHBOARD" \in halted' => "STOP_DASHBOARD" \in halted \/ next = 7
    BY <2>a, <2>b, CurrentStage
  <2>1. TimersSilent'
    <3>1. timers' = timers \ ClearedBy(Current)
      OBVIOUS
    <3>2. next = 1 => "MAINTENANCE" \notin timers'
      BY <3>1, <2>a, CurrentStage DEF ClearedBy
    <3>3. next = 6 => "FLUSH" \notin timers' /\ "SAMPLER" \notin timers'
      BY <3>1, <2>a, CurrentStage DEF ClearedBy
    <3>4. next = 7 => "PUBLISH" \notin timers' /\ "RESTART" \notin timers'
      BY <3>1, <2>a, CurrentStage DEF ClearedBy
    <3>5. timers' \subseteq timers
      BY <3>1
    <3>. QED BY <3>2, <3>3, <3>4, <3>5, <2>a, <2>c DEF Silenced, TimersSilent, Reached
  <2>2. WorkSilent'
    <3>1. next = 3 => stream' = "CLOSED"
      BY <2>a, CurrentStage
    <3>2. next # 3 => stream' = stream
      BY <2>a, CurrentStage
    <3>3. next = 4 => "SETTLE_TRADING" \in halted' /\ awaited' = tasks
      BY <2>a, <2>b, CurrentStage
    <3>4. next = 5 => "STOP_OBSERVERS" \in halted'
      BY <2>a, <2>b, CurrentStage
    <3>5. UNCHANGED <<tasks, works>> /\ halted \subseteq halted'
      BY <2>b
    <3>. QED BY <3>1, <3>2, <3>3, <3>4, <3>5, <2>a DEF Silenced, WorkSilent, Reached
  <2>3. DashboardSilent'
    <3>1. next = 7 => "STOP_DASHBOARD" \in halted'
      BY <2>a, <2>b, CurrentStage
    <3>2. UNCHANGED <<child, starting>> /\ halted \subseteq halted'
      BY <2>b
    <3>. QED BY <3>1, <3>2, <2>a, <2>c DEF Silenced, DashboardSilent, Reached
  <2>4. Emptied'
    BY DEF Silenced, Emptied, Drained, SequenceTyped, Signalled, Connected
  <2>. QED BY <2>1, <2>2, <2>3, <2>4 DEF Silenced
<1>9. Counted'
  BY SpendType DEF Counted, StoreTyped
<1>. QED BY <1>1, <1>2, <1>3, <1>4, <1>5, <1>6, <1>7, <1>8, <1>9

LEMMA DrainBatchInv == ASSUME IInv, Alive, DrainBatch PROVE IInv'
<1>. USE DEF DrainBatch, IInv, Typed, vars, mainVars, seqVars, partVars, Alive
<1>1. MainTyped'
  BY DEF MainTyped
<1>2. SequenceTyped'
  BY DEF SequenceTyped
<1>3. PartsTyped'
  BY DEF PartsTyped
<1>3a. PICK q \in Queues : rows[q] > 0 /\ rows' = [rows EXCEPT ![q] = rows[q] - 1]
  OBVIOUS
<1>3b. rows \in [Queues -> 0 .. MaxRows] /\ left.rows \in 0 .. MaxRows /\ MaxRows \in Nat /\ left' = left
  BY BoundsAreNat DEF StoreTyped, Bounds
<1>3c. rows[q] - 1 \in 0 .. MaxRows /\ rows[q] - 1 <= rows[q]
  BY <1>3a, <1>3b
<1>4. StoreTyped'
  BY <1>3a, <1>3b, <1>3c DEF StoreTyped
<1>9. Counted'
  <2>1. \A p \in Queues : rows'[p] <= rows[p] /\ rows'[p] \in Int /\ rows[p] \in Int
    BY <1>3a, <1>3b, <1>3c
  <2>. QED BY <2>1, <1>3b DEF Counted
<1>5. Signalled'
  BY DEF Signalled, Connected, MainTyped, SequenceTyped, Pending, HasRuntime
<1>6. Connected'
  <2>1. db # "NONE"
    BY NotStopping DEF Running, Connected, Signalled
  <2>. QED BY <2>1 DEF Connected
<1>7. Starting'
  BY DEF Starting, Connected, Signalled, PartsTyped
<1>8. Silenced'
  <2>1. TimersSilent'
    BY DEF Silenced, TimersSilent, Reached, Signalled, Starting, Connected, SequenceTyped, DashboardSilent
  <2>2. WorkSilent'
    BY DEF Silenced, WorkSilent, Reached, Signalled, Starting, Connected, SequenceTyped
  <2>3. DashboardSilent'
    BY DEF Silenced, DashboardSilent, TimersSilent, Reached, Signalled, Starting, Connected, SequenceTyped
  <2>4. Emptied'
    <3>1. next = 6 /\ UNCHANGED next
      <4>1. status # "STOPPED" /\ Current = "DRAIN_DATABASE"
        BY DEF Running
      <4>2. next \in 1 .. 8
        BY <4>1 DEF SequenceTyped, Connected
      <4>. QED BY <4>1, <4>2, CurrentStage
    <3>. QED BY <3>1 DEF Emptied
  <2>. QED BY <2>1, <2>2, <2>3, <2>4 DEF Silenced
<1>. QED BY <1>1, <1>2, <1>3, <1>4, <1>5, <1>6, <1>7, <1>8, <1>9

LEMMA StageEndsInv == ASSUME IInv, Alive, StageEnds PROVE IInv'
<1>. USE DEF StageEnds, IInv, Typed, vars, mainVars, seqVars, partVars, Alive
<1>a. next \in 1 .. 8 /\ begun /\ Settled /\ status = "STOPPING" /\ request = "STAGES"
  BY DEF SequenceTyped, Connected, Signalled
<1>b. next' = next + 1 /\ ~begun' /\ UNCHANGED <<mainVars, stopping, halted, partVars, left>>
  OBVIOUS
<1>c. IF next = 8
      THEN rows' = [q \in Queues |-> 0] /\ db' = "CLOSED" /\ status' = "STOPPED"
      ELSE UNCHANGED <<rows, db, status>>
  BY <1>a, CurrentStage
<1>d. Settled => /\ next = 2 => ~starting
                 /\ next = 4 => awaited \cap tasks = {}
                 /\ next = 5 => works = {}
                 /\ next = 6 => Drained
                 /\ next = 7 => child = "NONE"
  BY <1>a, CurrentStage DEF Settled
<1>1. MainTyped'
  BY DEF MainTyped
<1>2. SequenceTyped'
  <2>1. next' \in 1 .. 9
    BY <1>a, <1>b
  <2>3. begun' \in BOOLEAN
    OBVIOUS
  <2>2. status' \in {"IDLE", "STOPPING", "STOP_FAILED", "STOPPED"}
    BY <1>a, <1>c
  <2>. QED BY <2>1, <2>2, <2>3, <1>b DEF SequenceTyped
<1>3. PartsTyped'
  BY DEF PartsTyped
<1>4. StoreTyped'
  BY <1>b, <1>c, BoundsAreNat DEF StoreTyped
<1>5. Signalled'
  BY <1>a, <1>b, <1>c DEF Signalled, Connected
<1>6. Connected'
  <2>1. db = "OPEN"
    BY <1>a, NotStopping DEF Connected, Signalled, StoreTyped
  <2>2. db' # "NONE" /\ (status' = "STOPPED" <=> next = 8) /\ (db' = "CLOSED" <=> next = 8)
    BY <1>a, <1>c, <2>1
  <2>3. next' = 9 <=> next = 8
    BY <1>a, <1>b
  <2>. QED BY <1>b, <2>1, <2>2, <2>3 DEF Connected
<1>7. Starting'
  BY DEF Starting
<1>8. Silenced'
  <2>1. TimersSilent'
    BY <1>a, <1>b DEF Silenced, TimersSilent, Reached
  <2>2. WorkSilent'
    BY <1>a, <1>b, <1>d DEF Silenced, WorkSilent, Reached
  <2>3. DashboardSilent'
    BY <1>a, <1>b, <1>d DEF Silenced, DashboardSilent, Reached
  <2>4. Emptied'
    BY <1>a, <1>b, <1>c, <1>d DEF Silenced, Emptied, Drained
  <2>. QED BY <2>1, <2>2, <2>3, <2>4 DEF Silenced
<1>9. Counted'
  <2>1. left.rows \in 0 .. MaxRows /\ MaxRows \in Nat /\ left' = left
    BY BoundsAreNat DEF StoreTyped, Bounds
  <2>. QED BY <1>c, <2>1 DEF Counted
<1>. QED BY <1>1, <1>2, <1>3, <1>4, <1>5, <1>6, <1>7, <1>8, <1>9

LEMMA StageFailsInv == ASSUME IInv, Alive, StageFails PROVE IInv'
<1>. USE DEF StageFails, IInv, Typed, vars, mainVars, seqVars, partVars, Alive
<1>1. MainTyped'
  BY DEF MainTyped
<1>2. SequenceTyped'
  BY DEF SequenceTyped
<1>3. PartsTyped'
  BY DEF PartsTyped
<1>4. StoreTyped'
  BY SpendType DEF StoreTyped
<1>5. Signalled'
  BY DEF Signalled, Connected, MainTyped, SequenceTyped, Pending, HasRuntime
<1>6. Connected'
  BY DEF Connected, Drained, Signalled, Starting, StoreTyped, SequenceTyped
<1>7. Starting'
  BY DEF Starting, Connected, Signalled, PartsTyped
<1>8. Silenced'
  <2>1. TimersSilent'
    BY DEF Silenced, TimersSilent, Reached, Signalled, Starting, Connected, SequenceTyped, DashboardSilent
  <2>2. WorkSilent'
    BY DEF Silenced, WorkSilent, Reached, Signalled, Starting, Connected, SequenceTyped
  <2>3. DashboardSilent'
    BY DEF Silenced, DashboardSilent, TimersSilent, Reached, Signalled, Starting, Connected, SequenceTyped
  <2>4. Emptied'
    BY DEF Silenced, Emptied, Drained, SequenceTyped, Signalled, Connected
  <2>. QED BY <2>1, <2>2, <2>3, <2>4 DEF Silenced
<1>9. Counted'
  BY SpendType DEF Counted, StoreTyped
<1>. QED BY <1>1, <1>2, <1>3, <1>4, <1>5, <1>6, <1>7, <1>8, <1>9

-----------------------------------------------------------------------------
(* The invariant, and what the run checks *)

LEMMA StutterInv == ASSUME IInv, UNCHANGED vars PROVE IInv'
<1>. USE DEF vars, mainVars, seqVars, partVars
<1>1. Typed'
  <2>1. MainTyped'
    BY DEF IInv, Typed, MainTyped
  <2>1a. PartsTyped'
    BY DEF IInv, Typed, PartsTyped
  <2>2. SequenceTyped'
    BY DEF IInv, Typed, SequenceTyped
  <2>3. StoreTyped'
    BY DEF IInv, Typed, StoreTyped
  <2>. QED BY <2>1, <2>1a, <2>2, <2>3 DEF Typed
<1>2. Signalled' /\ Connected' /\ Starting'
  BY DEF IInv, Signalled, Connected, Starting, Drained, HasRuntime
<1>3. TimersSilent' /\ WorkSilent'
  BY SameTimers, SameStageWork DEF IInv, Silenced
<1>4. DashboardSilent' /\ Emptied'
  BY DEF IInv, Silenced, DashboardSilent, Emptied, Reached, Drained
<1>5. Counted'
  BY DEF IInv, Counted
<1>. QED BY <1>1, <1>2, <1>3, <1>4, <1>5 DEF IInv, Silenced

LEMMA StepInv == ASSUME IInv, [Next]_vars PROVE IInv'
<1>1. CASE UNCHANGED vars
  BY <1>1, StutterInv
<1>2. CASE Next
  <2>1. Alive
    BY <1>2 DEF Next
  <2>2. CASE MainStep
    BY <2>1, <2>2, LaunchInv, RestoreInv, SwapInv, StartRuntimeInv DEF MainStep
  <2>3. CASE DashboardUp \/ DashboardFails \/ StreamStarted
    BY <2>1, <2>3, DashboardUpInv, DashboardFailsInv, StreamStartedInv
  <2>4. CASE RowsArrive \/ FlushFires
    BY <2>1, <2>4, RowsArriveInv, FlushFiresInv
  <2>5. CASE \E t \in Tasks : TaskStarts(t) \/ TaskEnds(t)
    BY <2>1, <2>5, TaskStartsInv, TaskEndsInv
  <2>6. CASE \E w \in Works : WorkStarts(w) \/ WorkEnds(w)
    BY <2>1, <2>6, WorkStartsInv, WorkEndsInv
  <2>7. CASE ChildExits \/ RestartFires \/ Restarted
    BY <2>1, <2>7, ChildExitsInv, RestartFiresInv, RestartedInv
  <2>8. CASE Signal \/ StageFails \/ RunsDry
    BY <2>1, <2>8, SignalInv, StageFailsInv, RunsDryInv
  <2>9. CASE StopStep
    <3>1. CASE StartupFinished \/ StartupPageStopped \/ Exit
      BY <2>1, <3>1, StartupFinishedInv, StartupPageStoppedInv, ExitInv
    <3>2. CASE StageBegins \/ DrainBatch \/ StageEnds
      BY <2>1, <3>2, StageBeginsInv, DrainBatchInv, StageEndsInv
    <3>. QED BY <2>9, <3>1, <3>2 DEF StopStep
  <2>. QED BY <1>2, <2>2, <2>3, <2>4, <2>5, <2>6, <2>7, <2>8, <2>9 DEF Next
<1>. QED BY <1>1, <1>2

\* The stages silence their parts for good: IInv holds in every state of the
\* process, wherever the signal finds main() and whatever stage fails.
THEOREM ShutdownInvariant == Spec => []IInv
<1>1. Init => IInv
  BY InitInv
<1>2. IInv /\ [Next]_vars => IInv'
  BY StepInv
<1>. QED BY <1>1, <1>2, PTL DEF Spec

\* Start and stop keep every part in a state they know, and no stage is run past
\* the last (GracefulShutdown.stop()).
THEOREM ShutdownTyped == Spec => []TypeOK
<1>1. IInv => TypeOK
  BY TypedIsTypeOK DEF IInv
<1>. QED BY <1>1, ShutdownInvariant, PTL

LEMMA DrainUndisturbedInv == ASSUME IInv PROVE DrainIsUndisturbed
<1>. SUFFICES ASSUME next > 6 \/ (next = 6 /\ begun)
              PROVE  /\ "MAINTENANCE" \notin timers /\ ~Producing /\ ~starting
                     /\ tasks = {} /\ works = {}
  BY DEF DrainIsUndisturbed
<1>1. next \in 1 .. 9
  BY DEF IInv, Typed, SequenceTyped
<1>2. "MAINTENANCE" \notin timers
  BY <1>1 DEF IInv, Silenced, TimersSilent, Reached
<1>3. stream = "CLOSED" /\ tasks = {} /\ works = {}
  BY <1>1 DEF IInv, Silenced, WorkSilent, Reached
<1>4. ~starting
  BY <1>1 DEF IInv, Silenced, DashboardSilent
<1>. QED BY <1>2, <1>3, <1>4 DEF Producing

\* When drainPendingWrites() runs, and ever after, nothing that writes rows is
\* running or can be set off by a start() that answers late.
THEOREM DrainUndisturbed == Spec => []DrainIsUndisturbed
<1>1. IInv => DrainIsUndisturbed
  BY DrainUndisturbedInv
<1>. QED BY <1>1, ShutdownInvariant, PTL

LEMMA ClosedQuietInv == ASSUME IInv PROVE ClosedIsQuiet
<1>. SUFFICES ASSUME db = "CLOSED"
              PROVE  /\ Drained /\ timers = {} /\ tasks = {} /\ works = {}
                     /\ ~Producing /\ child = "NONE"
  BY DEF ClosedIsQuiet
<1>1. next = 9
  BY DEF IInv, Connected
<1>2. Drained /\ child = "NONE"
  BY <1>1 DEF IInv, Silenced, Emptied, DashboardSilent
<1>3. "STOP_DASHBOARD" \in halted
  BY <1>1 DEF IInv, Silenced, DashboardSilent, Reached
<1>4. timers = {}
  BY <1>1, <1>3 DEF IInv, Typed, PartsTyped, Silenced, TimersSilent, Reached
<1>5. stream = "CLOSED" /\ tasks = {} /\ works = {}
  BY <1>1 DEF IInv, Silenced, WorkSilent, Reached
<1>. QED BY <1>2, <1>4, <1>5 DEF Producing

\* ResearchStore.close() leaves no row in memory, and nothing alive that would
\* use the connection.
THEOREM ClosedStaysQuiet == Spec => []ClosedIsQuiet
<1>1. IInv => ClosedIsQuiet
  BY ClosedQuietInv
<1>. QED BY <1>1, ShutdownInvariant, PTL

LEMMA ExitCleanInv == ASSUME IInv PROVE ExitIsClean
<1>. SUFFICES ASSUME request = "EXITED"
              PROVE  /\ ~startup /\ child = "NONE"
                     /\ HasRuntime => Drained /\ db = "CLOSED"
  BY DEF ExitIsClean
<1>1. ~startup /\ (~HasRuntime \/ status = "STOPPED")
  BY DEF IInv, Signalled
<1>2. CASE ~HasRuntime
  BY <1>1, <1>2 DEF IInv, Connected, HasRuntime
<1>3. CASE status = "STOPPED"
  <2>1. db = "CLOSED"
    BY <1>3 DEF IInv, Connected
  <2>. QED BY <1>1, <2>1, ClosedQuietInv DEF ClosedIsQuiet
<1>. QED BY <1>1, <1>2, <1>3

\* createSignalShutdown ends the process only with both child processes gone and,
\* when createRuntime() has returned, every row written and the database closed.
THEOREM ExitsClean == Spec => []ExitIsClean
<1>1. IInv => ExitIsClean
  BY ExitCleanInv
<1>. QED BY <1>1, ShutdownInvariant, PTL

=============================================================================
