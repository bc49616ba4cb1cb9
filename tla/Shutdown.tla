------------------------------ MODULE Shutdown ------------------------------
(***************************************************************************)
(* Start and stop of the process: main(), the two layers of runtime/       *)
(* GracefulShutdown.js and the parts of the runtime they order.            *)
(*                                                                         *)
(* A signal may arrive at every await of the start.  It asks for a stop    *)
(* that runs a list of stages, one after the other; a stage that fails     *)
(* leaves the process alive, and the next signal goes on with that stage.  *)
(* What matters is what is still running when the rows in memory are       *)
(* drained and the database is closed: timers, trading tasks, lookups and  *)
(* workers of the observers, the child that serves the dashboard, and the  *)
(* rest of a start() that was still waiting for the network.               *)
(*                                                                         *)
(* One STOP_OBSERVERS stands for the stages of the observers, and the      *)
(* best-effort flush of the parser's quarantine file is left out.          *)
(***************************************************************************)
EXTENDS Integers, Sequences

CONSTANTS
    Tasks,        \* promises the trader may have pending
    Works,        \* lookups and workers of the observers
    Queues,       \* pendingTokenWrites, pendingSignalReturnUpdates, rawBuffer
    MaxRows,      \* bound on the batches that are queued for the database
    MaxStarts,    \* bound on the tasks and works that are started
    MaxSignals,   \* bound on SIGINT and SIGTERM
    MaxFails,     \* bound on the stages that fail
    MaxExits      \* bound on exits of the dashboard child nobody asked for

ASSUME BoundsAssumption ==
    {MaxRows, MaxStarts, MaxSignals, MaxFails, MaxExits} \subseteq Nat

VARIABLES
    main,           \* where main() is
    stopRequested,  \* main's flag, set by the handler of a signal
    startup,        \* the child that serves the page shown while starting
    request,        \* createSignalShutdown: where the pending stop is
    stopping,       \* the runtime's flag
    status, next, begun,  \* GracefulShutdown: state, stage, and whether it is awaited
    timers,         \* intervals and timeouts that are set
    halted,         \* stages whose component has its own stopping flag set
    stream,         \* the subscription
    tasks, awaited, \* pending of the trader, and what its stop() awaits
    works,          \* what the observers wait for or run in a worker
    child, starting,  \* the dashboard process; whether server.start() is pending
    rows,           \* batches in memory
    db,             \* the connection; NONE until createRuntime() has opened it
    left            \* bounds not used yet

mainVars == <<main, stopRequested, startup, request>>
seqVars == <<stopping, status, next, begun, halted>>
partVars == <<timers, stream, tasks, awaited, works, child, starting>>
vars == <<mainVars, seqVars, partVars, rows, db, left>>

-----------------------------------------------------------------------------
Stages == <<"STOP_MAINTENANCE", "SETTLE_DASHBOARD_START", "STOP_STREAM", "SETTLE_TRADING",
            "STOP_OBSERVERS", "DRAIN_DATABASE", "STOP_DASHBOARD", "CLOSE_DATABASE">>

Current == Stages[next]
Running(s) == status = "STOPPING" /\ begun /\ Current = s
Drained == \A q \in Queues : rows[q] = 0
Producing == stream \in {"CONNECTING", "ON"}

\* main's variable of that name: assigned when createRuntime() returns.
HasRuntime == db # "NONE" /\ main # "THREW"

Init ==
    /\ main = "LAUNCH" /\ stopRequested = FALSE /\ startup = FALSE /\ request = "NONE"
    /\ stopping = FALSE /\ status = "IDLE" /\ next = 1 /\ begun = FALSE /\ halted = {}
    /\ timers = {} /\ stream = "OFF" /\ tasks = {} /\ awaited = {} /\ works = {}
    /\ child = "NONE" /\ starting = FALSE
    /\ rows = [q \in Queues |-> 0] /\ db = "NONE"
    /\ left = [rows |-> MaxRows, starts |-> MaxStarts, signals |-> MaxSignals,
               fails |-> MaxFails, exits |-> MaxExits]

Spend(what) == left[what] > 0 /\ left' = [left EXCEPT ![what] = @ - 1]

-----------------------------------------------------------------------------
(* main() and runtime.start() *)

\* The startup page answers, or the start goes on without it.
Launch ==
    /\ main = "LAUNCH" /\ main' = "YIELD"
    /\ startup' \in BOOLEAN
    /\ UNCHANGED <<stopRequested, request, seqVars, partVars, rows, db, left>>

\* createRuntime() is synchronous: it opens the store, whose timer is set at
\* once, and restores the labels, whose patches wait in memory when the database
\* is locked.  It may throw before the store is open, or after: main() then has
\* no runtime, and the store and the trader it has started stay as they are.
Restore ==
    /\ main = "YIELD"
    /\ \/ /\ stopRequested
          /\ main' = "DONE"
          /\ UNCHANGED <<startup, timers, rows, db, left>>
       \/ /\ ~stopRequested
          /\ main' = "THREW" /\ startup' = FALSE
          /\ UNCHANGED <<timers, rows, db, left>>
       \/ /\ ~stopRequested
          /\ db' = "OPEN" /\ timers' = {"FLUSH"}
          /\ \/ main' = "SWAP" /\ UNCHANGED startup
             \/ main' = "THREW" /\ startup' = FALSE
          /\ \/ UNCHANGED <<rows, left>>
             \/ /\ Spend("rows")
                /\ \E q \in Queues : rows' = [rows EXCEPT ![q] = @ + 1]
    /\ UNCHANGED <<stopRequested, request, seqVars>>
    /\ UNCHANGED <<stream, tasks, awaited, works, child, starting>>

Swap ==
    /\ main = "SWAP" /\ main' = "YIELD AGAIN"
    /\ startup' = FALSE
    /\ UNCHANGED <<stopRequested, request, seqVars, partVars, rows, db, left>>

\* Unless a signal has come meanwhile, runtime.start() begins with the dashboard.
StartRuntime ==
    /\ main = "YIELD AGAIN"
    /\ IF stopRequested
       THEN main' = "DONE" /\ UNCHANGED <<child, starting>>
       ELSE main' = "START DASHBOARD" /\ child' = "STARTING" /\ starting' = TRUE
    /\ UNCHANGED <<stopRequested, startup, request, seqVars, rows, db, left>>
    /\ UNCHANGED <<timers, stream, tasks, awaited, works>>

\* The child answers READY: the publish timer is set, and unless a stop has begun
\* the maintenance timer too, and the stream is started.
DashboardUp ==
    /\ starting /\ child = "STARTING"
    /\ starting' = FALSE /\ child' = "UP"
    /\ IF stopping
       THEN /\ main' = "DONE" /\ timers' = timers \cup {"PUBLISH"}
            /\ UNCHANGED stream
       ELSE /\ main' = "START STREAM" /\ timers' = timers \cup {"PUBLISH", "MAINTENANCE"}
            /\ stream' = "CONNECTING"
    /\ UNCHANGED <<stopRequested, startup, request, seqVars, tasks, awaited, works, rows, db, left>>

\* It exits, or does not answer in time and is killed: main() rejects.
DashboardFails ==
    /\ starting /\ Spend("exits")
    /\ starting' = FALSE /\ child' \in {"NONE", "KILLED"} /\ main' = "FAILED"
    /\ UNCHANGED <<stopRequested, startup, request, seqVars, rows, db>>
    /\ UNCHANGED <<timers, stream, tasks, awaited, works>>

\* Mutant: what follows stream.start() runs after a stop as well.
StreamStartedAnyway ==
    /\ main = "START STREAM" /\ main' = "DONE"
    /\ stream' = IF stream = "CONNECTING" THEN "ON" ELSE stream
    /\ timers' = timers \cup {"SAMPLER"}
    /\ UNCHANGED <<stopRequested, startup, request, seqVars, rows, db, left>>
    /\ UNCHANGED <<tasks, awaited, works, child, starting>>

\* stream.start() answers, perhaps long after stop() has closed the stream.
StreamStarted ==
    /\ main = "START STREAM" /\ main' = "DONE"
    /\ stream' = IF stream = "CONNECTING" THEN "ON" ELSE stream
    /\ timers' = IF stopping THEN timers ELSE timers \cup {"SAMPLER"}
    /\ UNCHANGED <<stopRequested, startup, request, seqVars, rows, db, left>>
    /\ UNCHANGED <<tasks, awaited, works, child, starting>>

-----------------------------------------------------------------------------
(* What the runtime does meanwhile *)

\* A transaction or a tick of the maintenance timer leaves rows in memory.
RowsArrive ==
    /\ \/ stream = "ON" /\ ~stopping
       \/ "MAINTENANCE" \in timers
    /\ Spend("rows")
    /\ \E q \in Queues : rows' = [rows EXCEPT ![q] = @ + 1]
    /\ UNCHANGED <<mainVars, seqVars, partVars, db>>

FlushFires ==
    /\ "FLUSH" \in timers
    /\ \E q \in Queues : rows[q] > 0 /\ rows' = [rows EXCEPT ![q] = 0]
    /\ UNCHANGED <<mainVars, seqVars, partVars, db, left>>

\* Mutant: a task that is still running queues another one during a stop.
TaskStartsAnyway(t) ==
    /\ db # "NONE" /\ t \notin tasks
    /\ "SETTLE_TRADING" \notin halted \/ tasks # {}
    /\ Spend("starts")
    /\ tasks' = tasks \cup {t}
    /\ UNCHANGED <<mainVars, seqVars, rows, db, timers, stream, awaited, works, child, starting>>

\* An entry, an exit, a recovery, a receipt: asked for by a trade, a timer, the
\* restore or another task.
TaskStarts(t) ==
    /\ db # "NONE" /\ t \notin tasks
    /\ "SETTLE_TRADING" \notin halted
    /\ Spend("starts")
    /\ tasks' = tasks \cup {t}
    /\ UNCHANGED <<mainVars, seqVars, rows, db, timers, stream, awaited, works, child, starting>>

TaskEnds(t) ==
    /\ t \in tasks /\ tasks' = tasks \ {t}
    /\ UNCHANGED <<mainVars, seqVars, rows, db, left, timers, stream, awaited, works, child, starting>>

WorkStarts(w) ==
    /\ db # "NONE" /\ w \notin works
    /\ "STOP_OBSERVERS" \notin halted
    /\ Spend("starts")
    /\ works' = works \cup {w}
    /\ UNCHANGED <<mainVars, seqVars, rows, db, timers, stream, tasks, awaited, child, starting>>

WorkEnds(w) ==
    /\ w \in works /\ works' = works \ {w}
    /\ UNCHANGED <<mainVars, seqVars, rows, db, left, timers, stream, tasks, awaited, child, starting>>

\* The dashboard process exits: killed, asked to, or by itself.  One that had
\* answered, or was being restarted, is started again after a delay.
ChildExits ==
    /\ child # "NONE" /\ ~starting
    /\ IF child = "KILLED" \/ "STOP_DASHBOARD" \in halted
       THEN UNCHANGED <<timers, left>>
       ELSE Spend("exits") /\ timers' = timers \cup {"RESTART"}
    /\ child' = "NONE"
    /\ UNCHANGED <<mainVars, seqVars, rows, db, stream, tasks, awaited, works, starting>>

RestartFires ==
    /\ "RESTART" \in timers
    /\ timers' = timers \ {"RESTART"} /\ child' = "STARTING"
    /\ UNCHANGED <<mainVars, seqVars, rows, db, left, stream, tasks, awaited, works, starting>>

Restarted ==
    /\ ~starting /\ child = "STARTING" /\ child' = "UP"
    /\ UNCHANGED <<mainVars, seqVars, rows, db, left, timers, stream, tasks, awaited, works, starting>>

-----------------------------------------------------------------------------
(* The signal *)

Pending == request \in {"AWAIT STARTUP", "STOP STARTUP PAGE", "STAGES"}

\* Mutant: the stop always waits for the start to be over.
SignalAwaitsStart ==
    /\ request # "EXITED" /\ Spend("signals")
    /\ stopRequested' = TRUE
    /\ request' = IF Pending THEN request ELSE "AWAIT STARTUP"
    /\ UNCHANGED <<main, startup, seqVars, partVars, rows, db>>

\* A signal during a stop joins it; one after a failed stop asks for another.
Signal ==
    /\ request # "EXITED" /\ Spend("signals")
    /\ stopRequested' = TRUE
    /\ request' = IF Pending THEN request
                  ELSE IF HasRuntime THEN "STOP STARTUP PAGE" ELSE "AWAIT STARTUP"
    /\ UNCHANGED <<main, startup, seqVars, partVars, rows, db>>

StartupFinished ==
    /\ request = "AWAIT STARTUP" /\ main \in {"DONE", "FAILED", "THREW"}
    /\ request' = "STOP STARTUP PAGE"
    /\ UNCHANGED <<main, stopRequested, startup, seqVars, partVars, rows, db, left>>

\* Then the runtime is stopped, if there is one.
StartupPageStopped ==
    /\ request = "STOP STARTUP PAGE"
    /\ startup' = FALSE
    /\ IF HasRuntime
       THEN request' = "STAGES" /\ stopping' = TRUE /\ status' = "STOPPING"
       ELSE request' = "EXITED" /\ UNCHANGED <<stopping, status>>
    /\ UNCHANGED <<main, stopRequested, next, begun, halted, partVars, rows, db, left>>

-----------------------------------------------------------------------------
(* The stages *)

ClearedBy(stage) ==
    CASE stage = "STOP_MAINTENANCE" -> {"MAINTENANCE"}
      [] stage \in {"DRAIN_DATABASE", "CLOSE_DATABASE"} -> {"FLUSH", "SAMPLER"}
      [] stage = "STOP_DASHBOARD" -> {"PUBLISH", "RESTART"}
      [] OTHER -> {}

\* The synchronous part of a stage: timers are cleared, flags set, the
\* subscription closed, and the promises to wait for collected.
StageBegins ==
    /\ status = "STOPPING" /\ ~begun /\ next <= Len(Stages)
    /\ begun' = TRUE
    /\ timers' = timers \ ClearedBy(Current)
    /\ halted' = halted \cup ({Current} \cap {"SETTLE_TRADING", "STOP_OBSERVERS", "STOP_DASHBOARD"})
    /\ stream' = IF Current = "STOP_STREAM" THEN "CLOSED" ELSE stream
    /\ awaited' = IF Current = "SETTLE_TRADING" THEN tasks ELSE awaited
    /\ UNCHANGED <<mainVars, stopping, status, next, tasks, works, child, starting, rows, db, left>>

\* Mutant: an empty queue is flushed as well.
DrainBatchBlind ==
    /\ Running("DRAIN_DATABASE") /\ ~Drained
    /\ \E q \in Queues : rows' = [rows EXCEPT ![q] = @ - 1]
    /\ UNCHANGED <<mainVars, seqVars, partVars, db, left>>

\* One batch of one queue; a queue that is locked is tried again.
DrainBatch ==
    /\ Running("DRAIN_DATABASE")
    /\ \E q \in Queues : rows[q] > 0 /\ rows' = [rows EXCEPT ![q] = @ - 1]
    /\ UNCHANGED <<mainVars, seqVars, partVars, db, left>>

Settled ==
    CASE Current = "SETTLE_DASHBOARD_START" -> ~starting
      [] Current = "SETTLE_TRADING" -> awaited \cap tasks = {}
      [] Current = "STOP_OBSERVERS" -> works = {}
      [] Current = "DRAIN_DATABASE" -> Drained
      [] Current = "STOP_DASHBOARD" -> child = "NONE"
      [] OTHER -> TRUE

\* close() flushes what is left; it is refused when anything stays pending.
StageEnds ==
    /\ status = "STOPPING" /\ begun /\ Settled
    /\ begun' = FALSE /\ next' = next + 1
    /\ IF Current = "CLOSE_DATABASE"
       THEN rows' = [q \in Queues |-> 0] /\ db' = "CLOSED" /\ status' = "STOPPED"
       ELSE UNCHANGED <<rows, db, status>>
    /\ UNCHANGED <<mainVars, stopping, halted, partVars, left>>

CanFail == {"STOP_STREAM", "SETTLE_TRADING", "STOP_OBSERVERS", "DRAIN_DATABASE",
            "STOP_DASHBOARD", "CLOSE_DATABASE"}

\* Mutant: the process exits although the stop has failed.
StageFailsFatally ==
    /\ status = "STOPPING" /\ begun /\ Current \in CanFail /\ Spend("fails")
    /\ begun' = FALSE /\ status' = "STOP_FAILED" /\ request' = "EXITED"
    /\ UNCHANGED <<main, stopRequested, startup, stopping, next, halted, partVars, rows, db>>

\* Evidence that cannot be saved, a worker that does not terminate, a drain that
\* times out, an exit that is not confirmed: the process stays, for another try.
StageFails ==
    /\ status = "STOPPING" /\ begun /\ Current \in CanFail /\ Spend("fails")
    /\ begun' = FALSE /\ status' = "STOP_FAILED" /\ request' = "FAILED"
    /\ UNCHANGED <<main, stopRequested, startup, stopping, next, halted, partVars, rows, db>>

Exit ==
    /\ request = "STAGES" /\ status = "STOPPED"
    /\ request' = "EXITED"
    /\ UNCHANGED <<main, stopRequested, startup, seqVars, partVars, rows, db, left>>

\* A start that failed and that nobody stops: every timer is unref'd but that of
\* the maintenance, so the process ends when nothing else keeps it.
RunsDry ==
    /\ request = "NONE" /\ main \in {"FAILED", "THREW"}
    /\ "MAINTENANCE" \notin timers /\ ~Producing
    /\ tasks = {} /\ works = {} /\ child = "NONE" /\ ~startup
    /\ request' = "ENDED"
    /\ UNCHANGED <<main, stopRequested, startup, seqVars, partVars, rows, db, left>>

-----------------------------------------------------------------------------
Alive == request \notin {"EXITED", "ENDED"}

MainStep == Launch \/ Restore \/ Swap \/ StartRuntime
StopStep == StartupFinished \/ StartupPageStopped \/ StageBegins \/ DrainBatch \/ StageEnds \/ Exit

Next ==
    /\ Alive
    /\ \/ MainStep \/ DashboardUp \/ DashboardFails \/ StreamStarted
       \/ RowsArrive \/ FlushFires
       \/ \E t \in Tasks : TaskStarts(t) \/ TaskEnds(t)
       \/ \E w \in Works : WorkStarts(w) \/ WorkEnds(w)
       \/ ChildExits \/ RestartFires \/ Restarted
       \/ Signal \/ StopStep \/ StageFails \/ RunsDry

Spec == Init /\ [][Next]_vars

\* main() and a stop go on when what they await has settled; the start of the
\* dashboard has a timeout, tasks and aborted lookups end, a killed child exits.
\* Nothing is assumed of the network: stream.start() may never answer.
FairSpec ==
    /\ Spec
    /\ WF_vars(MainStep) /\ WF_vars(DashboardUp) /\ WF_vars(StopStep)
    /\ \A t \in Tasks : WF_vars(TaskEnds(t))
    /\ \A w \in Works : WF_vars(WorkEnds(w))
    /\ WF_vars("STOP_DASHBOARD" \in halted /\ ChildExits)

-----------------------------------------------------------------------------
(* Properties *)

\* Every variable keeps its type: no stage is run past the last, and no part
\* gets into a state start() and stop() do not know.
TypeOK ==
    /\ main \in {"LAUNCH", "YIELD", "SWAP", "YIELD AGAIN", "START DASHBOARD", "START STREAM",
                 "DONE", "FAILED", "THREW"}
    /\ stopRequested \in BOOLEAN /\ startup \in BOOLEAN /\ stopping \in BOOLEAN
    /\ request \in {"NONE", "AWAIT STARTUP", "STOP STARTUP PAGE", "STAGES", "FAILED", "EXITED",
                    "ENDED"}
    /\ status \in {"IDLE", "STOPPING", "STOP_FAILED", "STOPPED"}
    /\ next \in 1 .. Len(Stages) + 1 /\ begun \in BOOLEAN
    /\ halted \subseteq {"SETTLE_TRADING", "STOP_OBSERVERS", "STOP_DASHBOARD"}
    /\ timers \subseteq {"MAINTENANCE", "FLUSH", "SAMPLER", "PUBLISH", "RESTART"}
    /\ stream \in {"OFF", "CONNECTING", "ON", "CLOSED"}
    /\ tasks \subseteq Tasks /\ awaited \subseteq Tasks /\ works \subseteq Works
    /\ child \in {"NONE", "STARTING", "UP", "KILLED"} /\ starting \in BOOLEAN
    /\ rows \in [Queues -> 0 .. MaxRows] /\ db \in {"NONE", "OPEN", "CLOSED"}
    /\ left \in [rows : 0 .. MaxRows, starts : 0 .. MaxStarts, signals : 0 .. MaxSignals,
                 fails : 0 .. MaxFails, exits : 0 .. MaxExits]

\* Once the drain of the database has begun nothing that writes is running: not
\* the maintenance timer, the subscription, a task of the trader, a lookup or
\* worker of an observer, nor a start() that would set them off
\* (drainPendingWrites: "Stop all upstream producers before calling").
DrainIsUndisturbed ==
    next > 6 \/ (next = 6 /\ begun) =>
        /\ "MAINTENANCE" \notin timers /\ ~Producing /\ ~starting
        /\ tasks = {} /\ works = {}

\* When the connection is closed no row is left in memory, and no timer, task,
\* worker or child that would use it is alive, whatever answers later.
ClosedIsQuiet ==
    db = "CLOSED" => /\ Drained /\ timers = {} /\ tasks = {} /\ works = {}
                     /\ ~Producing /\ child = "NONE"

\* A signal ends the process only with both child processes gone and, when main()
\* has a runtime to stop, with every row written and the database closed.  (After
\* a createRuntime() that threw there is none: what it had opened is left to the
\* end of the process, see the README.)
ExitIsClean ==
    request = "EXITED" => /\ ~startup /\ child = "NONE"
                          /\ HasRuntime => Drained /\ db = "CLOSED"

\* A stop is answered: the process exits or says which stage failed, also when
\* the signal arrives during the start and the network never answers.
StopIsAnswered == Pending ~> ~Pending

=============================================================================
