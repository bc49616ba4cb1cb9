----------------------------- MODULE FlowStream -----------------------------
(***************************************************************************)
(* PumpFlowStream.js: the subscription to the trades of the market, with   *)
(* one active endpoint and the others on stand-by, and its class           *)
(* RegionConnection, one object per activation.                            *)
(*                                                                         *)
(* Steps are what the event loop runs between two of its tasks: a reply of *)
(* the network, a stream event, a timer, or a call of the runtime.  stop() *)
(* and setAmmMints() of an idle connection await nothing, so an activation *)
(* runs through to the connect() of the new client in one step.            *)
(*                                                                         *)
(* A connection is started once; current() of _connect is then its         *)
(* running.  Back-off delays, health fields and the duplicate filter are   *)
(* not modelled; a set of mints is the number of times it was changed.     *)
(***************************************************************************)
EXTENDS Integers, FiniteSets

CONSTANTS
    NEndpoints,   \* length of config.stream.endpoints
    Conns,        \* bound: connection objects that may exist at a time
    MaxSets       \* bound: changes of the set of AMM mints

Endpoints == 1..NEndpoints
None == 0       \* no endpoint
NoConn == "none"
Nothing == -1   \* no filter

ASSUME StreamAssumption ==
    /\ NEndpoints \in Nat \ {0}
    /\ IsFiniteSet(Conns) /\ Cardinality(Conns) > 1 /\ NoConn \notin Conns
    /\ MaxSets \in Nat

VARIABLES
    runs,       \* the stream: "IDLE", "UP", "STOPPED"
    active,     \* activeEndpointIndex + 1
    current,    \* this.connection
    failover,   \* endpoint the failoverTimer is set for
    wanted,     \* ammMints of the stream
    update,     \* updateTimer is set
    conn        \* Conns -> RegionConnection

vars == <<runs, active, current, failover, wanted, update, conn>>

\* step is what _connect awaits; wire is the gRPC stream, writing the request
\* whose callback is awaited, served the filter the server acknowledged; dated
\* says connectedAt or lastMessageAt is set, fresh that less than staleTimeoutMs
\* passed since.
Request == [version : Nat, mints : 0..MaxSets]
NoRequest == [version |-> 0, mints |-> 0]
Connection == [running : BOOLEAN, step : {"DONE", "CONNECT", "SUBSCRIBE", "WRITE"},
               wire : {"NONE", "OPEN", "ENDED", "CLOSED"},
               connected : BOOLEAN, notified : BOOLEAN,
               mints : 0..MaxSets, version : Nat, applied : Nat,
               writing : Request, served : {Nothing} \cup 0..MaxSets,
               dated : BOOLEAN, fresh : BOOLEAN]

Unused == [running |-> FALSE, step |-> "DONE", wire |-> "NONE",
           connected |-> FALSE, notified |-> FALSE,
           mints |-> 0, version |-> 0, applied |-> 0,
           writing |-> NoRequest, served |-> Nothing,
           dated |-> FALSE, fresh |-> FALSE]

TypeOK ==
    /\ runs \in {"IDLE", "UP", "STOPPED"}
    /\ active \in Endpoints \cup {None}
    /\ current \in Conns \cup {NoConn}
    /\ failover \in Endpoints \cup {None}
    /\ wanted \in 0..MaxSets
    /\ update \in BOOLEAN
    /\ conn \in [Conns -> Connection]

Init ==
    /\ runs = "IDLE" /\ active = None /\ current = NoConn /\ failover = None
    /\ wanted = 0 /\ update = FALSE
    /\ conn = [c \in Conns |-> Unused]

-----------------------------------------------------------------------------
(* Helpers *)

\* stop() of a connection.  A write that is still awaited then has no effect any
\* more; a pending connect or subscribe is discarded when it answers.
Halted(k) ==
    IF k.step \in {"CONNECT", "SUBSCRIBE"} THEN [k EXCEPT !.running = FALSE]
    ELSE Unused

\* Mutant: the list of endpoints is not wrapped around.
NextEndpointUnwrapped == active + 1

NextEndpoint == IF NEndpoints > 1 THEN (active % NEndpoints) + 1 ELSE active

\* Mutant: a connection that was not connected yet has nothing to report.
NotifyConnected(c, k) ==
    LET news == k.running /\ ~k.notified /\ k.connected
    IN  /\ conn' = [conn EXCEPT ![c] = IF news THEN [k EXCEPT !.notified = TRUE, !.connected = FALSE] ELSE k]
        /\ failover' = IF news /\ runs = "UP" /\ c = current /\ failover = None
                       THEN NextEndpoint ELSE failover

\* _notifyUnavailable of connection c, now k, and _scheduleFailover: the first
\* report of the active connection sets the timer, unless one is set.
Notify(c, k) ==
    LET news == k.running /\ ~k.notified
    IN  /\ conn' = [conn EXCEPT ![c] = IF news THEN [k EXCEPT !.notified = TRUE, !.connected = FALSE] ELSE k]
        /\ failover' = IF news /\ runs = "UP" /\ c = current /\ failover = None
                       THEN NextEndpoint ELSE failover

\* _queueSubscriptionUpdate: a running drain is joined.
Queued(k) ==
    IF k.connected /\ k.writing = NoRequest
    THEN [k EXCEPT !.writing = [version |-> k.version, mints |-> k.mints]] ELSE k

Told(k, mints) == [k EXCEPT !.mints = mints, !.version = @ + 1]

\* _activateEndpoint: the former connection is stopped before the new one is made.
Activate(e) ==
    \E c \in Conns :
        /\ c # current /\ conn[c] = Unused
        /\ current' = c /\ active' = e
        /\ conn' = [k \in Conns |->
                      CASE k = c -> [Told(Unused, wanted) EXCEPT !.running = TRUE, !.step = "CONNECT"]
                        [] k = current -> Halted(conn[k])
                        [] OTHER -> conn[k]]

-----------------------------------------------------------------------------
(* Replies of the network to _connect and to the subscription requests *)

ConnectOk(c) ==
    /\ conn[c].step = "CONNECT"
    /\ conn' = [conn EXCEPT ![c] = IF @.running THEN [@ EXCEPT !.step = "SUBSCRIBE"] ELSE Unused]
    /\ UNCHANGED <<runs, active, current, failover, wanted, update>>

\* connect() or subscribe() is refused.
ConnectFails(c) ==
    /\ conn[c].step \in {"CONNECT", "SUBSCRIBE"}
    /\ IF conn[c].running THEN Notify(c, [conn[c] EXCEPT !.step = "DONE"])
                          ELSE conn' = [conn EXCEPT ![c] = Unused] /\ UNCHANGED failover
    /\ UNCHANGED <<runs, active, current, wanted, update>>

Subscribed(k) ==
    Queued([k EXCEPT !.step = "WRITE", !.wire = "OPEN", !.connected = TRUE, !.version = @ + 1])

\* The listeners are attached and the first request is written.
SubscribeOk(c) ==
    /\ conn[c].step = "SUBSCRIBE"
    /\ conn' = [conn EXCEPT ![c] = IF @.running THEN Subscribed(@) ELSE Unused]
    /\ UNCHANGED <<runs, active, current, failover, wanted, update>>

\* End of _connect, also of a connection whose stream has ended meanwhile.
Up(k) ==
    IF k.step = "WRITE" /\ k.writing = NoRequest
    THEN [k EXCEPT !.step = "DONE", !.notified = FALSE, !.dated = TRUE, !.fresh = TRUE]
    ELSE k

Acknowledged(k) ==
    [k EXCEPT !.writing = NoRequest,
              !.served = IF k.wire = "OPEN" THEN k.writing.mints ELSE @]

\* Mutants of WriteOk: changes made during the write are not looked for, or
\* taken for written.
WriteOkOnce(c) ==
    LET k == conn[c]
        told == [Acknowledged(k) EXCEPT !.applied = k.writing.version]
    IN  /\ k.writing # NoRequest
        /\ conn' = [conn EXCEPT ![c] = Up(IF k.connected THEN told ELSE Acknowledged(k))]
        /\ UNCHANGED <<runs, active, current, failover, wanted, update>>

WriteOkLatest(c) ==
    LET k == conn[c]
        told == [Acknowledged(k) EXCEPT !.applied = k.version]
    IN  /\ k.writing # NoRequest
        /\ conn' = [conn EXCEPT ![c] = Up(IF k.connected THEN told ELSE Acknowledged(k))]
        /\ UNCHANGED <<runs, active, current, failover, wanted, update>>

\* One turn of _drainSubscriptionUpdates: the next request is written if the
\* mints were changed meanwhile.
WriteOk(c) ==
    LET k    == conn[c]
        told == [Acknowledged(k) EXCEPT !.applied = k.writing.version]
        next == CASE ~k.connected -> Acknowledged(k)
                  [] k.connected /\ k.writing.version = k.version -> told
                  [] OTHER -> Queued(told)
    IN  /\ k.writing # NoRequest
        /\ conn' = [conn EXCEPT ![c] = Up(next)]
        /\ UNCHANGED <<runs, active, current, failover, wanted, update>>

WriteFails(c) ==
    /\ conn[c].writing # NoRequest
    /\ Notify(c, [conn[c] EXCEPT !.writing = NoRequest, !.step = "DONE"])
    /\ UNCHANGED <<runs, active, current, wanted, update>>

\* error, end and close of the stream, of which several come in turn.
StreamEnds(c) ==
    /\ conn[c].wire \in {"OPEN", "ENDED"}
    /\ Notify(c, [conn[c] EXCEPT !.wire = IF @ = "OPEN" THEN "ENDED" ELSE "CLOSED"])
    /\ UNCHANGED <<runs, active, current, wanted, update>>

\* _handleMessage: trades are only accepted while connected.
Data(c) ==
    /\ conn[c].wire = "OPEN" /\ conn[c].served # Nothing
    /\ conn[c].running /\ conn[c].connected
    /\ conn' = [conn EXCEPT ![c].dated = TRUE, ![c].fresh = TRUE]
    /\ UNCHANGED <<runs, active, current, failover, wanted, update>>

-----------------------------------------------------------------------------
(* Timers *)

\* staleTimeoutMs passes without a trade.
Ages(c) ==
    /\ conn[c].fresh
    /\ conn' = [conn EXCEPT ![c].fresh = FALSE]
    /\ UNCHANGED <<runs, active, current, failover, wanted, update>>

\* _checkStale, unless the event loop was held up and the check is put off.
Stale(c) ==
    /\ runs = "UP" /\ c = current
    /\ conn[c].connected /\ conn[c].dated /\ ~conn[c].fresh
    /\ Notify(c, conn[c])
    /\ UNCHANGED <<runs, active, current, wanted, update>>

FailoverFires ==
    /\ failover # None
    /\ failover' = None
    /\ Activate(failover)
    /\ UNCHANGED <<runs, wanted, update>>

UpdateFires ==
    /\ update /\ update' = FALSE
    /\ conn' = IF current = NoConn THEN conn
               ELSE [conn EXCEPT ![current] = Queued(Told(@, wanted))]
    /\ UNCHANGED <<runs, active, current, failover, wanted>>

-----------------------------------------------------------------------------
(* Calls of the runtime *)

Start ==
    /\ runs = "IDLE" /\ runs' = "UP"
    /\ Activate(1)
    /\ UNCHANGED <<failover, wanted, update>>

\* setAmmMints with another set: the timer is set anew.
SetAmmMints ==
    /\ wanted < MaxSets
    /\ wanted' = wanted + 1 /\ update' = TRUE
    /\ UNCHANGED <<runs, active, current, failover, conn>>

Stop ==
    /\ runs = "UP" /\ runs' = "STOPPED"
    /\ active' = None /\ current' = NoConn /\ failover' = None /\ update' = FALSE
    /\ conn' = [c \in Conns |-> IF c = current THEN Halted(conn[c]) ELSE conn[c]]
    /\ UNCHANGED wanted

-----------------------------------------------------------------------------
ConnStep(c) ==
    \/ ConnectOk(c) \/ ConnectFails(c) \/ SubscribeOk(c) \/ WriteOk(c) \/ WriteFails(c)
    \/ StreamEnds(c) \/ Data(c) \/ Ages(c) \/ Stale(c)

Next ==
    \/ \E c \in Conns : ConnStep(c)
    \/ FailoverFires \/ UpdateFires
    \/ Start \/ SetAmmMints \/ Stop

Spec == Init /\ [][Next]_vars

\* Timers fire, and the watchdog is not held up at every check; whether trades
\* keep coming is left open (no fairness of Data or Ages).
TimerFairness ==
    /\ WF_vars(FailoverFires) /\ WF_vars(UpdateFires)
    /\ \A c \in Conns : SF_vars(Stale(c))

\* The network answers every request, and does not fail for ever.
NetworkFails == \E c \in Conns : ConnectFails(c) \/ WriteFails(c) \/ StreamEnds(c)
NetworkFairness ==
    /\ \A c \in Conns : WF_vars(ConnectOk(c)) /\ WF_vars(SubscribeOk(c)) /\ WF_vars(WriteOk(c))
    /\ <>[][~NetworkFails]_vars

FairSpec == Spec /\ TimerFairness /\ NetworkFairness

-----------------------------------------------------------------------------
(* Properties *)

\* At most one stream is open at a time, so that no trade is paid for and
\* counted twice (_activateEndpoint stops the former connection first).
OneSubscription == Cardinality({c \in Conns : conn[c].wire = "OPEN"}) <= 1

\* A dead active connection has a failover coming, also when its stream ended
\* while the first request was written and _connect took it for a good one.
DeadHasFailover ==
    runs = "UP" => /\ current # NoConn
                   /\ conn[current].step = "DONE" /\ ~conn[current].connected => failover # None

\* After stop() no late answer of the network brings a stream or a timer back.
StoppedIsQuiet ==
    runs = "STOPPED" => failover = None /\ \A c \in Conns : conn[c].wire # "OPEN"

\* A request counts as applied only if the server has this very set of mints,
\* whatever was changed while it was being written.
AppliedIsServed ==
    \A c \in Conns : conn[c].connected /\ conn[c].applied = conn[c].version
                     => conn[c].served = conn[c].mints

\* What the server has open is what the process believes: one stream at most, none
\* after a stop, and filtered by the mints that count as applied.
NetworkAsBelieved == OneSubscription /\ StoppedIsQuiet /\ AppliedIsServed

\* The set of mints the runtime wants is in the end the one the server filters by.
Serves == current # NoConn /\ conn[current].connected /\ conn[current].served = wanted
MintsAreServed == []<>(runs = "UP" => Serves)

\* An endpoint that sends no trade for staleTimeoutMs is left for the next one.
Silent == runs = "UP" /\ failover = None /\ ~conn[current].fresh
SilenceEnds == []<>~Silent

=============================================================================
