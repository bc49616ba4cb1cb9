-------------------------- MODULE FlowStreamProofs --------------------------
(***************************************************************************)
(* Proofs about FlowStream, for every number of endpoints, of connection   *)
(* objects and of changes of the mints.                                    *)
(*                                                                         *)
(* The argument: only the current connection is running, a connection that *)
(* is not running has no stream, and what a running one says of itself     *)
(* (connected, applied, the request being written) is bound to its stream  *)
(* and its version.  An end that is reported, or that _connect overlooked, *)
(* leaves the failover timer set.                                          *)
(***************************************************************************)
EXTENDS FlowStream, FiniteSetTheorems, TLAPS

Waits(k) == k.step \in {"CONNECT", "SUBSCRIBE"}

\* What holds of a single connection object, whichever it is.
Shape(k) ==
    /\ Waits(k) => k.wire = "NONE" /\ ~k.connected /\ ~k.notified /\ k.writing = NoRequest
    /\ ~k.running => k.wire = "NONE" /\ ~k.connected /\ k.writing = NoRequest
    /\ k.connected => k.wire = "OPEN" /\ ~k.notified

\* Versions: what was applied or is being written is not newer than the mints.
Requests(k) ==
    /\ k.applied <= k.version
    /\ k.writing # NoRequest => k.writing.version <= k.version
    /\ k.writing # NoRequest /\ k.writing.version = k.version => k.writing.mints = k.mints

Versions(k) ==
    /\ Requests(k)
    /\ k.connected /\ k.applied = k.version => k.served = k.mints

Sound(k) == k \in Connection /\ Shape(k) /\ Versions(k)

Owner ==
    /\ (runs = "UP") <=> (current # NoConn)
    /\ current # NoConn => active \in Endpoints /\ conn[current].running
    /\ \A c \in Conns : c # current => ~conn[c].running
    /\ runs # "UP" => failover = None

\* The end of the current connection was reported, or is seen in its state.
Lost(k) == k.notified \/ (~k.connected /\ ~Waits(k))
Watched == current # NoConn => (Lost(conn[current]) => failover # None)

IInv == TypeOK /\ (\A c \in Conns : Sound(conn[c])) /\ Owner /\ Watched

-----------------------------------------------------------------------------
(* One connection *)

LEMMA ToldType ==
    ASSUME NEW k \in Connection, NEW mints \in 0..MaxSets
    PROVE  Told(k, mints) \in Connection
<1>1. k.version + 1 \in Nat
  BY DEF Connection
<1>2. [k EXCEPT !.mints = mints] \in Connection
  BY DEF Connection
<1>3. [[k EXCEPT !.mints = mints] EXCEPT !.version = k.version + 1] \in Connection
  BY <1>1, <1>2 DEF Connection
<1>. QED BY <1>3 DEF Told, Connection

LEMMA UnusedSound == Sound(Unused) /\ ~Unused.running
<1>1. 0 \in 0..MaxSets /\ NoRequest \in Request
  BY StreamAssumption DEF NoRequest, Request
<1>2. Unused \in Connection
  BY <1>1 DEF Unused, Connection
<1>3. Shape(Unused) /\ Versions(Unused)
  BY DEF Unused, Shape, Versions, Requests, Waits
<1>. QED BY <1>2, <1>3 DEF Sound, Unused

\* An object made by an activation.
Fresh(mints) == [Told(Unused, mints) EXCEPT !.running = TRUE, !.step = "CONNECT"]

LEMMA FreshSound ==
    ASSUME NEW mints \in 0..MaxSets
    PROVE  Sound(Fresh(mints)) /\ Fresh(mints).running /\ ~Lost(Fresh(mints))
<1>1. Unused \in Connection
  BY UnusedSound DEF Sound
<1>2. Told(Unused, mints) \in Connection
  BY <1>1, ToldType
<1>4. Fresh(mints) \in Connection
  BY <1>2 DEF Fresh, Connection
<1>3. /\ Fresh(mints).version = 1 /\ Fresh(mints).applied = 0
      /\ Fresh(mints).running /\ Fresh(mints).step = "CONNECT" /\ Fresh(mints).wire = "NONE"
      /\ ~Fresh(mints).connected /\ ~Fresh(mints).notified
      /\ Fresh(mints).writing = NoRequest
  BY DEF Fresh, Told, Unused
<1>. QED BY <1>3, <1>4 DEF Sound, Shape, Versions, Requests, Waits, Lost

LEMMA HaltedSound ==
    ASSUME NEW k, Sound(k)
    PROVE  Sound(Halted(k)) /\ ~Halted(k).running
<1>1. CASE Waits(k)
  BY <1>1 DEF Halted, Waits, Sound, Connection, Shape, Versions, Requests
<1>2. CASE ~Waits(k)
  BY <1>2, UnusedSound DEF Halted, Waits
<1>. QED BY <1>1, <1>2

\* _queueSubscriptionUpdate leaves everything but the request as it is.
LEMMA QueuedSound ==
    ASSUME NEW k, Sound(k), k.running
    PROVE  /\ Sound(Queued(k)) /\ Queued(k).running
           /\ Queued(k).connected = k.connected /\ Queued(k).step = k.step
           /\ Queued(k).notified = k.notified
BY DEF Queued, Sound, Connection, Request, Shape, Versions, Requests, NoRequest, Waits

LEMMA ToldSound ==
    ASSUME NEW k, Sound(k), NEW mints \in 0..MaxSets
    PROVE  /\ Sound(Told(k, mints)) /\ Told(k, mints).running = k.running
           /\ Told(k, mints).connected = k.connected /\ Told(k, mints).step = k.step
           /\ Told(k, mints).notified = k.notified
<1>1. k \in Connection
  BY DEF Sound
<1>2. Told(k, mints) \in Connection
  BY <1>1, ToldType
<1>3. /\ Told(k, mints).version = k.version + 1 /\ Told(k, mints).applied = k.applied
      /\ Told(k, mints).writing = k.writing
      /\ Told(k, mints).running = k.running /\ Told(k, mints).step = k.step
      /\ Told(k, mints).wire = k.wire /\ Told(k, mints).connected = k.connected
      /\ Told(k, mints).notified = k.notified
  BY <1>1 DEF Told, Connection
<1>4. Shape(Told(k, mints))
  BY <1>3 DEF Sound, Shape, Waits
<1>5. k.applied < k.version + 1 /\ (k.writing # NoRequest => k.writing.version < k.version + 1)
  BY <1>1 DEF Sound, Versions, Requests, Connection, Request
<1>6. k.version \in Nat /\ k.applied \in Nat /\ k.writing.version \in Nat
  BY <1>1 DEF Connection, Request
<1>7. Versions(Told(k, mints))
  BY <1>3, <1>5, <1>6 DEF Versions, Requests
<1>. QED BY <1>2, <1>3, <1>4, <1>7 DEF Sound

LEMMA UpSound ==
    ASSUME NEW k, Sound(k), k.running, ~Waits(k)
    PROVE  Sound(Up(k)) /\ Up(k).running /\ ~Waits(Up(k)) /\ Up(k).connected = k.connected
BY DEF Up, Sound, Connection, Request, Shape, Versions, Requests, NoRequest, Waits

-----------------------------------------------------------------------------
(* One step of one connection *)

LEMMA NextEndpointType == active \in Endpoints => NextEndpoint \in Endpoints
BY StreamAssumption DEF NextEndpoint, Endpoints

\* A step of connection c alone, which starts and stops nothing.
LEMMA OneMoves ==
    ASSUME IInv, NEW c \in Conns, NEW k,
           conn' = [conn EXCEPT ![c] = k], Sound(k), k.running = conn[c].running,
           UNCHANGED <<runs, active, current>>,
           wanted' \in 0..MaxSets, update' \in BOOLEAN,
           failover' \in Endpoints \cup {None},
           runs # "UP" => failover' = None,
           failover # None => failover' # None,
           c = current /\ Lost(k) => failover' # None
    PROVE  IInv'
<1>1. conn \in [Conns -> Connection] /\ k \in Connection
  BY DEF IInv, TypeOK, Sound
<1>2. /\ conn' \in [Conns -> Connection]
      /\ conn'[c] = k
      /\ \A d \in Conns : d # c => conn'[d] = conn[d]
  BY <1>1
<1>3. TypeOK'
  BY <1>2 DEF IInv, TypeOK
<1>4. (\A d \in Conns : Sound(conn[d]))'
  <2>. SUFFICES ASSUME NEW d \in Conns PROVE Sound(conn'[d])
    BY DEF Sound, Shape, Versions, Requests, Waits
  <2>1. CASE d = c
    BY <2>1, <1>2
  <2>2. CASE d # c
    BY <2>2, <1>2 DEF IInv
  <2>. QED BY <2>1, <2>2
<1>5. \A d \in Conns : conn'[d].running = conn[d].running
  BY <1>2
<1>6. current # NoConn => current \in Conns
  BY DEF IInv, TypeOK
<1>7. Owner'
  BY <1>5, <1>6 DEF IInv, Owner
<1>8. Watched'
  <2>. SUFFICES ASSUME current # NoConn, Lost(conn'[current]) PROVE failover' # None
    BY DEF Watched, Lost, Waits
  <2>1. CASE c = current
    BY <2>1, <1>2
  <2>2. CASE c # current
    BY <2>2, <1>2, <1>6 DEF IInv, Watched
  <2>. QED BY <2>1, <2>2
<1>. QED BY <1>3, <1>4, <1>7, <1>8 DEF IInv

\* Such a step without a report.
LEMMA QuietMoves ==
    ASSUME IInv, NEW c \in Conns, NEW k,
           conn' = [conn EXCEPT ![c] = k], Sound(k), k.running = conn[c].running,
           Lost(k) => ~k.running \/ Lost(conn[c]),
           UNCHANGED <<runs, active, current, failover, wanted, update>>
    PROVE  IInv'
<1>1. current = c => conn[c].running
  BY StreamAssumption DEF IInv, Owner
<1>2. c = current /\ Lost(k) => failover' # None
  BY <1>1, StreamAssumption DEF IInv, Watched
<1>. QED BY <1>2, OneMoves DEF IInv, TypeOK, Owner

\* Such a step with a report, of a connection that awaits no connect.
LEMMA NotifyMoves ==
    ASSUME IInv, NEW c \in Conns, NEW k,
           Notify(c, k), k \in Connection, Requests(k),
           k.running = conn[c].running, k.notified = conn[c].notified,
           k.running => ~Waits(k), ~k.running \/ k.notified => Sound(k),
           UNCHANGED <<runs, active, current, wanted, update>>
    PROVE  IInv'
<1>. DEFINE news == k.running /\ ~k.notified
            told == IF news THEN [k EXCEPT !.notified = TRUE, !.connected = FALSE] ELSE k
            moved == news /\ runs = "UP" /\ c = current /\ failover = None
<1>1. conn' = [conn EXCEPT ![c] = told] /\ failover' = IF moved THEN NextEndpoint ELSE failover
  BY DEF Notify
<1>3. [k EXCEPT !.notified = TRUE, !.connected = FALSE] \in Connection
  BY DEF Connection
<1>4. Sound(told) /\ told.running = k.running
  <2>1. CASE news
    <3>. DEFINE t == [k EXCEPT !.notified = TRUE, !.connected = FALSE]
    <3>1. /\ t.step = k.step /\ t.wire = k.wire /\ t.running = k.running /\ t.writing = k.writing
          /\ t.version = k.version /\ t.applied = k.applied /\ t.mints = k.mints
          /\ t.served = k.served /\ ~t.connected
      BY DEF Connection
    <3>2. Shape(t) /\ Versions(t)
      BY <3>1, <2>1 DEF Shape, Versions, Requests, Waits
    <3>. QED BY <2>1, <3>1, <3>2, <1>3 DEF Sound
  <2>2. CASE ~news
    BY <2>2
  <2>. QED BY <2>1, <2>2
<1>5. c = current => runs = "UP" /\ conn[c].running /\ active \in Endpoints
  BY StreamAssumption DEF IInv, Owner
<1>6. None \notin Endpoints
  BY DEF None, Endpoints
<1>7. moved => NextEndpoint \in Endpoints
  BY <1>5, NextEndpointType
<1>8. c = current => failover' # None
  <2>. SUFFICES ASSUME c = current PROVE failover' # None
    OBVIOUS
  <2>1. CASE news
    BY <2>1, <1>1, <1>5, <1>6, <1>7
  <2>2. CASE ~news
    <3>1. conn[c].notified
      BY <2>2, <1>5
    <3>2. failover # None
      BY <3>1, StreamAssumption DEF IInv, Watched, Lost
    <3>. QED BY <3>2, <2>2, <1>1
  <2>. QED BY <2>1, <2>2
<1>9. failover' \in Endpoints \cup {None} /\ (failover # None => failover' # None)
  BY <1>1, <1>6, <1>7 DEF IInv, TypeOK
<1>10. runs # "UP" => failover' = None
  BY <1>1 DEF IInv, Owner
<1>. HIDE DEF told, news, moved
<1>11. conn' = [conn EXCEPT ![c] = told] /\ told.running = conn[c].running
  BY <1>1, <1>4
<1>. QED BY <1>4, <1>8, <1>9, <1>10, <1>11, OneMoves DEF IInv, TypeOK

-----------------------------------------------------------------------------
(* Replies of the network *)

LEMMA ConnFacts ==
    ASSUME IInv, NEW c \in Conns
    PROVE  conn[c] \in Connection /\ Sound(conn[c]) /\ Shape(conn[c]) /\ Versions(conn[c]) /\ Requests(conn[c])
BY DEF IInv, Sound, Versions

LEMMA DiscardInv ==
    ASSUME IInv, NEW c \in Conns, ~conn[c].running, conn' = [conn EXCEPT ![c] = Unused],
           UNCHANGED <<runs, active, current, failover, wanted, update>>
    PROVE  IInv'
<1>1. conn[c].running \in BOOLEAN /\ Unused.running = FALSE
  BY ConnFacts DEF Connection, Unused
<1>2. Sound(Unused) /\ Unused.running = conn[c].running
  BY <1>1, UnusedSound
<1>. QED BY <1>2, QuietMoves

LEMMA ConnectOkInv == ASSUME IInv, NEW c \in Conns, ConnectOk(c) PROVE IInv'
<1>. DEFINE k == [conn[c] EXCEPT !.step = "SUBSCRIBE"]
<1>1. CASE conn[c].running
  <2>1. conn' = [conn EXCEPT ![c] = k]
    BY <1>1 DEF ConnectOk
  <2>2. /\ k \in Connection /\ k.running = conn[c].running
        /\ k.connected = conn[c].connected /\ k.notified = conn[c].notified
        /\ k.wire = conn[c].wire /\ k.writing = conn[c].writing /\ k.step = "SUBSCRIBE"
        /\ k.version = conn[c].version /\ k.applied = conn[c].applied
        /\ k.mints = conn[c].mints /\ k.served = conn[c].served
    BY ConnFacts DEF Connection
  <2>3. Sound(k) /\ ~Lost(k)
    BY <2>2, ConnFacts DEF Sound, Shape, Versions, Requests, Waits, ConnectOk, Lost
  <2>. HIDE DEF k
  <2>. QED BY <2>1, <2>2, <2>3, QuietMoves DEF ConnectOk
<1>2. CASE ~conn[c].running
  BY <1>2, DiscardInv DEF ConnectOk
<1>. QED BY <1>1, <1>2

LEMMA ConnectFailsInv == ASSUME IInv, NEW c \in Conns, ConnectFails(c) PROVE IInv'
<1>. DEFINE k == [conn[c] EXCEPT !.step = "DONE"]
<1>1. CASE conn[c].running
  <2>1. Notify(c, k)
    BY <1>1 DEF ConnectFails
  <2>2. /\ k \in Connection /\ k.running = conn[c].running /\ k.notified = conn[c].notified
        /\ k.step = "DONE" /\ k.writing = conn[c].writing
        /\ k.version = conn[c].version /\ k.applied = conn[c].applied
        /\ k.mints = conn[c].mints
    BY ConnFacts DEF Connection
  <2>3. Requests(k) /\ ~Waits(k) /\ ~k.notified
    BY <2>2, ConnFacts DEF Requests, Waits, Shape, ConnectFails
  <2>. HIDE DEF k
  <2>. QED BY <1>1, <2>1, <2>2, <2>3, NotifyMoves DEF ConnectFails
<1>2. CASE ~conn[c].running
  BY <1>2, DiscardInv DEF ConnectFails
<1>. QED BY <1>1, <1>2

LEMMA SubscribeOkInv == ASSUME IInv, NEW c \in Conns, SubscribeOk(c) PROVE IInv'
<1>. DEFINE k == [conn[c] EXCEPT !.step = "WRITE", !.wire = "OPEN", !.connected = TRUE,
                                 !.version = @ + 1]
<1>1. CASE conn[c].running
  <2>1. conn' = [conn EXCEPT ![c] = Queued(k)]
    BY <1>1 DEF SubscribeOk, Subscribed
  <2>2. conn[c].version + 1 \in Nat
    BY ConnFacts DEF Connection
  <2>3. /\ k \in Connection /\ k.running = conn[c].running
        /\ k.connected /\ k.notified = conn[c].notified
        /\ k.wire = "OPEN" /\ k.writing = conn[c].writing /\ k.step = "WRITE"
        /\ k.version = conn[c].version + 1 /\ k.applied = conn[c].applied
    BY <2>2, ConnFacts DEF Connection
  <2>4. conn[c].applied < conn[c].version + 1 /\ conn[c].applied # conn[c].version + 1
    BY ConnFacts DEF Connection, Requests
  <2>5. conn[c].writing = NoRequest /\ ~conn[c].notified
    BY ConnFacts DEF Shape, Waits, SubscribeOk
  <2>6. conn[c].applied <= conn[c].version + 1
    BY <2>4, ConnFacts DEF Connection
  <2>7. Sound(k)
    BY <1>1, <2>3, <2>4, <2>5, <2>6 DEF Sound, Shape, Versions, Requests, Waits
  <2>. HIDE DEF k
  <2>8. /\ Sound(Queued(k)) /\ Queued(k).running = conn[c].running
        /\ Queued(k).connected /\ ~Queued(k).notified
    BY <1>1, <2>3, <2>5, <2>7, QueuedSound
  <2>9. ~Lost(Queued(k))
    BY <2>8 DEF Lost
  <2>. QED BY <2>1, <2>8, <2>9, QuietMoves DEF SubscribeOk
<1>2. CASE ~conn[c].running
  BY <1>2, DiscardInv DEF SubscribeOk
<1>. QED BY <1>1, <1>2

\* A write that is awaited belongs to a running connection past its connect.
LEMMA WritingFacts ==
    ASSUME IInv, NEW c \in Conns, conn[c].writing # NoRequest
    PROVE  conn[c].running /\ ~Waits(conn[c])
BY ConnFacts DEF Shape

LEMMA WriteOkInv == ASSUME IInv, NEW c \in Conns, WriteOk(c) PROVE IInv'
<1>. DEFINE k == conn[c]
            ack == Acknowledged(k)
            told == [ack EXCEPT !.applied = k.writing.version]
<1>1. PICK next : /\ conn' = [conn EXCEPT ![c] = Up(next)]
                  /\ next = CASE ~k.connected -> ack
                             [] k.connected /\ k.writing.version = k.version -> told
                             [] OTHER -> Queued(told)
  BY DEF WriteOk
<1>2. k.running /\ ~Waits(k) /\ k.writing # NoRequest /\ Sound(k) /\ k \in Connection
  BY WritingFacts, ConnFacts DEF WriteOk
<1>3. k.writing \in Request /\ k.writing.mints \in 0..MaxSets /\ k.writing.version \in Nat
  BY <1>2 DEF Connection, Request
<1>4. NoRequest \in Request
  BY StreamAssumption DEF NoRequest, Request
<1>5. /\ ack \in Connection /\ ack.writing = NoRequest
      /\ ack.served = IF k.wire = "OPEN" THEN k.writing.mints ELSE k.served
      /\ ack.running = k.running /\ ack.step = k.step /\ ack.wire = k.wire
      /\ ack.connected = k.connected /\ ack.notified = k.notified
      /\ ack.version = k.version /\ ack.applied = k.applied /\ ack.mints = k.mints
  BY <1>2, <1>3, <1>4 DEF Acknowledged, Connection
<1>. HIDE DEF ack
<1>6. /\ told \in Connection /\ told.writing = NoRequest /\ told.served = ack.served
      /\ told.running = k.running /\ told.step = k.step /\ told.wire = k.wire
      /\ told.connected = k.connected /\ told.notified = k.notified
      /\ told.version = k.version /\ told.applied = k.writing.version /\ told.mints = k.mints
  BY <1>3, <1>5 DEF Connection
<1>. HIDE DEF told
<1>7. Sound(next) /\ next.running /\ ~Waits(next)
         /\ next.connected = k.connected /\ next.notified = k.notified
  <2>1. CASE ~k.connected
    <3>1. next = ack
      BY <2>1, <1>1
    <3>2. Sound(ack)
      BY <2>1, <1>2, <1>5 DEF Sound, Shape, Versions, Requests, Waits
    <3>. QED BY <3>1, <3>2, <1>2, <1>5 DEF Waits
  <2>2. CASE k.connected
    <3>1. k.wire = "OPEN" /\ ack.served = k.writing.mints
      BY <2>2, <1>2, <1>5 DEF Sound, Shape
    <3>2. k.writing.version = k.version => k.writing.mints = k.mints
      BY <1>2 DEF Sound, Versions, Requests
    <3>3. k.writing.version <= k.version
      BY <1>2 DEF Sound, Versions, Requests
    <3>4. Versions(told)
      BY <1>6, <3>1, <3>2, <3>3 DEF Versions, Requests
    <3>5. Shape(told) /\ ~Waits(told)
      BY <1>2, <1>6 DEF Sound, Shape, Waits
    <3>6. Sound(told) /\ told.running
      BY <1>2, <1>6, <3>4, <3>5 DEF Sound
    <3>7. /\ Sound(Queued(told)) /\ Queued(told).running /\ ~Waits(Queued(told))
          /\ Queued(told).connected = k.connected /\ Queued(told).notified = k.notified
      BY <3>5, <3>6, <1>6, QueuedSound DEF Waits
    <3>8. next = told \/ next = Queued(told)
      BY <2>2, <1>1
    <3>. QED BY <3>5, <3>6, <3>7, <3>8, <1>6
  <2>. QED BY <2>1, <2>2
<1>8. Sound(Up(next)) /\ Up(next).running /\ ~Waits(Up(next)) /\ Up(next).connected = k.connected
  BY <1>7, UpSound
<1>9. Lost(Up(next)) => Lost(k)
  BY <1>2, <1>8 DEF Lost, Sound, Shape
<1>10. Up(next).running = k.running
  BY <1>2, <1>8 DEF Sound, Connection
<1>. QED BY <1>1, <1>8, <1>9, <1>10, QuietMoves DEF WriteOk

LEMMA WriteFailsInv == ASSUME IInv, NEW c \in Conns, WriteFails(c) PROVE IInv'
<1>. DEFINE k == [conn[c] EXCEPT !.writing = NoRequest, !.step = "DONE"]
<1>1. conn[c].running /\ ~Waits(conn[c])
  BY WritingFacts DEF WriteFails
<1>2. NoRequest \in Request
  BY StreamAssumption DEF NoRequest, Request
<1>3. /\ k \in Connection /\ k.running = conn[c].running /\ k.notified = conn[c].notified
      /\ k.step = "DONE" /\ k.writing = NoRequest /\ k.wire = conn[c].wire
      /\ k.version = conn[c].version /\ k.applied = conn[c].applied
      /\ k.mints = conn[c].mints /\ k.served = conn[c].served /\ k.connected = conn[c].connected
  BY <1>2, ConnFacts DEF Connection
<1>4. Sound(k) /\ Requests(k) /\ ~Waits(k)
  BY <1>3, ConnFacts DEF Sound, Shape, Versions, Requests, Waits
<1>5. Notify(c, k)
  BY DEF WriteFails
<1>. HIDE DEF k
<1>. QED BY <1>3, <1>4, <1>5, NotifyMoves DEF WriteFails

LEMMA StreamEndsInv == ASSUME IInv, NEW c \in Conns, StreamEnds(c) PROVE IInv'
<1>. DEFINE w == IF conn[c].wire = "OPEN" THEN "ENDED" ELSE "CLOSED"
            k == [conn[c] EXCEPT !.wire = w]
<1>1. conn[c].running /\ ~Waits(conn[c]) /\ conn[c].wire # "NONE"
  BY ConnFacts DEF StreamEnds, Shape
<1>2. /\ k \in Connection /\ k.running = conn[c].running /\ k.notified = conn[c].notified
      /\ k.step = conn[c].step /\ k.writing = conn[c].writing /\ k.wire = w
      /\ k.version = conn[c].version /\ k.applied = conn[c].applied
      /\ k.mints = conn[c].mints /\ k.served = conn[c].served /\ k.connected = conn[c].connected
  BY ConnFacts DEF Connection
<1>3. Requests(k) /\ ~Waits(k)
  BY <1>1, <1>2, ConnFacts DEF Requests, Waits
<1>4. k.notified => Sound(k)
  BY <1>1, <1>2, <1>3, ConnFacts DEF Sound, Shape, Versions, Waits
<1>5. Notify(c, k)
  BY DEF StreamEnds
<1>. HIDE DEF k
<1>. QED BY <1>1, <1>2, <1>3, <1>4, <1>5, NotifyMoves DEF StreamEnds

\* Data and Ages change dates only.
LEMMA DatesInv == ASSUME IInv, NEW c \in Conns, Data(c) \/ Ages(c) PROVE IInv'
<1>1. PICK d \in BOOLEAN, f \in BOOLEAN : conn' = [conn EXCEPT ![c] = [conn[c] EXCEPT !.dated = d, !.fresh = f]]
  <2>1. CASE Data(c)
    BY <2>1 DEF Data
  <2>2. CASE Ages(c)
    <3>1. [conn[c] EXCEPT !.fresh = FALSE] = [conn[c] EXCEPT !.dated = conn[c].dated, !.fresh = FALSE]
      BY ConnFacts DEF Connection
    <3>2. conn[c].dated \in BOOLEAN
      BY ConnFacts DEF Connection
    <3>. QED BY <2>2, <3>1, <3>2 DEF Ages
  <2>. QED BY <2>1, <2>2
<1>. DEFINE k == [conn[c] EXCEPT !.dated = d, !.fresh = f]
<1>2. /\ k \in Connection /\ k.running = conn[c].running /\ k.notified = conn[c].notified
      /\ k.step = conn[c].step /\ k.writing = conn[c].writing /\ k.wire = conn[c].wire
      /\ k.version = conn[c].version /\ k.applied = conn[c].applied
      /\ k.mints = conn[c].mints /\ k.served = conn[c].served /\ k.connected = conn[c].connected
  BY ConnFacts DEF Connection
<1>3. Sound(k) /\ (Lost(k) => Lost(conn[c]))
  BY <1>2, ConnFacts DEF Sound, Shape, Versions, Requests, Waits, Lost
<1>4. conn' = [conn EXCEPT ![c] = k]
  BY <1>1
<1>. HIDE DEF k
<1>. QED BY <1>2, <1>3, <1>4, QuietMoves DEF Data, Ages

LEMMA StaleInv == ASSUME IInv, NEW c \in Conns, Stale(c) PROVE IInv'
<1>1. ~Waits(conn[c])
  BY ConnFacts DEF Stale, Shape
<1>. QED BY <1>1, ConnFacts, NotifyMoves DEF Stale

-----------------------------------------------------------------------------
(* Timers and calls of the runtime *)

\* An activation hands the stream from the former connection to the new one.
LEMMA ActivateInv ==
    ASSUME IInv, NEW e \in Endpoints, Activate(e), runs' = "UP",
           failover' \in Endpoints \cup {None}, UNCHANGED <<wanted, update>>
    PROVE  IInv'
<1>1. PICK c \in Conns :
         /\ c # current /\ conn[c] = Unused
         /\ current' = c /\ active' = e
         /\ conn' = [k \in Conns |->
                      CASE k = c -> Fresh(wanted)
                        [] k = current -> Halted(conn[k])
                        [] OTHER -> conn[k]]
  BY DEF Activate, Fresh
<1>2. wanted \in 0..MaxSets
  BY DEF IInv, TypeOK
<1>3. conn'[c] = Fresh(wanted) /\ Sound(conn'[c]) /\ conn'[c].running /\ ~Lost(conn'[c])
  BY <1>1, <1>2, FreshSound
<1>4. \A d \in Conns : d # c => Sound(conn'[d]) /\ ~conn'[d].running
  <2>. SUFFICES ASSUME NEW d \in Conns, d # c PROVE Sound(conn'[d]) /\ ~conn'[d].running
    OBVIOUS
  <2>1. CASE d = current
    <3>1. conn'[d] = Halted(conn[d])
      BY <1>1, <2>1
    <3>. QED BY <3>1, ConnFacts, HaltedSound
  <2>2. CASE d # current
    <3>1. conn'[d] = conn[d]
      BY <1>1, <2>2
    <3>. QED BY <2>2, <3>1, ConnFacts DEF IInv, Owner
  <2>. QED BY <2>1, <2>2
<1>5. \A d \in Conns : Sound(conn'[d])
  BY <1>3, <1>4
<1>6. conn' \in [Conns -> Connection]
  BY <1>1, <1>5 DEF Sound
<1>7. TypeOK'
  BY <1>1, <1>6 DEF IInv, TypeOK
<1>8. c # NoConn
  BY StreamAssumption
<1>9. Owner'
  BY <1>1, <1>3, <1>4, <1>8 DEF Owner
<1>10. Watched'
  BY <1>1, <1>3 DEF Watched, Lost, Waits
<1>11. (\A d \in Conns : Sound(conn[d]))'
  BY <1>5 DEF Sound, Shape, Versions, Requests, Waits
<1>. QED BY <1>7, <1>9, <1>10, <1>11 DEF IInv

LEMMA FailoverInv == IInv /\ FailoverFires => IInv'
<1>. SUFFICES ASSUME IInv, FailoverFires PROVE IInv'
  OBVIOUS
<1>1. runs = "UP" /\ failover \in Endpoints
  BY DEF IInv, Owner, FailoverFires, TypeOK
<1>. QED BY <1>1, ActivateInv DEF FailoverFires

LEMMA StartInv == IInv /\ Start => IInv'
<1>. SUFFICES ASSUME IInv, Start PROVE IInv'
  OBVIOUS
<1>1. 1 \in Endpoints
  BY StreamAssumption DEF Endpoints
<1>2. failover' \in Endpoints \cup {None}
  BY DEF Start, IInv, TypeOK
<1>. QED BY <1>1, <1>2, ActivateInv DEF Start

LEMMA UpdateInv == IInv /\ UpdateFires => IInv'
<1>. SUFFICES ASSUME IInv, UpdateFires PROVE IInv'
  OBVIOUS
<1>1. CASE current = NoConn
  BY <1>1 DEF UpdateFires, IInv, TypeOK, Owner, Watched, Sound, Shape, Versions, Requests, Waits
<1>2. CASE current # NoConn
  <2>. DEFINE k == Queued(Told(conn[current], wanted))
  <2>1. current \in Conns /\ conn[current].running /\ wanted \in 0..MaxSets
    BY <1>2 DEF IInv, TypeOK, Owner
  <2>2. conn' = [conn EXCEPT ![current] = k]
    BY <1>2 DEF UpdateFires
  <2>3. /\ Sound(Told(conn[current], wanted)) /\ Told(conn[current], wanted).running
        /\ Told(conn[current], wanted).connected = conn[current].connected
        /\ Told(conn[current], wanted).step = conn[current].step
        /\ Told(conn[current], wanted).notified = conn[current].notified
    BY <2>1, ConnFacts, ToldSound
  <2>4. /\ Sound(k) /\ k.running /\ k.connected = conn[current].connected
        /\ k.step = conn[current].step /\ k.notified = conn[current].notified
    BY <2>3, QueuedSound
  <2>. HIDE DEF k
  <2>5. Lost(k) => failover # None
    BY <1>2, <2>4 DEF Lost, Waits, IInv, Watched
  <2>6. k.running = conn[current].running
    BY <2>1, <2>4, ConnFacts DEF Sound, Connection
  <2>. QED BY <2>1, <2>2, <2>4, <2>5, <2>6, OneMoves DEF UpdateFires, IInv, TypeOK, Owner
<1>. QED BY <1>1, <1>2

LEMMA StopInv == IInv /\ Stop => IInv'
<1>. SUFFICES ASSUME IInv, Stop PROVE IInv'
  OBVIOUS
<1>1. \A d \in Conns : Sound(conn'[d]) /\ ~conn'[d].running
  <2>. SUFFICES ASSUME NEW d \in Conns PROVE Sound(conn'[d]) /\ ~conn'[d].running
    OBVIOUS
  <2>1. CASE d = current
    <3>1. conn'[d] = Halted(conn[d])
      BY <2>1 DEF Stop
    <3>. QED BY <3>1, ConnFacts, HaltedSound
  <2>2. CASE d # current
    <3>1. conn'[d] = conn[d]
      BY <2>2 DEF Stop
    <3>. QED BY <2>2, <3>1, ConnFacts DEF IInv, Owner
  <2>. QED BY <2>1, <2>2
<1>2. conn' \in [Conns -> Connection]
  BY <1>1 DEF Stop, Sound
<1>3. TypeOK'
  BY <1>2 DEF Stop, IInv, TypeOK
<1>4. Owner'
  BY <1>1 DEF Stop, Owner
<1>5. Watched'
  BY DEF Stop, Watched
<1>6. (\A d \in Conns : Sound(conn[d]))'
  BY <1>1 DEF Sound, Shape, Versions, Requests, Waits
<1>. QED BY <1>3, <1>4, <1>5, <1>6 DEF IInv

\* A change of the wanted mints, or no change at all, leaves the connections alone.
LEMMA StillInv ==
    ASSUME IInv, UNCHANGED <<runs, active, current, failover, conn>>,
           wanted' \in 0..MaxSets, update' \in BOOLEAN
    PROVE  IInv'
BY DEF IInv, TypeOK, Owner, Watched, Lost, Sound, Shape, Versions, Requests, Waits

-----------------------------------------------------------------------------
LEMMA InitIInv == Init => IInv
<1>. SUFFICES ASSUME Init PROVE IInv
  OBVIOUS
<1>1. \A c \in Conns : conn[c] = Unused
  BY DEF Init
<1>2. \A c \in Conns : Sound(conn[c]) /\ ~conn[c].running
  BY <1>1, UnusedSound
<1>3. conn \in [Conns -> Connection]
  BY <1>2 DEF Init, Sound
<1>6. wanted \in 0..MaxSets
  BY StreamAssumption DEF Init
<1>7. update \in BOOLEAN
  BY DEF Init
<1>4. TypeOK
  BY <1>3, <1>6, <1>7 DEF Init, TypeOK
<1>5. Owner /\ Watched
  BY <1>2 DEF Init, Owner, Watched
<1>. QED BY <1>2, <1>4, <1>5 DEF IInv

LEMMA NextIInv == IInv /\ [Next]_vars => IInv'
<1>. SUFFICES ASSUME IInv, [Next]_vars PROVE IInv'
  OBVIOUS
<1>1. CASE \E c \in Conns : ConnStep(c)
  BY <1>1, ConnectOkInv, ConnectFailsInv, SubscribeOkInv, WriteOkInv, WriteFailsInv, StreamEndsInv,
     DatesInv, StaleInv DEF ConnStep
<1>2. CASE FailoverFires
  BY <1>2, FailoverInv
<1>3. CASE UpdateFires
  BY <1>3, UpdateInv
<1>4. CASE Start
  BY <1>4, StartInv
<1>5. CASE Stop
  BY <1>5, StopInv
<1>6. CASE SetAmmMints
  <2>1. wanted' \in 0..MaxSets /\ update' \in BOOLEAN
    BY <1>6, StreamAssumption DEF SetAmmMints, IInv, TypeOK
  <2>. QED BY <1>6, <2>1, StillInv DEF SetAmmMints
<1>7. CASE UNCHANGED vars
  BY <1>7, StillInv DEF vars, IInv, TypeOK
<1>. QED BY <1>1, <1>2, <1>3, <1>4, <1>5, <1>6, <1>7 DEF Next

\* The connections, their owner and the failover timer fit each other at every
\* time, whatever the network does (RegionConnection and PumpFlowStream).
THEOREM StreamInvariant == Spec => []IInv
<1>. QED BY InitIInv, NextIInv, PTL DEF Spec

\* Every variable keeps its type; the next endpoint is always one of the list.
THEOREM StreamTyped == Spec => []TypeOK
<1>1. IInv => TypeOK
  BY DEF IInv
<1>. QED BY <1>1, StreamInvariant, PTL

\* Only the current connection has a stream.
LEMMA OpenIsCurrent ==
    ASSUME IInv, NEW c \in Conns, conn[c].wire = "OPEN"
    PROVE  c = current
BY ConnFacts DEF Shape, IInv, Owner

\* At most one stream is open, whichever answers come late (_activateEndpoint).
THEOREM SingleSubscription == Spec => []OneSubscription
<1>1. IInv => OneSubscription
  <2>. SUFFICES ASSUME IInv PROVE OneSubscription
    OBVIOUS
  <2>. DEFINE S == {c \in Conns : conn[c].wire = "OPEN"}
  <2>1. S \subseteq {current}
    BY OpenIsCurrent
  <2>2. IsFiniteSet({current}) /\ Cardinality({current}) = 1
    BY FS_Singleton
  <2>3. Cardinality(S) <= Cardinality({current})
    BY <2>1, <2>2, FS_Subset
  <2>4. Cardinality(S) <= 1
    BY <2>2, <2>3
  <2>. QED BY <2>4 DEF OneSubscription
<1>. QED BY <1>1, StreamInvariant, PTL

\* A dead active connection has its failover set (_notifyUnavailable, _connect).
THEOREM DeadIsLeft == Spec => []DeadHasFailover
<1>1. IInv => DeadHasFailover
  BY DEF DeadHasFailover, IInv, Owner, Watched, Lost, Waits
<1>. QED BY <1>1, StreamInvariant, PTL

\* No stream and no timer survives stop().
THEOREM StoppedStaysQuiet == Spec => []StoppedIsQuiet
<1>1. IInv => StoppedIsQuiet
  <2>. SUFFICES ASSUME IInv, runs = "STOPPED" PROVE failover = None /\ \A c \in Conns : conn[c].wire # "OPEN"
    BY DEF StoppedIsQuiet
  <2>1. failover = None /\ current = NoConn
    BY DEF IInv, Owner
  <2>. QED BY <2>1, OpenIsCurrent, StreamAssumption
<1>. QED BY <1>1, StreamInvariant, PTL

\* What counts as applied is what the server filters by (_drainSubscriptionUpdates).
THEOREM AppliedIsTrue == Spec => []AppliedIsServed
<1>1. IInv => AppliedIsServed
  BY ConnFacts DEF AppliedIsServed, Versions
<1>. QED BY <1>1, StreamInvariant, PTL

\* The streams the server has open are the ones the process believes in, through
\* late answers, failovers and a stop.
THEOREM NetworkIsAsBelieved == Spec => []NetworkAsBelieved
<1>1. OneSubscription /\ StoppedIsQuiet /\ AppliedIsServed => NetworkAsBelieved
  BY DEF NetworkAsBelieved
<1>. QED BY <1>1, SingleSubscription, StoppedStaysQuiet, AppliedIsTrue, PTL

=============================================================================
