-------------------------- MODULE TokenStoreProofs --------------------------
(***************************************************************************)
(* Proofs about TokenStore, for any mints and any bounds.                  *)
(*                                                                         *)
(* The argument is about one mint: a record operation takes what the store *)
(* holds of it (map, row, patch) from one good state to another, whatever  *)
(* the lock and the back-off do.  The rest is bookkeeping: an event        *)
(* touches one mint, and a flush treats each mint by itself.               *)
(***************************************************************************)
EXTENDS TokenStore, TLAPS

\* What the store holds of one mint.
Cells == [mem: Token, row: Token, patch: Patch, backoff: BOOLEAN]

\* A mint that waits for a write is in the map, and only what waits has a part.
Waits(c) == (c.patch.due => c.mem.known) /\ (c.patch.complete => c.patch.due)
Agrees(c) == ~c.patch.due => c.mem = c.row
Remembers(c) == c.row.grad = CompleteAt \/ c.patch.complete

MintInv(m) ==
    /\ Waits(Held(m))
    /\ m \notin failed => Agrees(Held(m))
    /\ m \notin failed /\ m \in accepted => Remembers(Held(m))

IInv == TypeOK /\ \A m \in Mints : MintInv(m)

-----------------------------------------------------------------------------
(* The statements on a row *)

LEMMA TimesFacts ==
    /\ 0 \in Times /\ CompleteAt \in Times /\ ExactAt \in Times
    /\ \A t \in Times : t \in Nat
    /\ \A t \in ObservedTimes : t \in Times /\ t > ExactAt
BY BoundsAssumption DEF Times, CompleteAt, ExactAt

LEMMA StatementTypes ==
    ASSUME NEW r \in Token
    PROVE  /\ Ensured(r) \in Token /\ Created(r) \in Token /\ Completed(r) \in Token
           /\ \A t \in Times, s \in Sources : Migrated(r, t, s) \in Token
           /\ Absent \in Token
<1>. USE TimesFacts DEF Token
<1>1. Ensured(r) \in Token /\ Created(r) \in Token
  BY DEF Ensured, Created
<1>2. Completed(r) \in Token
  <2>1. Earlier(r.grad, CompleteAt) \in Times
    BY DEF Earlier
  <2>. QED BY <2>1 DEF Completed
<1>3. ASSUME NEW t \in Times, NEW s \in Sources
      PROVE  Migrated(r, t, s) \in Token
  BY DEF Migrated
<1>4. Absent \in Token
  BY DEF Absent, Sources
<1>. QED BY <1>1, <1>2, <1>3, <1>4

LEMMA StatementsKnown ==
    ASSUME NEW r \in Token, NEW t \in Times, NEW s \in Sources
    PROVE  /\ Ensured(r).known /\ Created(r).known
           /\ r.known => Completed(r).known /\ Migrated(r, t, s).known
BY DEF Token, Ensured, Created, Completed, Migrated

\* No statement moves a completion that is in the row.
LEMMA StatementsKeep ==
    ASSUME NEW r \in Token, NEW t \in Times, NEW s \in Sources, r.grad = CompleteAt
    PROVE  /\ Ensured(r).grad = CompleteAt /\ Created(r).grad = CompleteAt
           /\ Completed(r).grad = CompleteAt /\ Migrated(r, t, s).grad = CompleteAt
BY DEF Token, Ensured, Created, Completed, Migrated, Earlier, CompleteAt

LEMMA CompletedIsIn ==
    ASSUME NEW r \in Token, r.known
    PROVE  Completed(r).grad = CompleteAt
<1>1. r.grad \in Nat
  BY TimesFacts DEF Token
<1>2. Earlier(r.grad, CompleteAt) = CompleteAt
  BY <1>1 DEF Earlier, CompleteAt
<1>. QED BY <1>2 DEF Completed, Token

\* Whatever part of a patch has been applied, the completion stays in the row,
\* and a patch that holds it puts it there.
LEMMA PatchApplied ==
    ASSUME NEW r \in Token, NEW p \in Patch
    PROVE  /\ FirstStatement(r, p) \in Token /\ FirstStatement(r, p).known
           /\ SecondStatement(FirstStatement(r, p), p) \in Token
           /\ Patched(r, p) \in Token /\ Patched(r, p).known
           /\ r.grad = CompleteAt =>
                /\ FirstStatement(r, p).grad = CompleteAt
                /\ SecondStatement(FirstStatement(r, p), p).grad = CompleteAt
                /\ Patched(r, p).grad = CompleteAt
           /\ p.complete => Patched(r, p).grad = CompleteAt
<1>. DEFINE one == FirstStatement(r, p)
            two == SecondStatement(one, p)
<1>p. p.mig \in Times /\ p.src \in Sources
  BY DEF Patch
<1>1. one \in Token /\ one.known /\ (r.grad = CompleteAt => one.grad = CompleteAt)
  BY <1>p, StatementTypes, StatementsKnown, StatementsKeep DEF FirstStatement
<1>2. /\ two \in Token /\ two.known /\ (one.grad = CompleteAt => two.grad = CompleteAt)
      /\ p.complete => two.grad = CompleteAt
  <2>. HIDE DEF one
  <2>. QED BY <1>p, <1>1, StatementTypes, StatementsKnown, StatementsKeep, CompletedIsIn DEF SecondStatement
<1>3. /\ ThirdStatement(two, p) \in Token /\ ThirdStatement(two, p).known
      /\ two.grad = CompleteAt => ThirdStatement(two, p).grad = CompleteAt
  <2>. HIDE DEF two
  <2>. QED BY <1>p, <1>2, StatementTypes, StatementsKnown, StatementsKeep DEF ThirdStatement
<1>. QED BY <1>1, <1>2, <1>3 DEF Patched

-----------------------------------------------------------------------------
(* One record operation *)

LEMMA PutBack ==
    ASSUME NEW c \in Cells, NEW heldBack \in BOOLEAN, NEW merged \in Token, NEW row \in Token,
           NEW patch \in Patch, heldBack \/ locked
    PROVE  /\ Put(c, heldBack, merged, row, patch) \in Cells
           /\ Put(c, heldBack, merged, row, patch).mem = merged
           /\ Put(c, heldBack, merged, row, patch).row = c.row
           /\ Put(c, heldBack, merged, row, patch).patch = patch
<1>1. c.backoff \in BOOLEAN
  BY DEF Cells
<1>. QED BY <1>1 DEF Put, Cells

LEMMA PutThrough ==
    ASSUME NEW c \in Cells, NEW heldBack \in BOOLEAN, NEW merged \in Token, NEW row \in Token,
           NEW patch \in Patch, ~(heldBack \/ locked)
    PROVE  /\ Put(c, heldBack, merged, row, patch) \in Cells
           /\ Put(c, heldBack, merged, row, patch).mem = IF row.known THEN row ELSE merged
           /\ Put(c, heldBack, merged, row, patch).row = row
           /\ Put(c, heldBack, merged, row, patch).patch = c.patch
BY DEF Put, Cells

LEMMA CellParts ==
    ASSUME NEW c \in Cells
    PROVE  /\ c.mem \in Token /\ c.row \in Token /\ c.patch \in Patch /\ c.backoff \in BOOLEAN
           /\ c.patch.due \in BOOLEAN /\ HeldBack(c) \in BOOLEAN
BY DEF Cells, Patch, HeldBack

LEMMA EnsureCell ==
    ASSUME NEW c \in Cells, locked \in BOOLEAN, Waits(c)
    PROVE  LET d == Ensure(c)
           IN /\ d \in Cells /\ Waits(d) /\ d.mem.known
              /\ Agrees(c) => Agrees(d)
              /\ Remembers(c) => Remembers(d)
<1>1. CASE c.mem.known
  BY <1>1 DEF Ensure
<1>2. CASE ~c.mem.known
  <2>. DEFINE p == [c.patch EXCEPT !.due = TRUE]
              d == Put(c, c.backoff, Ensured(c.mem), Ensured(c.row), p)
  <2>1. p \in Patch /\ p.due /\ p.complete = c.patch.complete
    BY CellParts DEF Patch
  <2>2. ~c.patch.due /\ ~c.patch.complete
    BY <1>2 DEF Waits
  <2>3. Ensured(c.mem) \in Token /\ Ensured(c.mem).known
    BY CellParts, StatementTypes, StatementsKnown, TimesFacts DEF Sources
  <2>4. /\ Ensured(c.row) \in Token /\ Ensured(c.row).known
        /\ c.row.grad = CompleteAt => Ensured(c.row).grad = CompleteAt
    BY CellParts, StatementTypes DEF Ensured, Token
  <2>5. /\ d \in Cells
        /\ c.backoff \/ locked => d.mem = Ensured(c.mem) /\ d.row = c.row /\ d.patch = p
        /\ ~(c.backoff \/ locked) => d.mem = Ensured(c.row) /\ d.row = Ensured(c.row) /\ d.patch = c.patch
    <3>. HIDE DEF p
    <3>1. c.backoff \in BOOLEAN
      BY CellParts
    <3>2. CASE c.backoff \/ locked
      BY <2>1, <2>3, <2>4, <3>1, <3>2, PutBack
    <3>3. CASE ~(c.backoff \/ locked)
      BY <2>1, <2>3, <2>4, <3>1, <3>3, PutThrough
    <3>. QED BY <3>2, <3>3
  <2>6. d \in Cells /\ Waits(d) /\ d.mem.known
    <3>. HIDE DEF p, d
    <3>. QED BY <2>1, <2>2, <2>3, <2>4, <2>5 DEF Waits
  <2>7. Agrees(d)
    <3>. HIDE DEF p, d
    <3>. QED BY <2>1, <2>5 DEF Agrees
  <2>8. Remembers(c) => Remembers(d)
    <3>. HIDE DEF p, d
    <3>. QED BY <2>1, <2>4, <2>5 DEF Remembers
  <2>. QED BY <1>2, <2>6, <2>7, <2>8 DEF Ensure
<1>. QED BY <1>1, <1>2

LEMMA CreateCell ==
    ASSUME NEW c \in Cells, locked \in BOOLEAN, Waits(c)
    PROVE  LET d == RecordCreate(c)
           IN /\ d \in Cells /\ Waits(d)
              /\ Agrees(c) => Agrees(d)
              /\ Remembers(c) => Remembers(d)
<1>. DEFINE p == [c.patch EXCEPT !.due = TRUE, !.create = TRUE]
            d == Put(c, HeldBack(c), Created(c.mem), Created(c.row), p)
<1>1. p \in Patch /\ p.due /\ p.complete = c.patch.complete
  BY CellParts DEF Patch
<1>3. Created(c.mem) \in Token /\ Created(c.mem).known
  BY CellParts, StatementTypes, StatementsKnown, TimesFacts DEF Sources
<1>4. /\ Created(c.row) \in Token /\ Created(c.row).known
      /\ c.row.grad = CompleteAt => Created(c.row).grad = CompleteAt
  BY CellParts, StatementTypes, StatementsKnown, StatementsKeep, TimesFacts DEF Sources
<1>5. /\ d \in Cells
      /\ HeldBack(c) \/ locked => d.mem = Created(c.mem) /\ d.row = c.row /\ d.patch = p
      /\ ~(HeldBack(c) \/ locked) => d.mem = Created(c.row) /\ d.row = Created(c.row) /\ d.patch = c.patch
  <2>. HIDE DEF p
  <2>1. HeldBack(c) \in BOOLEAN
    BY CellParts
  <2>2. CASE HeldBack(c) \/ locked
    BY <1>1, <1>3, <1>4, <2>1, <2>2, PutBack
  <2>3. CASE ~(HeldBack(c) \/ locked)
    BY <1>1, <1>3, <1>4, <2>1, <2>3, PutThrough
  <2>. QED BY <2>2, <2>3
<1>6. Waits(d)
  <2>. HIDE DEF p, d
  <2>. QED BY <1>1, <1>3, <1>4, <1>5 DEF Waits, HeldBack
<1>7. Agrees(d)
  <2>. HIDE DEF p, d
  <2>. QED BY <1>1, <1>5 DEF Agrees
<1>8. Remembers(c) => Remembers(d)
  <2>. HIDE DEF p, d
  <2>. QED BY <1>1, <1>4, <1>5 DEF Remembers
<1>. QED BY <1>5, <1>6, <1>7, <1>8 DEF RecordCreate

\* The completion is in the row or in the patch afterwards, unless the map was
\* already ahead of the row.
LEMMA CompleteCell ==
    ASSUME NEW c \in Cells, locked \in BOOLEAN, Waits(c), c.mem.known
    PROVE  LET d == RecordComplete(c)
           IN /\ d \in Cells /\ Waits(d)
              /\ Agrees(c) => Agrees(d) /\ Remembers(d)
<1>. DEFINE p == [c.patch EXCEPT !.due = TRUE, !.complete = TRUE]
            d == Put(c, HeldBack(c), Completed(c.mem), Completed(c.row), p)
<1>1. p \in Patch /\ p.due /\ p.complete
  BY CellParts DEF Patch
<1>3. Completed(c.mem) \in Token /\ Completed(c.mem).known
  BY CellParts, StatementTypes DEF Completed, Token
<1>4. /\ Completed(c.row) \in Token
      /\ c.row.known => Completed(c.row).known /\ Completed(c.row).grad = CompleteAt
  BY CellParts, StatementTypes, CompletedIsIn DEF Completed, Token
<1>5. /\ d \in Cells
      /\ HeldBack(c) \/ locked => d.mem = Completed(c.mem) /\ d.row = c.row /\ d.patch = p
      /\ ~(HeldBack(c) \/ locked) =>
            /\ d.mem = IF Completed(c.row).known THEN Completed(c.row) ELSE Completed(c.mem)
            /\ d.row = Completed(c.row) /\ d.patch = c.patch
  <2>. HIDE DEF p
  <2>1. HeldBack(c) \in BOOLEAN
    BY CellParts
  <2>2. CASE HeldBack(c) \/ locked
    BY <1>1, <1>3, <1>4, <2>1, <2>2, PutBack
  <2>3. CASE ~(HeldBack(c) \/ locked)
    BY <1>1, <1>3, <1>4, <2>1, <2>3, PutThrough
  <2>. QED BY <2>2, <2>3
<1>6. Waits(d)
  <2>. HIDE DEF p, d
  <2>. QED BY <1>1, <1>3, <1>5 DEF Waits, HeldBack
<1>7. ASSUME Agrees(c) PROVE Agrees(d) /\ Remembers(d)
  <2>. HIDE DEF p, d
  <2>1. CASE HeldBack(c) \/ locked
    BY <1>1, <1>5, <2>1 DEF Agrees, Remembers
  <2>2. CASE ~(HeldBack(c) \/ locked)
    <3>1. c.mem = c.row
      BY <1>7, <2>2 DEF Agrees, HeldBack
    <3>. QED BY <1>4, <1>5, <2>2, <3>1 DEF Agrees, Remembers
  <2>. QED BY <2>1, <2>2
<1>. QED BY <1>5, <1>6, <1>7 DEF RecordComplete

LEMMA MigrationCell ==
    ASSUME NEW c \in Cells, locked \in BOOLEAN, Waits(c), c.mem.known,
           NEW t \in Times, NEW s \in Sources
    PROVE  LET d == RecordMigration(c, t, s)
           IN /\ d \in Cells /\ Waits(d)
              /\ Agrees(c) => Agrees(d)
              /\ Remembers(c) => Remembers(d)
<1>. DEFINE p == [c.patch EXCEPT !.due = TRUE, !.mig = t, !.src = s]
            d == Put(c, HeldBack(c), Migrated(c.mem, t, s), Migrated(c.row, t, s), p)
<1>1. p \in Patch /\ p.due /\ p.complete = c.patch.complete
  BY CellParts DEF Patch
<1>3. Migrated(c.mem, t, s) \in Token /\ Migrated(c.mem, t, s).known
  BY CellParts, StatementTypes, StatementsKnown
<1>4. /\ Migrated(c.row, t, s) \in Token
      /\ c.row.grad = CompleteAt => Migrated(c.row, t, s).grad = CompleteAt
  BY CellParts, StatementTypes, StatementsKeep
<1>5. /\ d \in Cells
      /\ HeldBack(c) \/ locked => d.mem = Migrated(c.mem, t, s) /\ d.row = c.row /\ d.patch = p
      /\ ~(HeldBack(c) \/ locked) =>
            /\ d.mem = IF Migrated(c.row, t, s).known THEN Migrated(c.row, t, s) ELSE Migrated(c.mem, t, s)
            /\ d.row = Migrated(c.row, t, s) /\ d.patch = c.patch
  <2>. HIDE DEF p
  <2>1. HeldBack(c) \in BOOLEAN
    BY CellParts
  <2>2. CASE HeldBack(c) \/ locked
    BY <1>1, <1>3, <1>4, <2>1, <2>2, PutBack
  <2>3. CASE ~(HeldBack(c) \/ locked)
    BY <1>1, <1>3, <1>4, <2>1, <2>3, PutThrough
  <2>. QED BY <2>2, <2>3
<1>6. Waits(d)
  <2>. HIDE DEF p, d
  <2>. QED BY <1>1, <1>3, <1>5 DEF Waits, HeldBack
<1>7. ASSUME Agrees(c) PROVE Agrees(d)
  <2>. HIDE DEF p, d
  <2>1. CASE HeldBack(c) \/ locked
    BY <1>1, <1>5, <2>1 DEF Agrees
  <2>2. CASE ~(HeldBack(c) \/ locked)
    <3>1. c.mem = c.row
      BY <1>7, <2>2 DEF Agrees, HeldBack
    <3>. QED BY <1>5, <2>2, <3>1 DEF Agrees
  <2>. QED BY <2>1, <2>2
<1>8. Remembers(c) => Remembers(d)
  <2>. HIDE DEF p, d
  <2>. QED BY <1>1, <1>4, <1>5 DEF Remembers
<1>. QED BY <1>5, <1>6, <1>7, <1>8 DEF RecordMigration

-----------------------------------------------------------------------------
(* What a step leaves of the invariant *)

Bounds == [events : 0 .. MaxEvents, locks : 0 .. MaxLocks,
           errors : 0 .. MaxErrors, crashes : 0 .. MaxCrashes]
StoreTyped == mem \in [Mints -> Token] /\ rows \in [Mints -> Token]
              /\ deferred \in [Mints -> Patch] /\ backoff \in BOOLEAN
RawTyped == raw \in Seq(Mints) /\ Len(raw) <= MaxPending
RestTyped == locked \in BOOLEAN /\ accepted \subseteq Mints /\ failed \subseteq Mints /\ left \in Bounds

LEMMA TypeParts == TypeOK <=> StoreTyped /\ RawTyped /\ RestTyped
BY DEF TypeOK, StoreTyped, RawTyped, RestTyped, Bounds

LEMMA HeldCell ==
    ASSUME IInv, NEW m \in Mints
    PROVE  Held(m) \in Cells /\ Held(m).mem = mem[m] /\ Held(m).row = rows[m]
           /\ Held(m).patch = deferred[m] /\ locked \in BOOLEAN
BY TypeParts DEF IInv, StoreTyped, RestTyped, Held, Cells

\* MintInv without the record.
LEMMA MintInvParts ==
    ASSUME NEW m \in Mints
    PROVE  MintInv(m) <=>
              /\ deferred[m].due => mem[m].known
              /\ deferred[m].complete => deferred[m].due
              /\ m \notin failed /\ ~deferred[m].due => mem[m] = rows[m]
              /\ m \notin failed /\ m \in accepted => rows[m].grad = CompleteAt \/ deferred[m].complete
BY DEF MintInv, Waits, Agrees, Remembers, Held

LEMMA MintInvPartsPrime ==
    ASSUME NEW m \in Mints
    PROVE  MintInv(m)' <=>
              /\ deferred'[m].due => mem'[m].known
              /\ deferred'[m].complete => deferred'[m].due
              /\ m \notin failed' /\ ~deferred'[m].due => mem'[m] = rows'[m]
              /\ m \notin failed' /\ m \in accepted' => rows'[m].grad = CompleteAt \/ deferred'[m].complete
BY DEF MintInv, Waits, Agrees, Remembers, Held

\* An event leaves every mint but its own alone.
LEMMA KeepInv ==
    ASSUME IInv, NEW m \in Mints, NEW c \in Cells, Keep(m, c),
           Waits(c), m \notin failed' => Agrees(c), m \notin failed' /\ m \in accepted' => Remembers(c),
           failed \subseteq failed', accepted' \subseteq accepted \cup {m}
    PROVE  StoreTyped' /\ \A n \in Mints : MintInv(n)'
<1>. /\ mem \in [Mints -> Token] /\ rows \in [Mints -> Token] /\ deferred \in [Mints -> Patch]
     /\ \A n \in Mints : MintInv(n)
  BY TypeParts DEF IInv, StoreTyped
<1>1. StoreTyped'
  BY CellParts DEF Keep, StoreTyped
<1>2. mem'[m] = c.mem /\ rows'[m] = c.row /\ deferred'[m] = c.patch
  BY DEF Keep
<1>3. MintInv(m)'
  BY <1>2, MintInvPartsPrime DEF Waits, Agrees, Remembers
<1>4. ASSUME NEW n \in Mints, n # m
      PROVE  MintInv(n)'
  <2>1. mem'[n] = mem[n] /\ rows'[n] = rows[n] /\ deferred'[n] = deferred[n]
    BY <1>4 DEF Keep
  <2>2. MintInv(n)
    OBVIOUS
  <2>. QED BY <1>4, <2>1, <2>2, MintInvParts, MintInvPartsPrime
<1>. QED BY <1>1, <1>3, <1>4

LEMMA SpendEvent ==
    ASSUME left \in Bounds, left.events > 0, left' = [left EXCEPT !.events = @ - 1]
    PROVE  left' \in Bounds
BY BoundsAssumption DEF Bounds

LEMMA SpendErrorEvent ==
    ASSUME left \in Bounds, left.events > 0, left.errors > 0,
           left' = [left EXCEPT !.errors = @ - 1, !.events = @ - 1]
    PROVE  left' \in Bounds
<1>1. left.errors - 1 \in 0 .. MaxErrors /\ left.events - 1 \in 0 .. MaxEvents
  BY BoundsAssumption DEF Bounds
<1>2. left' = [left EXCEPT !.errors = left.errors - 1, !.events = left.events - 1]
  BY DEF Bounds
<1>. QED BY <1>1, <1>2 DEF Bounds

LEMMA AcceptInv ==
    ASSUME IInv, left.events > 0, NEW ms \in SUBSET Mints, Accept(ms)
    PROVE  RestTyped' /\ failed' = failed /\ accepted' = accepted \cup ms
BY TypeParts, SpendEvent DEF IInv, RestTyped, Accept

LEMMA RaiseInv ==
    ASSUME IInv, left.events > 0, NEW m \in Mints, NEW c \in Cells, Waits(c),
           NEW merged \in Token, merged.known, Raise(m, c, merged)
    PROVE  IInv'
<1>. DEFINE d == [c EXCEPT !.mem = merged, !.backoff = TRUE]
<1>1. d \in Cells /\ d.mem = merged /\ d.patch = c.patch
  BY DEF Cells
<1>2. Waits(d)
  <2>. HIDE DEF d
  <2>. QED BY <1>1 DEF Waits
<1>3. Keep(m, d) /\ failed' = failed \cup {m} /\ accepted' = accepted
  BY DEF Raise
<1>4. StoreTyped' /\ \A n \in Mints : MintInv(n)'
  <2>. HIDE DEF d
  <2>. QED BY <1>1, <1>2, <1>3, KeepInv
<1>5. RestTyped'
  BY <1>3, TypeParts, SpendErrorEvent DEF IInv, RestTyped, Raise
<1>6. RawTyped'
  BY TypeParts DEF IInv, RawTyped, Raise
<1>. QED BY <1>4, <1>5, <1>6, TypeParts DEF IInv, TypeOK, StoreTyped, RawTyped, RestTyped, Bounds

-----------------------------------------------------------------------------
(* The buffer of trades *)

LEMMA QueuedTyped ==
    ASSUME IInv, NEW m \in Mints
    PROVE  Queued(m) \in Seq(Mints) /\ Len(Queued(m)) <= MaxPending
<1>1. raw \in Seq(Mints) /\ Len(raw) <= MaxPending /\ MaxPending \in Nat
  BY TypeParts, BoundsAssumption DEF IInv, RawTyped
<1>2. Append(raw, m) \in Seq(Mints) /\ Len(Append(raw, m)) = Len(raw) + 1
  BY <1>1
<1>3. Len(Append(raw, m)) > MaxPending =>
        /\ Tail(Append(raw, m)) \in Seq(Mints)
        /\ Len(Tail(Append(raw, m))) = Len(raw)
  BY <1>1, <1>2
<1>. QED BY <1>1, <1>2, <1>3 DEF Queued

LEMMA AfterBatchTyped ==
    ASSUME NEW q \in Seq(Mints), Len(q) <= MaxPending
    PROVE  AfterBatch(q) \in Seq(Mints) /\ Len(AfterBatch(q)) <= MaxPending
<1>1. BatchMax \in Nat /\ MaxPending \in Nat
  BY BoundsAssumption
<1>2. CASE BatchMax + 1 <= Len(q)
  <2>1. AfterBatch(q) \in Seq(Mints)
    BY <1>1, <1>2 DEF AfterBatch
  <2>2. Len(AfterBatch(q)) = Len(q) - BatchMax
    BY <1>1, <1>2 DEF AfterBatch
  <2>. QED BY <1>1, <2>1, <2>2
<1>3. CASE ~(BatchMax + 1 <= Len(q))
  <2>1. AfterBatch(q) = <<>>
    BY <1>1, <1>3 DEF AfterBatch
  <2>. QED BY <1>1, <2>1
<1>. QED BY <1>2, <1>3

\* A row that is read back is what the store holds of its mint already, or of a
\* mint that waits.
LEMMA ReadBackInv ==
    ASSUME NEW known \in [Mints -> Token], NEW table \in [Mints -> Token], NEW ms, NEW n \in Mints
    PROVE  /\ ReadBack(known, table, ms) \in [Mints -> Token]
           /\ ReadBack(known, table, ms)[n] \in {known[n], table[n]}
           /\ known[n].known => ReadBack(known, table, ms)[n].known
           /\ n \in ms /\ table[n].known => ReadBack(known, table, ms)[n] = table[n]
BY DEF ReadBack

\* What a trade does once the other writes of its event have left c of its mint.
LEMMA QueueInv ==
    ASSUME IInv, left.events > 0, NEW m \in Mints, NEW c \in Cells, Queue(m, c), Waits(c),
           m \notin failed => Agrees(c), m \notin failed /\ m \in accepted => Remembers(c)
    PROVE  IInv'
<1>. DEFINE q == Queued(m)
            late == [c EXCEPT !.backoff = TRUE]
<1>q. q \in Seq(Mints) /\ Len(q) <= MaxPending
  BY QueuedTyped
<1>late. late \in Cells /\ late.mem = c.mem /\ late.row = c.row /\ late.patch = c.patch
  BY DEF Cells
<1>1. CASE Keep(m, c) /\ raw' = q /\ Accept({})
  <2>1. RestTyped' /\ failed' = failed /\ accepted' = accepted
    BY <1>1, AcceptInv
  <2>2. StoreTyped' /\ \A n \in Mints : MintInv(n)'
    BY <1>1, <2>1, KeepInv
  <2>. QED BY <1>1, <1>q, <2>1, <2>2 DEF IInv, TypeOK, StoreTyped, RawTyped, RestTyped, Bounds
<1>2. CASE Keep(m, late) /\ raw' = q /\ Accept({})
  <2>1. RestTyped' /\ failed' = failed /\ accepted' = accepted
    BY <1>2, AcceptInv
  <2>2. StoreTyped' /\ \A n \in Mints : MintInv(n)'
    <3>. HIDE DEF late
    <3>1. Waits(late) /\ (Agrees(c) => Agrees(late)) /\ (Remembers(c) => Remembers(late))
      BY <1>late DEF Waits, Agrees, Remembers
    <3>. QED BY <1>2, <1>late, <2>1, <3>1, KeepInv
  <2>. QED BY <1>2, <1>q, <2>1, <2>2 DEF IInv, TypeOK, StoreTyped, RawTyped, RestTyped, Bounds
<1>3. CASE /\ rows' = [rows EXCEPT ![m] = c.row]
           /\ mem' = ReadBack([mem EXCEPT ![m] = c.mem], rows', Batch(q))
           /\ deferred' = [deferred EXCEPT ![m] = c.patch]
           /\ raw' = AfterBatch(q)
           /\ backoff' = FALSE
           /\ Accept({})
  <2>. DEFINE known == [mem EXCEPT ![m] = c.mem]
  <2>0. Accept({})
    BY <1>3
  <2>1. RestTyped' /\ failed' = failed /\ accepted' = accepted
    BY <2>0, AcceptInv
  <2>2. RawTyped'
    BY <1>3, <1>q, AfterBatchTyped DEF RawTyped
  <2>3. /\ mem \in [Mints -> Token] /\ rows \in [Mints -> Token] /\ deferred \in [Mints -> Patch]
        /\ \A n \in Mints : MintInv(n)
    BY TypeParts DEF IInv, StoreTyped
  <2>4. known \in [Mints -> Token] /\ rows' \in [Mints -> Token] /\ deferred' \in [Mints -> Patch]
    BY <1>3, <2>3, CellParts
  <2>5. StoreTyped'
    <3>. HIDE DEF known
    <3>1. mem' \in [Mints -> Token]
      BY <1>3, <2>4 DEF ReadBack, known
    <3>. QED BY <1>3, <2>4, <3>1 DEF StoreTyped
  <2>6. ASSUME NEW n \in Mints PROVE MintInv(n)'
    <3>1. /\ deferred'[n].due => known[n].known
          /\ deferred'[n].complete => deferred'[n].due
          /\ n \notin failed /\ ~deferred'[n].due => known[n] = rows'[n]
          /\ n \notin failed /\ n \in accepted => rows'[n].grad = CompleteAt \/ deferred'[n].complete
      <4>1. CASE n = m
        <5>1. known[n] = c.mem /\ rows'[n] = c.row /\ deferred'[n] = c.patch
          BY <1>3, <2>3, <4>1
        <5>. QED BY <4>1, <5>1 DEF Waits, Agrees, Remembers
      <4>2. CASE n # m
        <5>1. known[n] = mem[n] /\ rows'[n] = rows[n] /\ deferred'[n] = deferred[n] /\ MintInv(n)
          BY <1>3, <2>3, <4>2
        <5>. QED BY <5>1, MintInvParts
      <4>. QED BY <4>1, <4>2
    <3>2. mem'[n] \in {known[n], rows'[n]} /\ (known[n].known => mem'[n].known)
      <4>. HIDE DEF known
      <4>1. mem' = ReadBack(known, rows', Batch(q))
        BY <1>3 DEF known
      <4>. QED BY <2>4, <4>1, ReadBackInv
    <3>. HIDE DEF known
    <3>. QED BY <2>1, <3>1, <3>2, MintInvPartsPrime
  <2>. QED BY <2>1, <2>2, <2>5, <2>6 DEF IInv, TypeOK, StoreTyped, RawTyped, RestTyped, Bounds
<1>4. CASE /\ left.errors > 0
           /\ Keep(m, late) /\ raw' = q
           /\ left' = [left EXCEPT !.errors = @ - 1, !.events = @ - 1]
           /\ UNCHANGED <<locked, accepted, failed>>
  <2>1. RestTyped'
    BY <1>4, TypeParts, SpendErrorEvent DEF IInv, RestTyped
  <2>2. StoreTyped' /\ \A n \in Mints : MintInv(n)'
    <3>. HIDE DEF late
    <3>1. Waits(late) /\ (Agrees(c) => Agrees(late)) /\ (Remembers(c) => Remembers(late))
      BY <1>late DEF Waits, Agrees, Remembers
    <3>. QED BY <1>4, <1>late, <3>1, KeepInv
  <2>. QED BY <1>4, <1>q, <2>1, <2>2 DEF IInv, TypeOK, StoreTyped, RawTyped, RestTyped, Bounds
<1>. QED BY <1>1, <1>2, <1>3, <1>4 DEF Queue

-----------------------------------------------------------------------------
(* Events of the parser *)

LEMMA HeldGood ==
    ASSUME IInv, NEW m \in Mints
    PROVE  /\ Waits(Held(m))
           /\ m \notin failed => Agrees(Held(m))
           /\ m \notin failed /\ m \in accepted => Remembers(Held(m))
BY DEF IInv, MintInv

LEMMA EnsuredGood ==
    ASSUME IInv, NEW m \in Mints
    PROVE  LET c == Ensure(Held(m))
           IN /\ c \in Cells /\ Waits(c) /\ c.mem.known
              /\ m \notin failed => Agrees(c)
              /\ m \notin failed /\ m \in accepted => Remembers(c)
BY HeldCell, HeldGood, EnsureCell

LEMMA EnsureRaisesInv ==
    ASSUME IInv, left.events > 0, NEW m \in Mints, EnsureRaises(m)
    PROVE  IInv'
<1>1. Held(m) \in Cells /\ Waits(Held(m)) /\ Held(m).mem = mem[m]
  BY HeldCell, HeldGood
<1>2. Ensured(mem[m]) \in Token /\ Ensured(mem[m]).known
  BY <1>1, CellParts, StatementTypes, StatementsKnown, TimesFacts DEF Sources
<1>. QED BY <1>1, <1>2, RaiseInv DEF EnsureRaises

\* A record operation that is neither raised nor followed by a trade.
LEMMA RecordedInv ==
    ASSUME IInv, left.events > 0, NEW m \in Mints, NEW d \in Cells, NEW ms \in SUBSET {m},
           Keep(m, d), Accept(ms), UNCHANGED raw,
           Waits(d), m \notin failed => Agrees(d),
           m \notin failed /\ m \in accepted \cup ms => Remembers(d)
    PROVE  IInv'
<1>1. RestTyped' /\ failed' = failed /\ accepted' = accepted \cup ms
  BY AcceptInv
<1>2. StoreTyped' /\ \A n \in Mints : MintInv(n)'
  BY <1>1, KeepInv
<1>3. RawTyped'
  BY TypeParts DEF IInv, RawTyped
<1>. QED BY <1>1, <1>2, <1>3 DEF IInv, TypeOK, StoreTyped, RawTyped, RestTyped, Bounds

LEMMA CreateInv == ASSUME IInv, NEW m \in Mints, Create(m) PROVE IInv'
<1>. DEFINE c == Held(m)
<1>1. /\ c \in Cells /\ c.mem = mem[m] /\ locked \in BOOLEAN /\ Waits(c)
      /\ m \notin failed => Agrees(c)
      /\ m \notin failed /\ m \in accepted => Remembers(c)
  BY HeldCell, HeldGood
<1>. HIDE DEF c
<1>2. CASE Keep(m, RecordCreate(c)) /\ Accept({}) /\ UNCHANGED raw
  <2>1. /\ RecordCreate(c) \in Cells /\ Waits(RecordCreate(c))
        /\ Agrees(c) => Agrees(RecordCreate(c))
        /\ Remembers(c) => Remembers(RecordCreate(c))
    BY <1>1, CreateCell
  <2>. QED BY <1>1, <1>2, <2>1, RecordedInv DEF Create
<1>3. CASE Raise(m, c, Created(mem[m]))
  <2>1. Created(mem[m]) \in Token /\ Created(mem[m]).known
    BY <1>1, CellParts, StatementTypes, StatementsKnown, TimesFacts DEF Sources
  <2>. QED BY <1>1, <1>3, <2>1, RaiseInv DEF Create
<1>. QED BY <1>2, <1>3 DEF Create, c

LEMMA CompleteInv == ASSUME IInv, NEW m \in Mints, Complete(m) PROVE IInv'
<1>. DEFINE c == Ensure(Held(m))
<1>1. /\ c \in Cells /\ Waits(c) /\ c.mem.known /\ locked \in BOOLEAN
      /\ m \notin failed => Agrees(c)
  BY EnsuredGood, HeldCell
<1>. HIDE DEF c
<1>2. CASE Keep(m, RecordComplete(c)) /\ Accept({m}) /\ UNCHANGED raw
  <2>1. /\ RecordComplete(c) \in Cells /\ Waits(RecordComplete(c))
        /\ Agrees(c) => Agrees(RecordComplete(c)) /\ Remembers(RecordComplete(c))
    BY <1>1, CompleteCell
  <2>. QED BY <1>1, <1>2, <2>1, RecordedInv DEF Complete
<1>3. CASE EnsureRaises(m)
  BY <1>3, EnsureRaisesInv DEF Complete
<1>4. CASE Raise(m, c, Completed(c.mem))
  <2>1. Completed(c.mem) \in Token /\ Completed(c.mem).known
    BY <1>1, CellParts, StatementTypes, StatementsKnown, TimesFacts DEF Sources
  <2>. QED BY <1>1, <1>4, <2>1, RaiseInv DEF Complete
<1>. QED BY <1>2, <1>3, <1>4 DEF Complete, c

LEMMA MigrateInv == ASSUME IInv, NEW m \in Mints, Migrate(m) PROVE IInv'
<1>. DEFINE c == Ensure(Held(m))
            d == RecordMigration(c, ExactAt, "CHAIN_EVENT")
<1>1. /\ c \in Cells /\ Waits(c) /\ c.mem.known /\ locked \in BOOLEAN
      /\ m \notin failed => Agrees(c)
      /\ m \notin failed /\ m \in accepted => Remembers(c)
  BY EnsuredGood, HeldCell
<1>s. ExactAt \in Times /\ "CHAIN_EVENT" \in Sources
  BY TimesFacts DEF Sources
<1>. HIDE DEF c
<1>2. CASE Keep(m, d) /\ Accept({}) /\ UNCHANGED raw
  <2>1. /\ d \in Cells /\ Waits(d)
        /\ Agrees(c) => Agrees(d)
        /\ Remembers(c) => Remembers(d)
    BY <1>1, <1>s, MigrationCell
  <2>. HIDE DEF d
  <2>. QED BY <1>1, <1>2, <2>1, RecordedInv DEF Migrate
<1>3. CASE EnsureRaises(m)
  BY <1>3, EnsureRaisesInv DEF Migrate
<1>4. CASE Raise(m, c, Migrated(c.mem, ExactAt, "CHAIN_EVENT"))
  <2>1. Migrated(c.mem, ExactAt, "CHAIN_EVENT") \in Token /\ Migrated(c.mem, ExactAt, "CHAIN_EVENT").known
    BY <1>1, <1>s, CellParts, StatementTypes, StatementsKnown
  <2>. QED BY <1>1, <1>4, <2>1, RaiseInv DEF Migrate
<1>. QED BY <1>2, <1>3, <1>4 DEF Migrate, c

LEMMA CurveTradeInv == ASSUME IInv, NEW m \in Mints, CurveTrade(m) PROVE IInv'
<1>1. CASE Queue(m, Ensure(Held(m)))
  <2>. DEFINE c == Ensure(Held(m))
  <2>1. /\ c \in Cells /\ Waits(c)
        /\ m \notin failed => Agrees(c)
        /\ m \notin failed /\ m \in accepted => Remembers(c)
    BY EnsuredGood
  <2>2. Queue(m, c)
    BY <1>1
  <2>. HIDE DEF c
  <2>. QED BY <2>1, <2>2, QueueInv DEF CurveTrade
<1>2. CASE EnsureRaises(m)
  BY <1>2, EnsureRaisesInv DEF CurveTrade
<1>. QED BY <1>1, <1>2 DEF CurveTrade

LEMMA AmmTradeInv ==
    ASSUME IInv, NEW m \in Mints, NEW at \in ObservedTimes, AmmTrade(m, at)
    PROVE  IInv'
<1>. DEFINE c == Held(m)
            migratedAt == IF mem[m].grad > at THEN mem[m].grad ELSE at
            d == RecordMigration(c, migratedAt, "FIRST_AMM_OBSERVED")
<1>1. /\ c \in Cells /\ c.mem = mem[m] /\ locked \in BOOLEAN /\ Waits(c)
      /\ m \notin failed => Agrees(c)
      /\ m \notin failed /\ m \in accepted => Remembers(c)
  BY HeldCell, HeldGood
<1>2. left.events > 0 /\ mem[m].known
  BY DEF AmmTrade
<1>s. migratedAt \in Times /\ "FIRST_AMM_OBSERVED" \in Sources
  <2>1. mem[m].grad \in Times
    BY <1>1, CellParts DEF Token
  <2>. QED BY <2>1, TimesFacts DEF Sources
<1>3. \/ Queue(m, d) \/ Queue(m, c)
      \/ Raise(m, c, Migrated(c.mem, migratedAt, "FIRST_AMM_OBSERVED"))
  BY <1>1 DEF AmmTrade
<1>. HIDE DEF c, migratedAt
<1>4. CASE Queue(m, d)
  <2>1. /\ d \in Cells /\ Waits(d)
        /\ Agrees(c) => Agrees(d)
        /\ Remembers(c) => Remembers(d)
    BY <1>1, <1>2, <1>s, MigrationCell
  <2>. HIDE DEF d
  <2>. QED BY <1>1, <1>2, <1>4, <2>1, QueueInv
<1>5. CASE Queue(m, c)
  BY <1>1, <1>2, <1>5, QueueInv
<1>6. CASE Raise(m, c, Migrated(c.mem, migratedAt, "FIRST_AMM_OBSERVED"))
  <2>1. /\ Migrated(c.mem, migratedAt, "FIRST_AMM_OBSERVED") \in Token
        /\ Migrated(c.mem, migratedAt, "FIRST_AMM_OBSERVED").known
    BY <1>1, <1>2, <1>s, CellParts, StatementTypes, StatementsKnown
  <2>. QED BY <1>1, <1>2, <1>6, <2>1, RaiseInv
<1>. QED BY <1>3, <1>4, <1>5, <1>6

-----------------------------------------------------------------------------
(* The flush *)

\* The mints of D are done; of the others at most a part that waits has reached
\* the row, and a row that is read back is theirs.
LEMMA FlushedInv ==
    ASSUME IInv, NEW D \in SUBSET Waiting, NEW traded, Flushed(D, traded), UNCHANGED <<accepted, failed>>,
           rows' \in [Mints -> Token],
           \A n \in D : rows'[n] = Patched(rows[n], deferred[n]),
           \A n \in Mints \ D : /\ rows[n].grad = CompleteAt => rows'[n].grad = CompleteAt
                                /\ deferred[n].due \/ rows'[n] = rows[n]
    PROVE  /\ mem' \in [Mints -> Token] /\ deferred' \in [Mints -> Patch]
           /\ \A n \in Mints : MintInv(n)'
<1>1. /\ mem \in [Mints -> Token] /\ rows \in [Mints -> Token] /\ deferred \in [Mints -> Patch]
      /\ \A n \in Mints : MintInv(n)
  BY TypeParts DEF IInv, StoreTyped
<1>2. mem' = ReadBack(mem, rows', D \cup traded) /\ D \subseteq Mints
  BY DEF Flushed, Waiting
<1>3. NoPatch \in Patch /\ ~NoPatch.due /\ ~NoPatch.complete
  BY TimesFacts DEF NoPatch, Patch, Sources
<1>4. mem' \in [Mints -> Token]
  BY <1>1, <1>2 DEF ReadBack
<1>5. deferred' \in [Mints -> Patch]
  BY <1>1, <1>3 DEF Flushed
<1>6. ASSUME NEW n \in D PROVE MintInv(n)'
  <2>1. n \in Mints /\ rows[n] \in Token /\ deferred[n] \in Patch /\ deferred[n].due /\ MintInv(n)
    BY <1>1, <1>2 DEF Waiting
  <2>2. /\ rows'[n].known
        /\ rows[n].grad = CompleteAt \/ deferred[n].complete => rows'[n].grad = CompleteAt
    <3>1. rows'[n] = Patched(rows[n], deferred[n])
      OBVIOUS
    <3>2. /\ Patched(rows[n], deferred[n]).known
          /\ rows[n].grad = CompleteAt => Patched(rows[n], deferred[n]).grad = CompleteAt
          /\ deferred[n].complete => Patched(rows[n], deferred[n]).grad = CompleteAt
      BY <2>1, PatchApplied
    <3>. QED BY <3>1, <3>2
  <2>3. mem'[n] = rows'[n]
    BY <1>1, <1>2, <2>1, <2>2, ReadBackInv
  <2>4. deferred'[n] = NoPatch
    BY <2>1 DEF Flushed
  <2>5. n \notin failed' /\ n \in accepted' => rows'[n].grad = CompleteAt
    BY <2>1, <2>2, MintInvParts
  <2>. QED BY <1>3, <2>1, <2>3, <2>4, <2>5, MintInvPartsPrime
<1>7. ASSUME NEW n \in Mints \ D PROVE MintInv(n)'
  <2>1. deferred'[n] = deferred[n] /\ MintInv(n)
    BY <1>1 DEF Flushed
  <2>2. mem'[n] \in {mem[n], rows'[n]} /\ (mem[n].known => mem'[n].known)
    BY <1>1, <1>2, ReadBackInv
  <2>3. n \notin failed' /\ ~deferred'[n].due => mem'[n] = rows'[n]
    BY <2>1, <2>2, MintInvParts
  <2>4. n \notin failed' /\ n \in accepted' => rows'[n].grad = CompleteAt \/ deferred'[n].complete
    BY <2>1, MintInvParts
  <2>5. (deferred'[n].due => mem'[n].known) /\ (deferred'[n].complete => deferred'[n].due)
    BY <2>1, <2>2, MintInvParts
  <2>. QED BY <2>3, <2>4, <2>5, MintInvPartsPrime
<1>. QED BY <1>4, <1>5, <1>6, <1>7

LEMMA WholeFlushInv ==
    ASSUME IInv, NEW traded, Flushed(Waiting, traded), UNCHANGED <<accepted, failed>>,
           rows' = [m \in Mints |-> IF m \in Waiting THEN Patched(rows[m], deferred[m]) ELSE rows[m]]
    PROVE  /\ mem' \in [Mints -> Token] /\ rows' \in [Mints -> Token] /\ deferred' \in [Mints -> Patch]
           /\ \A n \in Mints : MintInv(n)'
<1>1. /\ rows \in [Mints -> Token] /\ deferred \in [Mints -> Patch] /\ Waiting \subseteq Mints
  BY TypeParts DEF IInv, StoreTyped, Waiting
<1>2. \A m \in Mints : Patched(rows[m], deferred[m]) \in Token
  BY <1>1, PatchApplied
<1>3. rows' \in [Mints -> Token]
  BY <1>1, <1>2
<1>4. \A n \in Waiting : rows'[n] = Patched(rows[n], deferred[n])
  BY <1>1
<1>5. \A n \in Mints \ Waiting : rows'[n] = rows[n]
  BY <1>1
<1>. QED BY <1>3, <1>4, <1>5, FlushedInv

LEMMA TickInv == ASSUME IInv, Tick PROVE IInv'
<1>1. RestTyped'
  BY TypeParts DEF IInv, RestTyped, Tick
<1>2. UNCHANGED <<accepted, failed>>
  BY DEF Tick
<1>3. CASE backoff' = TRUE /\ UNCHANGED <<mem, rows, deferred, raw>>
  <2>1. StoreTyped' /\ RawTyped'
    BY <1>3, TypeParts DEF IInv, StoreTyped, RawTyped
  <2>2. \A n \in Mints : MintInv(n)'
    BY <1>2, <1>3, MintInvParts, MintInvPartsPrime DEF IInv
  <2>. QED BY <1>1, <2>1, <2>2 DEF IInv, TypeOK, StoreTyped, RawTyped, RestTyped, Bounds
<1>4. CASE /\ rows' = [m \in Mints |-> IF m \in Waiting THEN Patched(rows[m], deferred[m]) ELSE rows[m]]
           /\ raw' = AfterBatch(raw)
           /\ Flushed(Waiting, Batch(raw))
           /\ UNCHANGED backoff
  <2>1. RawTyped'
    BY <1>4, TypeParts, AfterBatchTyped DEF IInv, RawTyped
  <2>2. /\ mem' \in [Mints -> Token] /\ rows' \in [Mints -> Token] /\ deferred' \in [Mints -> Patch]
        /\ \A n \in Mints : MintInv(n)'
    BY <1>2, <1>4, WholeFlushInv
  <2>3. StoreTyped'
    BY <1>4, <2>2, TypeParts DEF IInv, StoreTyped
  <2>. QED BY <1>1, <2>1, <2>2, <2>3 DEF IInv, TypeOK, StoreTyped, RawTyped, RestTyped, Bounds
<1>. QED BY <1>3, <1>4 DEF Tick

LEMMA SpendLockOrError ==
    ASSUME IInv, Stopped
    PROVE  RestTyped'
<1>1. left \in Bounds /\ locked \in BOOLEAN /\ accepted \subseteq Mints /\ failed \subseteq Mints
  BY TypeParts DEF IInv, RestTyped
<1>2. left' \in Bounds
  <2>1. CASE left.locks > 0 /\ left' = [left EXCEPT !.locks = @ - 1]
    BY <1>1, <2>1, BoundsAssumption DEF Bounds
  <2>2. CASE left.errors > 0 /\ left' = [left EXCEPT !.errors = @ - 1]
    BY <1>1, <2>2, BoundsAssumption DEF Bounds
  <2>. QED BY <2>1, <2>2 DEF Stopped
<1>3. locked' \in BOOLEAN
  BY <1>1 DEF Stopped
<1>. QED BY <1>1, <1>2, <1>3 DEF Stopped, RestTyped

LEMMA TickCutInv == ASSUME IInv, TickCut PROVE IInv'
<1>1. RestTyped' /\ RawTyped' /\ UNCHANGED <<accepted, failed>> /\ backoff' \in BOOLEAN
  BY SpendLockOrError, TypeParts DEF IInv, RawTyped, TickCut, Stopped
<1>. SUFFICES /\ mem' \in [Mints -> Token] /\ rows' \in [Mints -> Token] /\ deferred' \in [Mints -> Patch]
              /\ \A n \in Mints : MintInv(n)'
  BY <1>1 DEF IInv, TypeOK, RawTyped, RestTyped, Bounds
<1>2. CASE /\ rows' = [m \in Mints |-> IF m \in Waiting THEN Patched(rows[m], deferred[m]) ELSE rows[m]]
           /\ Flushed(Waiting, {})
  BY <1>1, <1>2, WholeFlushInv
<1>3. ASSUME NEW D \in SUBSET Waiting, NEW next \in Waiting \ D, NEW part \in 0 .. 2,
             Flushed(D, {}),
             rows' = [m \in Mints |->
                  IF m \in D THEN Patched(rows[m], deferred[m])
                  ELSE IF m # next \/ part = 0 THEN rows[m]
                  ELSE LET first == FirstStatement(rows[m], deferred[m])
                       IN IF part = 1 THEN first ELSE SecondStatement(first, deferred[m])]
      PROVE  /\ mem' \in [Mints -> Token] /\ rows' \in [Mints -> Token] /\ deferred' \in [Mints -> Patch]
             /\ \A n \in Mints : MintInv(n)'
  <2>1. /\ rows \in [Mints -> Token] /\ deferred \in [Mints -> Patch] /\ D \subseteq Mints
        /\ deferred[next].due
    BY TypeParts DEF IInv, StoreTyped, Waiting
  <2>2. ASSUME NEW m \in Mints
        PROVE  rows'[m] \in {rows[m], Patched(rows[m], deferred[m]),
                             FirstStatement(rows[m], deferred[m]),
                             SecondStatement(FirstStatement(rows[m], deferred[m]), deferred[m])}
    BY <1>3
  <2>a. ASSUME NEW m \in Mints
        PROVE  /\ rows'[m] \in Token
               /\ rows[m].grad = CompleteAt => rows'[m].grad = CompleteAt
    <3>. DEFINE r == rows[m]
                p == deferred[m]
    <3>1. r \in Token /\ p \in Patch
      BY <2>1
    <3>2. rows'[m] \in {r, Patched(r, p), FirstStatement(r, p), SecondStatement(FirstStatement(r, p), p)}
      BY <2>2
    <3>. HIDE DEF r, p
    <3>3. /\ Patched(r, p) \in Token /\ FirstStatement(r, p) \in Token
          /\ SecondStatement(FirstStatement(r, p), p) \in Token
          /\ r.grad = CompleteAt =>
                /\ Patched(r, p).grad = CompleteAt /\ FirstStatement(r, p).grad = CompleteAt
                /\ SecondStatement(FirstStatement(r, p), p).grad = CompleteAt
      BY <3>1, PatchApplied
    <3>4. rows'[m] \in Token /\ (r.grad = CompleteAt => rows'[m].grad = CompleteAt)
      BY <3>1, <3>2, <3>3
    <3>. QED BY <3>4 DEF r
  <2>3. rows' \in [Mints -> Token]
    BY <1>3, <2>a
  <2>4. \A n \in D : rows'[n] = Patched(rows[n], deferred[n])
    BY <1>3, <2>1
  <2>5. \A n \in Mints \ D : rows[n].grad = CompleteAt => rows'[n].grad = CompleteAt
    BY <2>a
  <2>6. \A n \in Mints \ D : deferred[n].due \/ rows'[n] = rows[n]
    BY <1>3, <2>1
  <2>. QED BY <1>1, <1>3, <2>3, <2>4, <2>5, <2>6, FlushedInv
<1>. QED BY <1>2, <1>3 DEF TickCut

-----------------------------------------------------------------------------
(* The lock and a kill *)

LEMMA SameStore ==
    ASSUME IInv, UNCHANGED <<mem, rows, deferred, raw, accepted, failed>>, backoff' \in BOOLEAN,
           RestTyped'
    PROVE  IInv'
<1>1. StoreTyped' /\ RawTyped'
  BY TypeParts DEF IInv, StoreTyped, RawTyped
<1>2. \A n \in Mints : MintInv(n)'
  BY MintInvParts, MintInvPartsPrime DEF IInv
<1>. QED BY <1>1, <1>2 DEF IInv, TypeOK, StoreTyped, RawTyped, RestTyped, Bounds

LEMMA LockStepInv == ASSUME IInv, BackoffEnds \/ Lock \/ Unlock \/ UNCHANGED vars PROVE IInv'
<1>1. RestTyped /\ backoff \in BOOLEAN
  BY TypeParts DEF IInv, StoreTyped
<1>2. CASE Lock
  <2>1. left' \in Bounds
    BY <1>1, <1>2, BoundsAssumption DEF Lock, RestTyped, Bounds
  <2>2. RestTyped' /\ backoff' \in BOOLEAN
    BY <1>1, <1>2, <2>1 DEF Lock, RestTyped, store
  <2>. QED BY <1>2, <2>2, SameStore DEF Lock, store
<1>3. CASE BackoffEnds
  <2>1. RestTyped' /\ backoff' \in BOOLEAN
    BY <1>1, <1>3 DEF BackoffEnds, RestTyped
  <2>. QED BY <1>3, <2>1, SameStore DEF BackoffEnds
<1>4. CASE Unlock
  <2>1. RestTyped' /\ backoff' \in BOOLEAN
    BY <1>1, <1>4 DEF Unlock, RestTyped, store
  <2>. QED BY <1>4, <2>1, SameStore DEF Unlock, store
<1>5. CASE UNCHANGED vars
  <2>1. RestTyped' /\ backoff' \in BOOLEAN
    BY <1>1, <1>5 DEF RestTyped, vars
  <2>. QED BY <1>5, <2>1, SameStore DEF vars
<1>. QED BY <1>2, <1>3, <1>4, <1>5

LEMMA CrashInv == ASSUME IInv, Crash PROVE IInv'
<1>1. NoPatch \in Patch /\ ~NoPatch.due /\ ~NoPatch.complete
  BY TimesFacts DEF NoPatch, Patch, Sources
<1>2. StoreTyped'
  BY <1>1, TypeParts DEF IInv, StoreTyped, Crash
<1>3. RawTyped'
  BY BoundsAssumption DEF RawTyped, Crash
<1>4. RestTyped'
  <2>1. left \in Bounds /\ left.crashes > 0 /\ left' = [left EXCEPT !.crashes = @ - 1]
    BY TypeParts DEF IInv, RestTyped, Crash
  <2>2. left' \in Bounds
    BY <2>1, BoundsAssumption DEF Bounds
  <2>. QED BY <2>2, TypeParts DEF IInv, RestTyped, Crash
<1>5. ASSUME NEW n \in Mints PROVE MintInv(n)'
  <2>1. deferred'[n] = NoPatch /\ mem'[n] = rows'[n] /\ rows' = rows
    BY DEF Crash
  <2>2. n \in accepted' => rows'[n].grad = CompleteAt
    BY <2>1 DEF Crash, InRow
  <2>. QED BY <1>1, <2>1, <2>2, MintInvPartsPrime
<1>. QED BY <1>2, <1>3, <1>4, <1>5 DEF IInv, TypeOK, StoreTyped, RawTyped, RestTyped, Bounds

-----------------------------------------------------------------------------
(* The invariant, and what the run checks *)

LEMMA InitInv == ASSUME Init PROVE IInv
<1>1. NoPatch \in Patch /\ ~NoPatch.due /\ ~NoPatch.complete
  BY TimesFacts DEF NoPatch, Patch, Sources
<1>2. Absent \in Token
  BY TimesFacts DEF Absent, Token, Sources
<1>3. StoreTyped
  BY <1>1, <1>2 DEF Init, StoreTyped
<1>4. RawTyped
  BY BoundsAssumption DEF Init, RawTyped
<1>5. RestTyped
  <2>1. MaxEvents \in Nat /\ MaxLocks \in Nat /\ MaxErrors \in Nat /\ MaxCrashes \in Nat
    BY BoundsAssumption
  <2>2. left \in Bounds
    BY <2>1 DEF Init, Bounds
  <2>. QED BY <2>2 DEF Init, RestTyped
<1>6. ASSUME NEW m \in Mints PROVE MintInv(m)
  <2>1. deferred[m] = NoPatch /\ mem[m] = rows[m] /\ accepted = {}
    BY DEF Init
  <2>. QED BY <1>1, <2>1, MintInvParts
<1>. QED BY <1>3, <1>4, <1>5, <1>6, TypeParts DEF IInv

LEMMA StepInv == ASSUME IInv, [Next]_vars PROVE IInv'
<1>1. CASE \E m \in Mints : Create(m) \/ Complete(m) \/ Migrate(m) \/ CurveTrade(m)
  BY <1>1, CreateInv, CompleteInv, MigrateInv, CurveTradeInv
<1>2. CASE \E m \in Mints, at \in ObservedTimes : AmmTrade(m, at)
  BY <1>2, AmmTradeInv
<1>3. CASE Tick \/ TickCut \/ Crash
  BY <1>3, TickInv, TickCutInv, CrashInv
<1>4. CASE BackoffEnds \/ Lock \/ Unlock \/ UNCHANGED vars
  BY <1>4, LockStepInv
<1>. QED BY <1>1, <1>2, <1>3, <1>4 DEF Next

\* IInv holds in every state: each mint by itself is told apart from its row
\* only by what waits for it, or by an event that raised.
THEOREM TokenStoreInvariant == Spec => []IInv
<1>1. Init => IInv
  BY InitInv
<1>2. IInv /\ [Next]_vars => IInv'
  BY StepInv
<1>. QED BY <1>1, <1>2, PTL DEF Spec

\* Rows, patches and the buffer keep their shape, and the buffer of trades its
\* limit (queueRawTrade drops the oldest, a flush takes one batch).
THEOREM TokenStoreTyped == Spec => []TypeOK
<1>1. IInv => TypeOK
  BY DEF IInv
<1>. QED BY <1>1, TokenStoreInvariant, PTL

\* A completion that recordComplete() took is in the row or in the patch of its
\* mint, whatever deferred writes, flushes cut short and restarts come between.
THEOREM CompletionKept == Spec => []CompletionNotLost
<1>1. IInv => CompletionNotLost
  BY MintInvParts DEF IInv, CompletionNotLost, InRow
<1>. QED BY <1>1, TokenStoreInvariant, PTL

\* What getToken() answers of a mint with nothing deferred is its row.
THEOREM SettledMintAgrees == Spec => []SettledAgrees
<1>1. IInv => SettledAgrees
  BY MintInvParts DEF IInv, SettledAgrees
<1>. QED BY <1>1, TokenStoreInvariant, PTL

=============================================================================
