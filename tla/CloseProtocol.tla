---------------------------- MODULE CloseProtocol ----------------------------
(***************************************************************************)
(* What the recovery of empty token accounts promises the rest of the      *)
(* program: an account is closed by at most one transaction, ever, and     *)
(* while that transaction may still land nobody trades its mint and no     *)
(* other account of the mint is being closed.  A crash or a restart is no  *)
(* step of this specification: they must not be visible in it.             *)
(***************************************************************************)
CONSTANTS
    Accounts,        \* the accounts that may be closed
    Mints,           \* token mints
    MintOf(_)        \* the mint of an account

VARIABLES
    closing,         \* accounts whose closing transaction may still land
    done,            \* accounts whose closing transaction is settled
    trading          \* mints with an active position

vars == <<closing, done, trading>>

\* A former process may have left closings that are not settled.
Init ==
    /\ closing \subseteq Accounts
    /\ \A a, b \in closing : MintOf(a) = MintOf(b) => a = b
    /\ done = {} /\ trading = {}

\* The closing transaction of an account is signed.
Begin(a) ==
    /\ a \notin closing \cup done
    /\ MintOf(a) \notin trading
    /\ \A b \in closing : MintOf(b) # MintOf(a)
    /\ closing' = closing \cup {a}
    /\ UNCHANGED <<done, trading>>

\* It is confirmed, failed or proven expired.
End(a) ==
    /\ a \in closing
    /\ closing' = closing \ {a}
    /\ done' = done \cup {a}
    /\ UNCHANGED trading

Enter(m) ==
    /\ m \notin trading
    /\ \A b \in closing : MintOf(b) # m
    /\ trading' = trading \cup {m}
    /\ UNCHANGED <<closing, done>>

Leave(m) ==
    /\ m \in trading
    /\ trading' = trading \ {m}
    /\ UNCHANGED <<closing, done>>

Next ==
    \/ \E a \in Accounts : Begin(a) \/ End(a)
    \/ \E m \in Mints : Enter(m) \/ Leave(m)

Spec == Init /\ [][Next]_vars

=============================================================================
