---------------------------- MODULE TxnLifecycle ----------------------------
(***************************************************************************)
(* What the server promises about transactions, without connections,       *)
(* statements or storage: ids are handed out once and in order, and every  *)
(* transaction ends at most once.  An active transaction may commit; one   *)
(* that has met an error is doomed and can only abort; a transaction whose *)
(* client went away, or whose statement gave up, is abandoned: it belongs  *)
(* to none of the sets and can never get an outcome.                       *)
(***************************************************************************)
EXTENDS Naturals

VARIABLES
    last,        \* the last transaction id handed out
    active,      \* transactions that may still commit
    doomed,      \* transactions that can only abort
    committed,
    aborted

tvars == <<last, active, doomed, committed, aborted>>

LInit ==
    /\ last \in Nat
    /\ active = {} /\ doomed = {} /\ aborted = {}
    /\ committed = 1 .. last

\* BEGIN, or an autocommit statement that writes.  BEGIN in a failed
\* transaction abandons it (forgotten is its id) in the same step.
LStart(forgotten) ==
    /\ forgotten \subseteq doomed
    /\ last' = last + 1
    /\ active' = active \cup {last + 1}
    /\ doomed' = doomed \ forgotten
    /\ UNCHANGED <<committed, aborted>>

LCommit(x) ==
    /\ x \in active
    /\ active' = active \ {x}
    /\ committed' = committed \cup {x}
    /\ UNCHANGED <<last, doomed, aborted>>

LAbort(x) ==
    /\ x \in active \cup doomed
    /\ active' = active \ {x}
    /\ doomed' = doomed \ {x}
    /\ aborted' = aborted \cup {x}
    /\ UNCHANGED <<last, committed>>

LFail(x) ==
    /\ x \in active
    /\ active' = active \ {x}
    /\ doomed' = doomed \cup {x}
    /\ UNCHANGED <<last, committed, aborted>>

LAbandon(x) ==
    /\ x \in active \cup doomed
    /\ active' = active \ {x}
    /\ doomed' = doomed \ {x}
    /\ UNCHANGED <<last, committed, aborted>>

LNext ==
    \/ LStart({})
    \/ \E x \in doomed : LStart({x})
    \/ \E x \in active \cup doomed :
            LCommit(x) \/ LAbort(x) \/ LFail(x) \/ LAbandon(x)

LSpec == LInit /\ [][LNext]_tvars
=============================================================================
