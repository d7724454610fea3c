----------------------------- MODULE TxnManager -----------------------------
(***************************************************************************)
(* internal/txn/txn.go: the transaction manager every connection shares.   *)
(* It hands out transaction ids, records how transactions end, takes       *)
(* snapshots and decides which tuple versions a snapshot may see.          *)
(*                                                                         *)
(* SetStatus, GetStatus and TakeSnapshot hold the manager's RWMutex for    *)
(* their whole body, and the id counter is a single atomic, so each of     *)
(* them is one step.  IsVisible takes the lock twice, once per XID.  A     *)
(* status never changes once it is recorded (StatusFinal in Session), so   *)
(* its answer is the answer of one atomic evaluation: at the first lookup  *)
(* when xmin is rejected, at the second otherwise.                         *)
(***************************************************************************)
EXTENDS Integers, FiniteSets, FiniteSetsExt

VARIABLES
    nextXID,   \* the last XID handed out; 0 before the first
    statuses   \* the map of recorded outcomes; an absent XID is in progress

InProgress == "in_progress"
Committed  == "committed"
Aborted    == "aborted"
Status     == {InProgress, Committed, Aborted}

XIDs == Nat \ {0}

\* A snapshot; Xmin is recorded by the code and read by nobody.
Snapshots == [Xmin : XIDs, Xmax : XIDs, Xip : SUBSET XIDs]

-----------------------------------------------------------------------------
\* The value NextXID() returns; the caller stores it in nextXID as well.
NextXID == nextXID + 1

SetStatus(xid, status) ==
    statuses' = [x \in DOMAIN statuses \cup {xid} |->
                    IF x = xid THEN status ELSE statuses[x]]

GetStatus(xid) ==
    IF xid \in DOMAIN statuses THEN statuses[xid] ELSE InProgress

CommitXID(xid) == SetStatus(xid, Committed)
AbortXID(xid)  == SetStatus(xid, Aborted)

-----------------------------------------------------------------------------
\* Mutant: an XID counts as committed unless it is known to have aborted.
isXIDCommittedUnlessAborted(xid, snap) ==
    /\ xid < snap.Xmax
    /\ xid \notin snap.Xip
    /\ GetStatus(xid) # Aborted

isXIDCommitted(xid, snap) ==
    /\ xid < snap.Xmax
    /\ xid \notin snap.Xip
    /\ GetStatus(xid) = Committed

IsVisible(xmin, xmax, snap) ==
    /\ isXIDCommitted(xmin, snap)
    /\ xmax = 0 \/ ~isXIDCommitted(xmax, snap)

\* Mutant: Xmax is the last XID handed out instead of the next one.
TakeSnapshotStale ==
    LET xip == {x \in DOMAIN statuses : statuses[x] = InProgress}
    IN  [Xmin |-> Min({nextXID} \cup xip), Xmax |-> nextXID, Xip |-> xip]

TakeSnapshot ==
    LET xmax == nextXID + 1
        xip  == {x \in DOMAIN statuses : statuses[x] = InProgress}
    IN  [Xmin |-> Min({xmax} \cup xip), Xmax |-> xmax, Xip |-> xip]
=============================================================================
