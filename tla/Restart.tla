------------------------------ MODULE Restart -------------------------------
(***************************************************************************)
(* Tables, their heap files and transaction ids over several runs of the   *)
(* server.  The catalog and the transaction manager live in memory and are *)
(* rebuilt from nothing by NewServer; the heap files, which are named      *)
(* after table OIDs, are what the process leaves behind.                   *)
(*                                                                         *)
(* A statement is cut where the catalog matters: the server takes its      *)
(* snapshot, the executor looks the table up, and then works with that     *)
(* definition while other connections create and drop tables.  What        *)
(* happens inside one heap file is module Session; here a file is the set  *)
(* of the rows in it, and a row records, as history, the table and the run *)
(* of the server it was inserted in.  Rows are only inserted and read:     *)
(* xmax is 0, as in the tuples INSERT writes, for there is no DELETE or    *)
(* UPDATE here.                                                            *)
(***************************************************************************)
EXTENDS Catalog, TxnManager

CONSTANTS
    Conns,
    MaxOIDs,       \* bound: tables created in one run
    MaxXIDs,       \* bound: XIDs handed out in one run
    MaxRestarts    \* bound: restarts of the server

ASSUME RestartAssumption ==
    MaxOIDs \in Nat /\ MaxXIDs \in Nat /\ MaxRestarts \in Nat

VARIABLES
    files,         \* the data directory: the rows in the file of each OID
    pc,            \* what the connection does
    def,           \* the table definition its statement has looked up
    snap,          \* the statement's snapshot
    xid,           \* the XID of its INSERT
    rows,          \* the rows a SELECT has collected
    run,           \* the number of restarts so far
    durable        \* history: <<run, XID>> of the transactions that committed

rvars == <<tables, nextOID, created, nextXID, statuses, files, pc, def, snap, xid, rows,
           run, durable>>

statementVars == <<pc, def, snap, xid, rows>>

OIDs == FirstOID .. FirstOID + MaxOIDs

FileRows == [xmin : XIDs, table : TableDefs, run : Nat]

NoDef == [OID |-> 0]
NoSnapshot == [Xmin |-> 1, Xmax |-> 1, Xip |-> {}]

\* NewCatalog, NewTxnManager and NewServer, over an empty data directory.
RInit ==
    /\ tables = << >> /\ nextOID = FirstOID /\ created = 0
    /\ nextXID = 0 /\ statuses = << >>
    /\ pc = [c \in Conns |-> "idle"]
    /\ def = [c \in Conns |-> NoDef]
    /\ snap = [c \in Conns |-> NoSnapshot]
    /\ xid = [c \in Conns |-> 0]
    /\ rows = [c \in Conns |-> {}]
    /\ files = [o \in OIDs |-> {}]
    /\ run = 0
    /\ durable = {}

-----------------------------------------------------------------------------
Goto(c, l) == pc' = [pc EXCEPT ![c] = l]

\* CREATE TABLE and DROP TABLE of any connection: one call of the catalog.
\* Neither belongs to the transaction it is executed in.
executeCreateTable(name) ==
    /\ nextOID < FirstOID + MaxOIDs
    /\ CreateTable(name)
    /\ UNCHANGED <<nextXID, statuses, files, statementVars, run, durable>>

executeDropTable(name) ==
    /\ DropTable(name)
    /\ UNCHANGED <<nextXID, statuses, files, statementVars, run, durable>>

\* The server takes the snapshot and hands the statement to an executor.
StartStatement(c) ==
    /\ pc[c] = "idle"
    /\ snap' = [snap EXCEPT ![c] = TakeSnapshot]
    /\ Goto(c, "open")
    /\ UNCHANGED <<catalogVars, nextXID, statuses, files, def, xid, rows, run,
                   durable>>

\* The executor looks the table up.
LookUp(c, op, name) ==
    /\ pc[c] = "open"
    /\ name \in DOMAIN tables
    /\ def' = [def EXCEPT ![c] = GetTable(name)]
    /\ Goto(c, op)
    /\ UNCHANGED <<catalogVars, nextXID, statuses, files, snap, xid, rows, run,
                   durable>>

\* A statement that ends without having stored anything.
EndStatement(c) ==
    /\ Goto(c, "idle")
    /\ def' = [def EXCEPT ![c] = NoDef]
    /\ snap' = [snap EXCEPT ![c] = NoSnapshot]
    /\ xid' = [xid EXCEPT ![c] = 0]
    /\ rows' = [rows EXCEPT ![c] = {}]
    /\ UNCHANGED <<catalogVars, nextXID, files, run>>

\* No table of this name, or invalid columns or values.
StatementFails(c) ==
    /\ \/ pc[c] = "open" /\ \E name \in Names : name \notin DOMAIN tables
       \/ pc[c] \in {"SELECT", "INSERT"}
    /\ EndStatement(c)
    /\ UNCHANGED <<statuses, durable>>

\* Mutant: the row is encoded before an XID has been drawn for it.
executeInsertEarly(c) ==
    /\ pc[c] = "INSERT"
    /\ nextXID < MaxXIDs
    /\ nextXID' = NextXID
    /\ xid' = [xid EXCEPT ![c] = NextXID]
    /\ files' = [files EXCEPT ![def[c].OID] =
                    @ \cup {[xmin |-> xid[c], table |-> def[c], run |-> run]}]
    /\ Goto(c, "end")
    /\ UNCHANGED <<catalogVars, statuses, def, snap, rows, run, durable>>

\* INSERT opens the file of the definition it looked up, creating it if there
\* is none, and adds the row.
executeInsert(c) ==
    /\ pc[c] = "INSERT"
    /\ nextXID < MaxXIDs
    /\ nextXID' = NextXID
    /\ xid' = [xid EXCEPT ![c] = NextXID]
    /\ files' = [files EXCEPT ![def[c].OID] =
                    @ \cup {[xmin |-> NextXID, table |-> def[c], run |-> run]}]
    /\ Goto(c, "end")
    /\ UNCHANGED <<catalogVars, statuses, def, snap, rows, run, durable>>

\* The INSERT's transaction ends, by autocommit or by COMMIT or ROLLBACK.
Commit(c) ==
    /\ pc[c] = "end"
    /\ CommitXID(xid[c])
    /\ durable' = durable \cup {<<run, xid[c]>>}
    /\ EndStatement(c)

Abort(c) ==
    /\ pc[c] = "end"
    /\ AbortXID(xid[c])
    /\ EndStatement(c)
    /\ UNCHANGED durable

executeSelect(c) ==
    /\ pc[c] = "SELECT"
    /\ rows' = [rows EXCEPT ![c] =
                   {r \in files[def[c].OID] : IsVisible(r.xmin, 0, snap[c])}]
    /\ Goto(c, "respond")
    /\ UNCHANGED <<catalogVars, nextXID, statuses, files, def, snap, xid, run,
                   durable>>

Respond(c) ==
    /\ pc[c] = "respond"
    /\ EndStatement(c)
    /\ UNCHANGED <<statuses, durable>>

\* Mutant: the transaction manager outlives the restart, XIDs do not.
RestartKeepsOutcomes ==
    /\ run < MaxRestarts
    /\ run' = run + 1
    /\ tables' = << >> /\ nextOID' = FirstOID
    /\ nextXID' = 0
    /\ pc' = [c \in Conns |-> "idle"]
    /\ def' = [c \in Conns |-> NoDef]
    /\ snap' = [c \in Conns |-> NoSnapshot]
    /\ xid' = [c \in Conns |-> 0]
    /\ rows' = [c \in Conns |-> {}]
    /\ UNCHANGED <<created, statuses, files, durable>>

\* The process ends, at any moment, and is started again: the catalog and the
\* transaction manager start from nothing, the files are still there.
RestartServer ==
    /\ run < MaxRestarts
    /\ run' = run + 1
    /\ tables' = << >> /\ nextOID' = FirstOID
    /\ nextXID' = 0 /\ statuses' = << >>
    /\ pc' = [c \in Conns |-> "idle"]
    /\ def' = [c \in Conns |-> NoDef]
    /\ snap' = [c \in Conns |-> NoSnapshot]
    /\ xid' = [c \in Conns |-> 0]
    /\ rows' = [c \in Conns |-> {}]
    /\ UNCHANGED <<created, files, durable>>

RNext ==
    \/ \E name \in Names : executeCreateTable(name) \/ executeDropTable(name)
    \/ \E c \in Conns :
        \/ StartStatement(c)
        \/ \E op \in {"SELECT", "INSERT"}, name \in Names : LookUp(c, op, name)
        \/ StatementFails(c) \/ executeInsert(c) \/ Commit(c) \/ Abort(c)
        \/ executeSelect(c) \/ Respond(c)
    \/ RestartServer

RSpec == RInit /\ [][RNext]_rvars

-----------------------------------------------------------------------------
\* A statement between its lookup and its end.
Working == {"SELECT", "INSERT", "end", "respond"}

\* Besides the types: whatever XID is held or decided has been drawn in this run,
\* an INSERT that is about to end has one, and a statement at work has a table
\* definition with an OID that this run has given out.
RTypeOK ==
    /\ tables \in [DOMAIN tables -> TableDefs] /\ DOMAIN tables \subseteq Names
    /\ nextOID \in OIDs
    /\ created \in Nat
    /\ nextXID \in 0 .. MaxXIDs
    /\ statuses \in [DOMAIN statuses -> {Committed, Aborted}]
    /\ DOMAIN statuses \subseteq 1 .. nextXID
    /\ files \in [OIDs -> SUBSET FileRows]
    /\ pc \in [Conns -> {"idle", "open"} \cup Working]
    /\ def \in [Conns -> TableDefs \cup {NoDef}]
    /\ \A c \in Conns : pc[c] \in Working => def[c].OID \in FirstOID .. nextOID - 1
    /\ snap \in [Conns -> Snapshots]
    /\ xid \in [Conns -> 0 .. nextXID]
    /\ \A c \in Conns : xid[c] # 0 <=> pc[c] = "end"
    /\ rows \in [Conns -> SUBSET FileRows]
    /\ run \in 0 .. MaxRestarts
    /\ durable \subseteq (0 .. MaxRestarts) \X (1 .. MaxXIDs)

\* Of the rows inserted since the server started, a SELECT returns only those
\* of the very table it looked up, that is of the same CREATE TABLE: not those of
\* a dropped table of the same name, and not those that an INSERT with a
\* definition from before the DROP stores late.
ReadsOwnTable ==
    \A c \in Conns : \A r \in rows[c] : r.run = run => r.table = def[c]

\* Of the rows inserted since the server started, a SELECT returns only those
\* whose transaction has committed in this run: neither an outcome recorded for
\* the same XID by an earlier run, nor another INSERT still under way, lets a
\* row through.
ReadsOwnRunCommitted ==
    \A c \in Conns : \A r \in rows[c] : r.run = run => <<run, r.xmin>> \in durable

-----------------------------------------------------------------------------
\* README 4.3: a tuple is visible if its xmin is committed.  So no SELECT
\* returns a row whose inserting transaction never committed.
VisibleOnlyIfCommitted ==
    \A c \in Conns : \A r \in rows[c] : <<r.run, r.xmin>> \in durable
=============================================================================
