--------------------------- MODULE RestartProofs ----------------------------
(***************************************************************************)
(* Within one run of the server no table ever shows the rows of another,   *)
(* for any number of tables, connections, statements and earlier runs.     *)
(***************************************************************************)
EXTENDS Restart, TLAPS

\* d is a definition the catalog of this run has handed out.
Issued(d) == d \in TableDefs /\ d.OID >= FirstOID /\ d.OID < nextOID

\* The definitions in use: by the catalog, by a statement, or as the table of
\* a row inserted in this run.
InCatalog(d)    == \E n \in DOMAIN tables : d = tables[n]
InStatement(d)  == \E c \in Conns : pc[c] \in Working /\ d = def[c]
InFile(d)       == \E o \in OIDs : \E r \in files[o] : r.run = run /\ d = r.table
Known(d)        == InCatalog(d) \/ InStatement(d) \/ InFile(d)

Shape ==
    /\ nextOID \in OIDs /\ created \in Nat
    /\ run \in Nat
    /\ DOMAIN tables \subseteq Names
    /\ pc \in [Conns -> {"idle", "open"} \cup Working]
    /\ DOMAIN def = Conns /\ DOMAIN rows = Conns /\ DOMAIN files = OIDs

\* An OID stands for one definition: whoever uses the same OID means the same
\* table.  This is what is inductive about ReadsOwnTable; that the OIDs in use
\* are below nextOID keeps a new table apart from all of them.
OIDsUnique ==
    /\ \A d : Known(d) => Issued(d)
    /\ \A d, e : Known(d) /\ Known(e) /\ d.OID = e.OID => d = e

\* A row is in the file its table's OID names, and in no later run's.
RowsInPlace ==
    \A o \in OIDs : \A r \in files[o] :
        /\ r.run \in Nat /\ r.run <= run
        /\ r.run = run => r.table.OID = o

\* A statement's rows come from the file of its definition.
RowsFromFile ==
    \A c \in Conns :
        /\ pc[c] # "respond" => rows[c] = {}
        /\ pc[c] = "respond" => /\ def[c].OID \in OIDs
                                /\ rows[c] \subseteq files[def[c].OID]

RInv == Shape /\ OIDsUnique /\ RowsInPlace /\ RowsFromFile

\* The inductive invariant implies the property.
LEMMA RInvImplies == RInv => ReadsOwnTable
  <1> SUFFICES ASSUME RInv, NEW c \in Conns, NEW r \in rows[c], r.run = run
               PROVE  r.table = def[c]
    BY DEF ReadsOwnTable
  <1>1. pc[c] = "respond" /\ def[c].OID \in OIDs /\ r \in files[def[c].OID]
    BY DEF RInv, RowsFromFile
  <1>2. r.table.OID = def[c].OID
    BY <1>1 DEF RInv, RowsInPlace
  <1>3. InFile(r.table) /\ InStatement(def[c])
    BY <1>1 DEF InFile, InStatement, Working
  <1> QED
    BY <1>2, <1>3 DEF RInv, OIDsUnique, Known

\* A server that has just started, first or again, knows no definition.
LEMMA RInitInv == RInit => RInv
  <1> SUFFICES ASSUME RInit PROVE RInv
    OBVIOUS
  <1>1. Shape
    BY RestartAssumption DEF RInit, Shape, FirstOID, OIDs
  <1>2. \A d : ~Known(d)
    BY DEF RInit, Known, InCatalog, InStatement, InFile, Working
  <1>3. RowsInPlace /\ RowsFromFile
    BY DEF RInit, RowsInPlace, RowsFromFile
  <1> QED
    BY <1>1, <1>2, <1>3 DEF RInv, OIDsUnique

\* After a restart every row on disk belongs to an earlier run.
LEMMA RestartInv ==
    ASSUME RInv, RestartServer
    PROVE  RInv'
  <1> USE DEF RestartServer
  <1>1. run' = run + 1 /\ run \in Nat /\ DOMAIN files = OIDs
    BY DEF RInv, Shape
  <1>2. Shape'
    BY <1>1, RestartAssumption DEF Shape, FirstOID, OIDs
  <1>3. \A o \in OIDs : \A r \in files[o] : r.run \in Nat /\ r.run <= run' /\ r.run # run'
    BY <1>1 DEF RInv, RowsInPlace
  <1>4. \A d : ~Known(d)'
    BY <1>3 DEF Known, InCatalog, InStatement, InFile, Working
  <1>5. RowsInPlace' /\ RowsFromFile'
    BY <1>3 DEF RowsInPlace, RowsFromFile
  <1> QED
    BY <1>2, <1>4, <1>5 DEF RInv, OIDsUnique

\* A step that brings no definition into use keeps OIDs unique.
LEMMA NoNewDefinition ==
    ASSUME OIDsUnique, nextOID' = nextOID, \A d : Known(d)' => Known(d)
    PROVE  OIDsUnique'
  BY DEF OIDsUnique, Issued

\* CREATE TABLE uses an OID that nobody uses.
LEMMA CreateInv ==
    ASSUME RInv, NEW name \in Names, executeCreateTable(name)
    PROVE  RInv'
  <1> USE DEF executeCreateTable, CreateTable, statementVars
  <1> DEFINE new == [OID |-> nextOID, Name |-> name, made |-> created + 1]
  <1>1. created \in Nat /\ nextOID \in Nat /\ nextOID >= FirstOID /\ nextOID' = nextOID + 1
    BY RestartAssumption DEF RInv, Shape, OIDs, FirstOID
  <1>2. Shape'
    BY <1>1, RestartAssumption DEF RInv, Shape, OIDs, FirstOID
  <1>3. \A d : Known(d)' => Known(d) \/ d = new
    <2>1. \A d : InCatalog(d)' => InCatalog(d) \/ d = new
      BY DEF InCatalog
    <2>2. \A d : (InStatement(d)' <=> InStatement(d)) /\ (InFile(d)' <=> InFile(d))
      BY DEF InStatement, InFile
    <2> QED
      BY <2>1, <2>2 DEF Known
  <1>4. /\ \A d : Known(d) => Issued(d)
        /\ \A d, e : Known(d) /\ Known(e) /\ d.OID = e.OID => d = e
    BY DEF RInv, OIDsUnique
  <1>5. OIDsUnique'
    <2>1. ASSUME NEW d, Known(d)'
          PROVE  Issued(d)'
      BY <1>1, <1>3, <1>4, <2>1 DEF Issued, TableDefs, FirstOID
    <2>2. \A d : Known(d) => d.OID # new.OID
      BY <1>1, <1>4 DEF Issued, TableDefs
    <2> QED
      BY <1>3, <1>4, <2>1, <2>2 DEF OIDsUnique
  <1>6. RowsInPlace' /\ RowsFromFile'
    BY DEF RInv, RowsInPlace, RowsFromFile
  <1> QED
    BY <1>2, <1>5, <1>6 DEF RInv

\* DROP TABLE forgets a definition; statements and rows that use it keep it.
LEMMA DropInv ==
    ASSUME RInv, NEW name \in Names, executeDropTable(name)
    PROVE  RInv'
  <1> USE DEF executeDropTable, DropTable, statementVars
  <1>1. /\ DOMAIN tables' \subseteq DOMAIN tables
        /\ \A n \in DOMAIN tables' : tables'[n] = tables[n]
    BY DEF Restrict
  <1>2. Shape'
    BY <1>1 DEF RInv, Shape
  <1>3. \A d : Known(d)' => Known(d)
    BY <1>1 DEF Known, InCatalog, InStatement, InFile
  <1>4. RowsInPlace' /\ RowsFromFile'
    BY DEF RInv, RowsInPlace, RowsFromFile
  <1> QED
    BY <1>2, <1>3, <1>4, NoNewDefinition DEF RInv

\* A statement takes its snapshot; it has no definition yet.
LEMMA StartInv ==
    ASSUME RInv, NEW c \in Conns, StartStatement(c)
    PROVE  RInv'
  <1> USE DEF StartStatement, Goto, catalogVars
  <1>0. pc \in [Conns -> {"idle", "open"} \cup Working]
    BY DEF RInv, Shape
  <1>1. Shape'
    BY DEF RInv, Shape
  <1>2. pc'[c] = "open" /\ pc[c] = "idle" /\ \A e \in Conns \ {c} : pc'[e] = pc[e]
    BY <1>0
  <1>3. \A d : Known(d)' => Known(d)
    BY <1>2 DEF Known, InStatement, InCatalog, InFile, Working
  <1>4. RowsInPlace' /\ RowsFromFile'
    BY <1>2 DEF RInv, RowsInPlace, RowsFromFile
  <1> QED
    BY <1>1, <1>3, <1>4, NoNewDefinition DEF RInv

\* A statement starts to use a definition of the catalog.
LEMMA LookUpInv ==
    ASSUME RInv, NEW c \in Conns, NEW op \in {"SELECT", "INSERT"},
           NEW name \in Names, LookUp(c, op, name)
    PROVE  RInv'
  <1> USE DEF LookUp, Goto, GetTable, catalogVars
  <1>0. pc \in [Conns -> {"idle", "open"} \cup Working]
        /\ DOMAIN def = Conns
    BY DEF RInv, Shape
  <1>1. Shape'
    BY DEF RInv, Shape, Working
  <1>2. /\ def'[c] = tables[name] /\ pc'[c] = op
        /\ \A e \in Conns \ {c} : def'[e] = def[e] /\ pc'[e] = pc[e]
    BY <1>0
  <1>3. \A d : Known(d)' => Known(d)
    <2>1. \A d : InStatement(d)' => InStatement(d) \/ InCatalog(d)
      BY <1>2 DEF InStatement, InCatalog
    <2>2. \A d : (InCatalog(d)' <=> InCatalog(d)) /\ (InFile(d)' <=> InFile(d))
      BY DEF InCatalog, InFile
    <2> QED
      BY <2>1, <2>2 DEF Known
  <1>4. RowsInPlace' /\ RowsFromFile'
    BY <1>2 DEF RInv, RowsInPlace, RowsFromFile
  <1> QED
    BY <1>1, <1>3, <1>4, NoNewDefinition DEF RInv

\* A statement ends.
LEMMA EndInv ==
    ASSUME RInv, NEW c \in Conns, EndStatement(c)
    PROVE  RInv'
  <1> USE DEF EndStatement, Goto, catalogVars
  <1>0. pc \in [Conns -> {"idle", "open"} \cup Working]
        /\ DOMAIN def = Conns /\ DOMAIN rows = Conns
    BY DEF RInv, Shape
  <1>1. Shape'
    BY DEF RInv, Shape
  <1>2. /\ pc'[c] = "idle" /\ rows'[c] = {}
        /\ \A e \in Conns \ {c} : def'[e] = def[e] /\ pc'[e] = pc[e] /\ rows'[e] = rows[e]
    BY <1>0
  <1>3. \A d : Known(d)' => Known(d)
    BY <1>2 DEF Known, InStatement, InCatalog, InFile, Working
  <1>4. RowsInPlace' /\ RowsFromFile'
    BY <1>2 DEF RInv, RowsInPlace, RowsFromFile
  <1> QED
    BY <1>1, <1>3, <1>4, NoNewDefinition DEF RInv

\* INSERT stores a row of its definition in the file of that definition.
LEMMA InsertInv ==
    ASSUME RInv, NEW c \in Conns, executeInsert(c)
    PROVE  RInv'
  <1> USE DEF executeInsert, Goto, catalogVars
  <1> DEFINE new == [xmin |-> NextXID, table |-> def[c], run |-> run]
             oid == def[c].OID
  <1>0. /\ pc \in [Conns -> {"idle", "open"} \cup Working]
        /\ DOMAIN files = OIDs /\ run \in Nat
    BY DEF RInv, Shape
  <1>1. Shape'
    BY DEF RInv, Shape, Working
  <1>2. /\ pc'[c] = "end" /\ pc[c] = "INSERT"
        /\ \A e \in Conns \ {c} : pc'[e] = pc[e]
    BY <1>0
  <1>3. \A o \in OIDs : files'[o] = IF o = oid THEN files[o] \cup {new} ELSE files[o]
    BY <1>0
  <1>4. new.run = run /\ new.table = def[c] /\ run' = run
    OBVIOUS
  <1> HIDE DEF new
  <1>5. \A d : Known(d)' => Known(d)
    <2>1. \A d : InFile(d)' => InFile(d) \/ InStatement(d)
      BY <1>2, <1>3, <1>4 DEF InFile, InStatement, Working
    <2>2. \A d : (InCatalog(d)' <=> InCatalog(d)) /\ (InStatement(d)' => InStatement(d))
      BY <1>2 DEF InCatalog, InStatement, Working
    <2> QED
      BY <2>1, <2>2 DEF Known
  <1>6. RowsInPlace'
    BY <1>0, <1>3, <1>4 DEF RInv, RowsInPlace
  <1>7. RowsFromFile'
    BY <1>2, <1>3 DEF RInv, RowsFromFile
  <1> QED
    BY <1>1, <1>5, <1>6, <1>7, NoNewDefinition DEF RInv

\* SELECT collects rows of the file of its definition.
LEMMA SelectInv ==
    ASSUME RInv, NEW c \in Conns, executeSelect(c)
    PROVE  RInv'
  <1> USE DEF executeSelect, Goto, catalogVars
  <1>0. /\ pc \in [Conns -> {"idle", "open"} \cup Working]
        /\ DOMAIN rows = Conns
    BY DEF RInv, Shape
  <1>1. Shape'
    BY DEF RInv, Shape, Working
  <1>2. /\ pc'[c] = "respond" /\ pc[c] = "SELECT"
        /\ rows'[c] \subseteq files[def[c].OID]
        /\ \A e \in Conns \ {c} : pc'[e] = pc[e] /\ rows'[e] = rows[e]
    BY <1>0
  <1>3. \A d : Known(d)' => Known(d)
    BY <1>2 DEF Known, InStatement, InCatalog, InFile, Working
  <1>4. def[c].OID \in OIDs
    <2>1. Issued(def[c])
      BY <1>2 DEF RInv, OIDsUnique, Known, InStatement, Working
    <2> QED
      BY <2>1, RestartAssumption DEF Issued, TableDefs, RInv, Shape, OIDs, FirstOID
  <1>5. RowsInPlace' /\ RowsFromFile'
    BY <1>2, <1>4 DEF RInv, RowsInPlace, RowsFromFile
  <1> QED
    BY <1>1, <1>3, <1>5, NoNewDefinition DEF RInv

\* Every step keeps the invariant.
LEMMA RNextInv == RInv /\ [RNext]_rvars => RInv'
  <1> SUFFICES ASSUME RInv, [RNext]_rvars PROVE RInv'
    OBVIOUS
  <1>1. CASE UNCHANGED rvars
    BY <1>1 DEF rvars, RInv, Shape, OIDsUnique, Issued, Known, InCatalog,
                InStatement, InFile, RowsInPlace, RowsFromFile
  <1>2. CASE RNext
    BY <1>2, CreateInv, DropInv, StartInv, LookUpInv, EndInv, InsertInv, SelectInv, RestartInv
       DEF RNext, StatementFails, Commit, Abort, Respond
  <1> QED
    BY <1>1, <1>2

\* However CREATE TABLE, DROP TABLE, restarts and statements interleave, a
\* SELECT returns no row that was inserted into another table in this run.
THEOREM TablesStayApart == RSpec => []ReadsOwnTable
  BY RInitInv, RNextInv, RInvImplies, PTL DEF RSpec

-----------------------------------------------------------------------------
(***************************************************************************)
(* Type correctness, with what it says of XIDs and definitions.  It rests  *)
(* on RInv: the definition of a statement at work is one the catalog of    *)
(* this run handed out, so that it names a file.                           *)
(***************************************************************************)

\* Nobody records the status InProgress, so a snapshot's Xip is empty.
LEMMA RestartSnapshot ==
    ASSUME RTypeOK
    PROVE  TakeSnapshot \in Snapshots
  <1>1. nextXID + 1 \in XIDs
    BY RestartAssumption DEF RTypeOK, XIDs
  <1>2. {x \in DOMAIN statuses : statuses[x] = InProgress} = {}
    BY DEF RTypeOK, InProgress, Committed, Aborted
  <1>3. Min({nextXID + 1}) = nextXID + 1
    BY <1>1 DEF Min, XIDs
  <1>4. {nextXID + 1} \cup {} = {nextXID + 1}
    OBVIOUS
  <1>5. TakeSnapshot = [Xmin |-> nextXID + 1, Xmax |-> nextXID + 1, Xip |-> {}]
    BY <1>2, <1>3, <1>4, Zenon DEF TakeSnapshot
  <1> QED
    BY <1>1, <1>5 DEF Snapshots

\* An outcome is recorded for one XID.
LEMMA RestartStatus ==
    ASSUME RTypeOK, NEW x \in 1 .. nextXID, NEW s \in {Committed, Aborted}, SetStatus(x, s)
    PROVE  /\ statuses' \in [DOMAIN statuses' -> {Committed, Aborted}]
           /\ DOMAIN statuses' \subseteq 1 .. nextXID
  BY DEF SetStatus, RTypeOK

\* A server that has just started is well typed.
LEMMA TypeInitInv == RInit => RTypeOK
  BY RestartAssumption DEF RInit, RTypeOK, FirstOID, OIDs, TableDefs, NoDef,
     NoSnapshot, Snapshots, XIDs, Working

\* CREATE TABLE and DROP TABLE only change the catalog.
LEMMA TypeDefinition ==
    ASSUME RTypeOK, NEW name \in Names, executeCreateTable(name) \/ executeDropTable(name)
    PROVE  RTypeOK'
  <1> USE DEF executeCreateTable, executeDropTable, CreateTable, DropTable, statementVars
  <1>1. /\ nextOID \in Nat /\ nextOID' \in OIDs /\ nextOID' >= nextOID
        /\ created \in Nat /\ created' \in Nat
    BY RestartAssumption DEF RTypeOK, OIDs, FirstOID
  <1>2. tables' \in [DOMAIN tables' -> TableDefs] /\ DOMAIN tables' \subseteq Names
    <2>1. [OID |-> nextOID, Name |-> name, made |-> created + 1] \in TableDefs
      BY <1>1 DEF TableDefs
    <2>2. tables \in [DOMAIN tables -> TableDefs] /\ DOMAIN tables \subseteq Names
      BY DEF RTypeOK
    <2>3. CASE executeCreateTable(name)
      BY <2>1, <2>2, <2>3
    <2>4. CASE executeDropTable(name)
      BY <2>2, <2>4 DEF Restrict
    <2> QED
      BY <2>3, <2>4
  <1>3. \A c \in Conns : pc'[c] \in Working => def'[c].OID \in FirstOID .. nextOID' - 1
    <2>1. nextOID' \in Nat
      BY <1>1 DEF OIDs, FirstOID
    <2> QED
      BY <1>1, <2>1 DEF RTypeOK, FirstOID
  <1> QED
    BY <1>1, <1>2, <1>3 DEF RTypeOK

\* A statement takes its snapshot.
LEMMA TypeStart ==
    ASSUME RTypeOK, NEW c \in Conns, StartStatement(c)
    PROVE  RTypeOK'
  <1> USE DEF StartStatement, Goto, catalogVars
  <1>1. TakeSnapshot \in Snapshots
    BY RestartSnapshot
  <1>2. pc'[c] = "open" /\ pc[c] = "idle" /\ \A e \in Conns \ {c} : pc'[e] = pc[e]
    BY DEF RTypeOK
  <1>3. \A e \in Conns : pc'[e] \in Working => def'[e].OID \in FirstOID .. nextOID' - 1
    BY <1>2 DEF RTypeOK, Working
  <1>4. \A e \in Conns : xid'[e] # 0 <=> pc'[e] = "end"
    BY <1>2 DEF RTypeOK
  <1>5. pc' \in [Conns -> {"idle", "open"} \cup Working] /\ snap' \in [Conns -> Snapshots]
    BY <1>1 DEF RTypeOK
  <1> QED
    BY <1>3, <1>4, <1>5 DEF RTypeOK

\* A definition that a statement works with is typed and names a file.
LEMMA DefinitionNamesFile ==
    ASSUME RInv, NEW c \in Conns, pc[c] \in Working
    PROVE  /\ def[c] \in TableDefs /\ def[c].OID \in OIDs
           /\ def[c].OID \in FirstOID .. nextOID - 1
  <1>1. Issued(def[c])
    BY DEF RInv, OIDsUnique, Known, InStatement
  <1> QED
    BY <1>1, RestartAssumption DEF Issued, TableDefs, RInv, Shape, OIDs, FirstOID

\* A statement takes a definition that is in the catalog.
LEMMA TypeLookUp ==
    ASSUME RTypeOK, RInv', NEW c \in Conns, NEW op \in {"SELECT", "INSERT"},
           NEW name \in Names, LookUp(c, op, name)
    PROVE  RTypeOK'
  <1> USE DEF LookUp, Goto, GetTable, catalogVars
  <1>1. tables[name] \in TableDefs
    BY DEF RTypeOK
  <1>2. pc'[c] = op /\ pc[c] = "open" /\ \A e \in Conns \ {c} : pc'[e] = pc[e]
    BY DEF RTypeOK
  <1>3. ASSUME NEW e \in Conns, pc'[e] \in Working
        PROVE  def'[e].OID \in FirstOID .. nextOID' - 1
    <2>1. Issued(def[e])'
      BY <1>3 DEF RInv, OIDsUnique, Known, InStatement
    <2>2. nextOID' \in Nat
      BY RestartAssumption DEF RTypeOK, OIDs, FirstOID
    <2> QED
      BY <2>1, <2>2 DEF Issued, TableDefs, FirstOID
  <1>4. \A e \in Conns : xid'[e] # 0 <=> pc'[e] = "end"
    BY <1>2 DEF RTypeOK
  <1>5. /\ pc' \in [Conns -> {"idle", "open"} \cup Working]
        /\ def' \in [Conns -> TableDefs \cup {NoDef}]
    BY <1>1 DEF RTypeOK, Working
  <1> QED
    BY <1>3, <1>4, <1>5 DEF RTypeOK

\* A statement ends; a COMMIT or an abort records the outcome of its XID.
LEMMA TypeEnd ==
    ASSUME RTypeOK, NEW c \in Conns,
           StatementFails(c) \/ Commit(c) \/ Abort(c) \/ Respond(c)
    PROVE  RTypeOK'
  <1> USE DEF StatementFails, Commit, Abort, Respond
  <1>1. EndStatement(c) /\ nextXID' = nextXID /\ nextXID \in Nat
    BY RestartAssumption DEF EndStatement, RTypeOK
  <1>2. pc[c] = "end" => xid[c] \in 1 .. nextXID /\ xid[c] \in 1 .. MaxXIDs
    BY RestartAssumption DEF RTypeOK
  <1>3. /\ statuses' \in [DOMAIN statuses' -> {Committed, Aborted}]
        /\ DOMAIN statuses' \subseteq 1 .. nextXID'
    <2>1. CASE statuses' = statuses
      BY <1>1, <2>1 DEF RTypeOK
    <2>2. CASE Commit(c) \/ Abort(c)
      BY <1>1, <1>2, <2>2, RestartStatus DEF CommitXID, AbortXID
    <2> QED
      BY <2>1, <2>2
  <1>4. durable' \subseteq (0 .. MaxRestarts) \X (1 .. MaxXIDs)
    BY <1>2 DEF RTypeOK
  <1>5. NoSnapshot \in Snapshots
    BY DEF NoSnapshot, Snapshots, XIDs
  <1>6. /\ pc'[c] = "idle" /\ xid'[c] = 0
        /\ \A e \in Conns \ {c} : pc'[e] = pc[e] /\ xid'[e] = xid[e] /\ def'[e] = def[e]
    BY <1>1 DEF EndStatement, Goto, RTypeOK
  <1>7. \A e \in Conns : xid'[e] # 0 <=> pc'[e] = "end"
    BY <1>6 DEF RTypeOK
  <1>8. \A e \in Conns : pc'[e] \in Working => def'[e].OID \in FirstOID .. nextOID' - 1
    BY <1>1, <1>6 DEF RTypeOK, Working, EndStatement, catalogVars
  <1>9. /\ pc' \in [Conns -> {"idle", "open"} \cup Working]
        /\ def' \in [Conns -> TableDefs \cup {NoDef}] /\ snap' \in [Conns -> Snapshots]
        /\ xid' \in [Conns -> 0 .. nextXID] /\ rows' \in [Conns -> SUBSET FileRows]
    BY <1>1, <1>5 DEF EndStatement, Goto, RTypeOK
  <1> QED
    BY <1>1, <1>3, <1>4, <1>7, <1>8, <1>9 DEF EndStatement, catalogVars, RTypeOK

\* INSERT stores a typed row, in a file there is, under the XID it has drawn.
LEMMA TypeInsert ==
    ASSUME RTypeOK, RInv, NEW c \in Conns, executeInsert(c)
    PROVE  RTypeOK'
  <1> USE DEF executeInsert, Goto, catalogVars
  <1>1. /\ NextXID \in 1 .. MaxXIDs /\ nextXID \in Nat
        /\ nextXID' = NextXID /\ NextXID = nextXID + 1
    BY RestartAssumption DEF RTypeOK, NextXID
  <1>2. pc[c] = "INSERT" /\ pc[c] \in Working
    BY DEF Working
  <1>3. def[c] \in TableDefs /\ def[c].OID \in OIDs
    BY <1>2, DefinitionNamesFile
  <1>4. [xmin |-> NextXID, table |-> def[c], run |-> run] \in FileRows
    BY <1>1, <1>3, RestartAssumption DEF RTypeOK, FileRows, XIDs
  <1>5. files' \in [OIDs -> SUBSET FileRows]
    BY <1>3, <1>4 DEF RTypeOK
  <1>6. /\ pc'[c] = "end" /\ xid'[c] = NextXID
        /\ \A e \in Conns \ {c} : pc'[e] = pc[e] /\ xid'[e] = xid[e]
    BY DEF RTypeOK
  <1>7. /\ nextXID' \in 0 .. MaxXIDs /\ xid' \in [Conns -> 0 .. nextXID']
        /\ DOMAIN statuses' \subseteq 1 .. nextXID'
    BY <1>1 DEF RTypeOK
  <1>8. \A e \in Conns : xid'[e] # 0 <=> pc'[e] = "end"
    BY <1>1, <1>6 DEF RTypeOK
  <1>9. \A e \in Conns : pc'[e] \in Working => def'[e].OID \in FirstOID .. nextOID' - 1
    BY <1>2, <1>6 DEF RTypeOK
  <1>10. pc' \in [Conns -> {"idle", "open"} \cup Working]
    BY DEF RTypeOK, Working
  <1> QED
    BY <1>5, <1>7, <1>8, <1>9, <1>10 DEF RTypeOK

\* SELECT returns rows of a file.
LEMMA TypeSelect ==
    ASSUME RTypeOK, RInv, NEW c \in Conns, executeSelect(c)
    PROVE  RTypeOK'
  <1> USE DEF executeSelect, Goto, catalogVars
  <1>1. pc[c] = "SELECT" /\ pc[c] \in Working
    BY DEF Working
  <1>2. files[def[c].OID] \subseteq FileRows
    BY <1>1, DefinitionNamesFile DEF RTypeOK
  <1>3. pc'[c] = "respond" /\ \A e \in Conns \ {c} : pc'[e] = pc[e]
    BY DEF RTypeOK
  <1>4. \A e \in Conns : xid'[e] # 0 <=> pc'[e] = "end"
    BY <1>1, <1>3 DEF RTypeOK
  <1>5. \A e \in Conns : pc'[e] \in Working => def'[e].OID \in FirstOID .. nextOID' - 1
    BY <1>1, <1>3 DEF RTypeOK
  <1>6. pc' \in [Conns -> {"idle", "open"} \cup Working] /\ rows' \in [Conns -> SUBSET FileRows]
    BY <1>2 DEF RTypeOK, Working
  <1> QED
    BY <1>4, <1>5, <1>6 DEF RTypeOK

\* A restart leaves the files and their rows as they are.
LEMMA TypeRestart ==
    ASSUME RTypeOK, RestartServer
    PROVE  RTypeOK'
  <1> USE DEF RestartServer
  <1>1. NoSnapshot \in Snapshots /\ FirstOID \in OIDs /\ run' \in 0 .. MaxRestarts
    BY RestartAssumption DEF NoSnapshot, Snapshots, XIDs, OIDs, FirstOID, RTypeOK
  <1> QED
    BY <1>1, RestartAssumption DEF RTypeOK, Working

\* Every step keeps the types.
LEMMA TypeNextInv == RInv /\ RInv' /\ RTypeOK /\ [RNext]_rvars => RTypeOK'
  <1> SUFFICES ASSUME RInv, RInv', RTypeOK, [RNext]_rvars PROVE RTypeOK'
    OBVIOUS
  <1>1. CASE UNCHANGED rvars
    BY <1>1 DEF rvars, RTypeOK
  <1>2. CASE RNext
    BY <1>2, TypeDefinition, TypeStart, TypeLookUp, TypeEnd, TypeInsert, TypeSelect,
       TypeRestart DEF RNext
  <1> QED
    BY <1>1, <1>2

\* Over any number of restarts the state is well typed; every XID that is held or
\* decided has been drawn in the present run, and a statement at work has a table
\* definition whose OID the present run has given out and which names a file.
THEOREM RestartTypeCorrect == RSpec => []RTypeOK
  BY RInitInv, RNextInv, TypeInitInv, TypeNextInv, PTL DEF RSpec

-----------------------------------------------------------------------------
(***************************************************************************)
(* What a SELECT returns of this run was committed in this run.            *)
(***************************************************************************)

\* An outcome in memory is one of this run, and the rows of a statement that is
\* about to respond had it when they were collected.
OutcomesOfRun ==
    /\ \A x \in DOMAIN statuses : statuses[x] = Committed => <<run, x>> \in durable
    /\ ReadsOwnRunCommitted

\* Every step keeps recorded outcomes durable.
LEMMA OutcomesNext ==
    RInv /\ RTypeOK /\ OutcomesOfRun /\ [RNext]_rvars => OutcomesOfRun'
  <1> SUFFICES ASSUME RInv, RTypeOK, OutcomesOfRun, [RNext]_rvars PROVE OutcomesOfRun'
    OBVIOUS
  <1> USE DEF OutcomesOfRun, ReadsOwnRunCommitted
  <1>0. /\ rows \in [Conns -> SUBSET FileRows]
        /\ \A c \in Conns : pc[c] # "respond" => rows[c] = {}
    BY DEF RTypeOK, RInv, RowsFromFile
  <1>1. CASE UNCHANGED rvars
    BY <1>1 DEF rvars
  <1>2. ASSUME NEW name \in Names, executeCreateTable(name) \/ executeDropTable(name)
        PROVE  OutcomesOfRun'
    BY <1>2 DEF executeCreateTable, executeDropTable, statementVars
  <1>3. ASSUME NEW c \in Conns, NEW op, NEW name, LookUp(c, op, name)
        PROVE  OutcomesOfRun'
    BY <1>3 DEF LookUp
  <1>8. ASSUME NEW c \in Conns, StartStatement(c) PROVE OutcomesOfRun'
    BY <1>8 DEF StartStatement
  <1>4. ASSUME NEW c \in Conns, StatementFails(c) \/ Commit(c) \/ Abort(c) \/ Respond(c)
        PROVE  OutcomesOfRun'
    <2>1. /\ run' = run /\ durable \subseteq durable'
          /\ \A e \in Conns : rows'[e] \subseteq rows[e]
      BY <1>0, <1>4 DEF StatementFails, Commit, Abort, Respond, EndStatement
    <2>2. \A x \in DOMAIN statuses' : statuses'[x] = Committed => <<run, x>> \in durable'
      BY <1>4 DEF StatementFails, Commit, Abort, Respond, CommitXID, AbortXID,
                  SetStatus, Committed, Aborted
    <2> QED
      BY <2>1, <2>2
  <1>5. ASSUME NEW c \in Conns, executeInsert(c) PROVE OutcomesOfRun'
    BY <1>5 DEF executeInsert
  <1>6. ASSUME NEW c \in Conns, executeSelect(c) PROVE OutcomesOfRun'
    <2>1. /\ UNCHANGED <<statuses, run, durable>>
          /\ \A e \in Conns \ {c} : rows'[e] = rows[e]
          /\ \A r \in rows'[c] : IsVisible(r.xmin, 0, snap[c])
      BY <1>0, <1>6 DEF executeSelect
    <2>2. \A r \in rows'[c] : <<run, r.xmin>> \in durable
      BY <2>1 DEF IsVisible, isXIDCommitted, GetStatus, InProgress, Committed
    <2> QED
      BY <2>1, <2>2
  <1>7. CASE RestartServer
    BY <1>7 DEF RestartServer
  <1> QED
    BY <1>1, <1>2, <1>3, <1>4, <1>5, <1>6, <1>7, <1>8 DEF RNext

\* Within one run, only committed rows are read, whatever XIDs and outcomes
\* earlier runs used.
THEOREM ReadsCommittedRows == RSpec => []ReadsOwnRunCommitted
  <1>1. RInit => OutcomesOfRun
    BY DEF RInit, OutcomesOfRun, ReadsOwnRunCommitted
  <1>2. OutcomesOfRun => ReadsOwnRunCommitted
    BY DEF OutcomesOfRun
  <1> QED
    BY <1>1, <1>2, RInitInv, RNextInv, TypeInitInv, TypeNextInv, OutcomesNext, PTL DEF RSpec
=============================================================================
