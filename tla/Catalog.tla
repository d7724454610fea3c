------------------------------ MODULE Catalog -------------------------------
(***************************************************************************)
(* internal/catalog/catalog.go: the tables of the public schema.  Each     *)
(* operation holds the catalog's lock for its whole body, so each is one   *)
(* step.  A definition is a pointer to a record that never changes: a      *)
(* statement keeps using the one it looked up, even when the table has     *)
(* been dropped meanwhile.  What tells two pointers apart is, as history,  *)
(* the number of the CREATE TABLE that made the record; OID and name need  *)
(* not.                                                                    *)
(***************************************************************************)
EXTENDS Integers, Functions, FiniteSets

CONSTANT Names     \* table names

VARIABLES
    tables,        \* the map from names to table definitions
    nextOID,
    created        \* history: the number of CREATE TABLEs so far

catalogVars == <<tables, nextOID, created>>

FirstOID == 16384  \* OIDs below are reserved for system objects

TableDefs == [OID : Nat, Name : Names, made : Nat]

\* Mutant: the OID is the number of tables there are, so that the OID of a
\* dropped table is given out again.
CreateTableByCount(name) ==
    /\ name \notin DOMAIN tables
    /\ tables' = [n \in DOMAIN tables \cup {name} |->
                     IF n = name
                     THEN [OID |-> FirstOID + Cardinality(DOMAIN tables),
                           Name |-> name, made |-> created + 1]
                     ELSE tables[n]]
    /\ nextOID' = nextOID + 1
    /\ created' = created + 1

\* CREATE TABLE, which is refused when the name is taken.
CreateTable(name) ==
    /\ name \notin DOMAIN tables
    /\ tables' = [n \in DOMAIN tables \cup {name} |->
                     IF n = name
                     THEN [OID |-> nextOID, Name |-> name, made |-> created + 1]
                     ELSE tables[n]]
    /\ nextOID' = nextOID + 1
    /\ created' = created + 1

\* DROP TABLE only forgets the definition: the heap file stays on disk.
DropTable(name) ==
    /\ name \in DOMAIN tables
    /\ tables' = Restrict(tables, DOMAIN tables \ {name})
    /\ UNCHANGED <<nextOID, created>>

GetTable(name) == tables[name]
=============================================================================
