----------------------------- MODULE MigrationLedger -----------------------------
(***************************************************************************)
(* What migrating a database promises, whoever does it: the database goes  *)
(* from one version's migrations to another's in one step.  An upgrade     *)
(* runs all that its version needs and the ledger does not name, and       *)
(* nothing else; the schema is what the ledger says.                       *)
(***************************************************************************)
EXTENDS Naturals

CONSTANTS
    Versions,
    Migrations,
    Needs       \* the migrations of a version

VARIABLES
    ledger,     \* the migrations recorded
    applied,    \* how often each was run
    schema      \* the migrations whose tables there are
ledgerVars == <<ledger, applied, schema>>

LedgerInit == ledger = {} /\ applied = [m \in Migrations |-> 0] /\ schema = {}

Upgrade(v) ==
    LET missing == Needs[v] \ ledger IN
    /\ ledger' = ledger \cup missing
    /\ applied' = [m \in Migrations |-> IF m \in missing THEN applied[m] + 1 ELSE applied[m]]
    /\ schema' = schema \cup missing

LedgerNext == \E v \in Versions : Upgrade(v)
LedgerSpec == LedgerInit /\ [][LedgerNext]_ledgerVars
=============================================================================
