------------------------------ MODULE Database ------------------------------
(***************************************************************************)
(* The decisions table as other processes see it that open the database    *)
(* while a gate records: DecisionLedger.record (ledger.py) is one step,    *)
(* as its lock and its transaction make it for one ledger object.          *)
(***************************************************************************)
EXTENDS Records, SequencesExt

CONSTANTS
  Decisions,   \* the decisions that may be recorded
  Key          \* the private key of the ledger

VARIABLE table

Rows == {table[s] : s \in DOMAIN table}

\* ORDER BY sequence ASC: the i-th row is the one that comes after i - 1 others.
Ordered(t) ==
  [i \in 1 .. Cardinality(DOMAIN t) |->
     t[CHOOSE s \in DOMAIN t : Cardinality({r \in DOMAIN t : r < s}) = i - 1]]

Store(d) ==
  LET record == NewRecord(d, LastHash(table), LastSequence(table) + 1, Key)
  IN  /\ ~ Violates(table, record)
      /\ table' = WithRow(table, record)

=============================================================================
