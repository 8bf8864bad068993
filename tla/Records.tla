------------------------------ MODULE Records ------------------------------
(***************************************************************************)
(* Decision records, the `decisions` table they are stored in, and the     *)
(* check that verify_chain makes of it (ledger.py, types.py, crypto.py).   *)
(*                                                                         *)
(* A table is a function from sequence numbers (the primary key) to        *)
(* records.  Hashes and signatures are free terms over what they cover:    *)
(* two of them are equal exactly when they were made of the same content.  *)
(***************************************************************************)
EXTENDS Integers, FiniteSetsExt

CONSTANTS
  GENESIS_HASH,   \* the previous hash of a first record
  Rekeyed,        \* decisions whose arguments change in canonical form when
                  \* record_json is read back: JSON turns integer keys to
                  \* strings, and "10" sorts before "9"
  NoKey           \* verify_chain called without a public key

EmptyTable == << >>

(***************************************************************************)
(* The signable content, its hash and its signature.                       *)
(***************************************************************************)
Signable(decision, previous_hash, sequence) ==
  [decision |-> decision, previous_hash |-> previous_hash, sequence |-> sequence]

ComputeHash(canonical) == <<"sha256", canonical>>

Sign(key, canonical) == [signer |-> key, signed |-> canonical]

NewRecord(decision, previous_hash, sequence, key) ==
  LET canonical == Signable(decision, previous_hash, sequence)
  IN  [decision      |-> decision,
       record_hash   |-> ComputeHash(canonical),
       previous_hash |-> previous_hash,
       signature     |-> Sign(key, canonical),
       sequence      |-> sequence]

(***************************************************************************)
(* Reading and extending a table.                                          *)
(***************************************************************************)
LastSequence(table) ==
  IF table = EmptyTable THEN 0 ELSE Max(DOMAIN table)

LastHash(table) ==
  IF table = EmptyTable THEN GENESIS_HASH ELSE table[Max(DOMAIN table)].record_hash

\* Mutation: INSERT OR REPLACE.
ViolatesNothing(table, record) == FALSE

\* Mutation: no UNIQUE on decision_id.
ViolatesPrimaryKey(table, record) == record.sequence \in DOMAIN table

\* PRIMARY KEY (sequence) and UNIQUE (decision_id).
Violates(table, record) ==
  \/ record.sequence \in DOMAIN table
  \/ \E s \in DOMAIN table : table[s].decision = record.decision

WithRow(table, record) ==
  [s \in DOMAIN table \cup {record.sequence} |->
     IF s = record.sequence THEN record ELSE table[s]]

(***************************************************************************)
(* verify_chain: each row read back from record_json links to the row      *)
(* before it, hashes to its record_hash and, when a key is given, carries  *)
(* that key's signature of the recomputed content.                         *)
(***************************************************************************)
Loaded(decision) == IF decision \in Rekeyed THEN <<"rekeyed", decision>> ELSE decision

Before(table, s) == [r \in {q \in DOMAIN table : q < s} |-> table[r]]

\* Mutation: rows are hashed and verified one by one.
RowVerifiesAlone(table, s, public_key) ==
  LET row       == table[s]
      canonical == Signable(Loaded(row.decision), row.previous_hash, row.sequence)
  IN  /\ row.record_hash = ComputeHash(canonical)
      /\ public_key = NoKey \/ row.signature = Sign(public_key, canonical)

\* Mutation: the stored hashes are linked, and not recomputed.
RowLinks(table, s, public_key) ==
  /\ table[s].previous_hash = LastHash(Before(table, s))
  /\ public_key = NoKey \/ table[s].signature.signer = public_key

RowVerifies(table, s, public_key) ==
  LET row       == table[s]
      canonical == Signable(Loaded(row.decision), row.previous_hash, row.sequence)
  IN  /\ row.previous_hash = LastHash(Before(table, s))
      /\ row.record_hash = ComputeHash(canonical)
      /\ public_key = NoKey \/ row.signature = Sign(public_key, canonical)

VerifyChain(table, public_key) ==
  \A s \in DOMAIN table : RowVerifies(table, s, public_key)

=============================================================================
