------------------------------ MODULE Auditing ------------------------------
(***************************************************************************)
(* `policybound audit --verify-chain` (cli.py) and verify_chain            *)
(* (ledger.py) against what they are for: records come in while audit is   *)
(* running, rows are edited without the library, and storage fails.        *)
(*                                                                         *)
(* Rows are kept by the sequence column; a record also says its sequence   *)
(* in record_json, which is what verify_chain reads.                       *)
(***************************************************************************)
EXTENDS Database

CONSTANTS
  OtherKey,    \* a key of somebody else
  MaxEdits,    \* bound: how many edits are made
  None

VARIABLES
  histories,   \* the hashes in the table, in order, after each record
  edits,       \* the edits made so far
  pc,          \* where audit stands
  public_key,  \* audit --public-key
  verified,    \* the rows that verify_chain fetched
  output       \* what audit printed

database == <<table, histories, edits>>
audit == <<pc, public_key, verified, output>>
vars == <<database, audit>>

Hashes(t) == [i \in DOMAIN Ordered(t) |-> Ordered(t)[i].record_hash]

Content(row) == Signable(row.decision, row.previous_hash, row.sequence)

Valid(count) == [chain |-> "VALID", records |-> count]

Tampered == [chain |-> "TAMPERED"]

-----------------------------------------------------------------------------

Init ==
  /\ table = EmptyTable
  /\ histories = {<< >>}
  /\ edits = 0
  /\ pc = "start"
  /\ public_key \in {NoKey, Key}
  /\ verified = None
  /\ output = None

\* Bound: edits are made of what was recorded before them; a record that
\* follows an edit vouches for the row it was linked to.
Record(d) ==
  /\ edits = 0
  /\ Store(d)
  /\ histories' = histories \cup {Hashes(table')}
  /\ UNCHANGED <<edits, audit>>

Finish(printed) ==
  /\ output' = printed
  /\ pc' = "ended"

\* audit opens the ledger, and verify_chain fetches all rows and goes through
\* them.
Verify ==
  /\ pc = "start"
  /\ verified' = table
  /\ IF VerifyChain(table, public_key)
     THEN pc' = "count" /\ UNCHANGED output
     ELSE Finish(Tampered)
  /\ UNCHANGED <<database, public_key>>

\* Mutation: count answers from a snapshot of before.
CountOfSnapshot ==
  /\ pc = "count"
  /\ \E h \in histories : Finish(Valid(Len(h)))
  /\ UNCHANGED <<database, public_key, verified>>

\* count is another SELECT.
Count ==
  /\ pc = "count"
  /\ Finish(Valid(Cardinality(DOMAIN table)))
  /\ UNCHANGED <<database, public_key, verified>>

\* Whatever verify_chain or count raises is printed as tampering.
StorageFails ==
  /\ pc \in {"start", "count"}
  /\ Finish(Tampered)
  /\ UNCHANGED <<database, public_key, verified>>

-----------------------------------------------------------------------------
(***************************************************************************)
(* Edits of the database without the library.                              *)
(***************************************************************************)

Edit(edited) ==
  /\ edits < MaxEdits
  /\ table' = edited
  /\ edits' = edits + 1
  /\ UNCHANGED <<histories, audit>>

\* A row says another decision in record_json, which is all that verify_chain
\* reads; the columns beside it, which query filters on, are left out.
Alter(s, d) == Edit([table EXCEPT ![s].decision = d])

\* Its hash, link or signature is made to fit what it says.
Rehash(s) == Edit([table EXCEPT ![s].record_hash = ComputeHash(Content(table[s]))])

Relink(s) == Edit([table EXCEPT ![s].previous_hash = LastHash(Before(table, s))])

Resign(s) == Edit([table EXCEPT ![s].signature = Sign(OtherKey, Content(table[s]))])

\* A row is taken out, or comes elsewhere in the order.
Drop(s) == Edit([q \in DOMAIN table \ {s} |-> table[q]])

Renumber(s, t) ==
  Edit([q \in (DOMAIN table \ {s}) \cup {t} |-> IF q = t THEN table[s] ELSE table[q]])

-----------------------------------------------------------------------------

EditRow(s) ==
  \/ \E d \in Decisions : Alter(s, d)
  \/ Rehash(s)
  \/ Relink(s)
  \/ Resign(s)
  \/ Drop(s)
  \/ \E t \in (1 .. LastSequence(table) + 1) \ DOMAIN table : Renumber(s, t)

Next ==
  \/ \E d \in Decisions : Record(d)
  \/ Verify
  \/ Count
  \/ StorageFails
  \/ \E s \in DOMAIN table : EditRow(s)
  \/ pc = "ended" /\ UNCHANGED vars

Spec == Init /\ [][Next]_vars

-----------------------------------------------------------------------------
(***************************************************************************)
(* Properties.                                                             *)
(***************************************************************************)

\* The rows are those of the table right after some record, each with the
\* content its hash was made of.
Recorded(t) ==
  /\ Hashes(t) \in histories
  /\ \A s \in DOMAIN t : t[s].record_hash = ComputeHash(Content(t[s]))

\* A chain that verifies with the ledger's key is one that record wrote: no
\* sequence of edits alters, reorders or takes out a row before the end
\* unseen, though the last rows, or all, may be taken out (ledger.py,
\* verify_chain; types.py: "Modifying any record breaks the hash chain, making
\* tampering detectable").
ValidWithKeyIsRecorded ==
  pc = "count" /\ public_key = Key => Recorded(verified)

\* Without a key, the last hash vouches for all the rows: if it is one that
\* record wrote, so are the rows (ledger.py, verify_chain).
LastHashPinsRows ==
  pc = "count" /\ (\E h \in histories : Len(h) > 0 /\ h[Len(h)] = LastHash(verified))
    => Recorded(verified)

\* The count that audit prints beside VALID covers the rows that were
\* verified, though records come in between (cli.py, audit).
CountCoversVerified ==
  output \notin {None, Tampered} /\ edits = 0 =>
    Cardinality(DOMAIN verified) <= output.records

=============================================================================
