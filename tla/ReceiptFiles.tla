---------------------------- MODULE ReceiptFiles ----------------------------
(***************************************************************************)
(* A receipt as a file: save_receipt, load_receipt and verify_receipt      *)
(* (receipt.py) under `policybound verify` (cli.py), with saves that are   *)
(* repeated, interrupted or concurrent, and edits of the file in between.  *)
(***************************************************************************)
EXTENDS Receipts, Database

CONSTANTS
  OtherKey,    \* the key of somebody else
  MaxEdits,    \* bound: how many edits are made
  None,
  Absent, Partial, \* a file that is not there, one that is not whole
  NoMapping    \* JSON that is no object; as a decision, also one that is an
               \* object without its request

VARIABLES
  saving,  \* the receipt that save_receipt is writing, or None
  file,    \* Absent, Partial or a document
  edits,   \* the edits made so far
  given,   \* verify --public-key
  loaded,  \* the document that verify has loaded
  answer   \* what came of it, None while verify has not ended

vars == <<table, saving, file, edits, given, loaded, answer>>

Document(receipt) ==
  [format     |-> "policybound-receipt",
   record     |-> receipt.record,
   public_key |-> receipt.public_key]

Whole == file \notin {Absent, Partial}

-----------------------------------------------------------------------------

Init ==
  /\ table = EmptyTable
  /\ saving = None
  /\ file = Absent
  /\ edits = 0
  /\ given \in {NoKey, Key, OtherKey}
  /\ loaded = None
  /\ answer = None

Record(d) ==
  /\ Store(d)
  /\ UNCHANGED <<saving, file, edits, given, loaded, answer>>

\* open(path, "w") empties the file.
OpenToSave(row) ==
  /\ saving = None
  /\ saving' = Document(SaveAndLoad(CreateReceipt(row, Key)))
  /\ file' = Partial
  /\ UNCHANGED <<table, edits, given, loaded, answer>>

EndSave(written) ==
  /\ saving # None
  /\ saving' = None
  /\ file' = written
  /\ UNCHANGED <<table, edits, given, loaded, answer>>

WriteReceipt == EndSave(saving)

\* An I/O error, or the end of the process.
SaveFails == EndSave(Partial)

-----------------------------------------------------------------------------

\* The file is there and is JSON.
LoadReceipt ==
  /\ loaded = None /\ answer = None
  /\ Whole
  /\ loaded' = file
  /\ UNCHANGED <<table, saving, file, edits, given, answer>>

\* VerificationError, or JSONDecodeError.
LoadFails ==
  /\ loaded = None /\ answer = None
  /\ ~ Whole
  /\ answer' = "raised"
  /\ UNCHANGED <<table, saving, file, edits, given, loaded>>

\* Mutation: a key is always compared.
KeyFitsAlways(document) == given = document.public_key

KeyFits(document) == given \in {NoKey, document.public_key}

\* The checks of verify_receipt before it looks into the record.
WellFormed(document) ==
  /\ document.format = "policybound-receipt"
  /\ document.record # << >>
  /\ document.public_key \in {Key, OtherKey}
  /\ KeyFits(document)

\* Mutation: the signature is not verified.
VerifiesHash(document) ==
  LET record == document.record
  IN  /\ "record_hash" \in DOMAIN record
      /\ record.record_hash =
           ComputeHash(Signable(record.decision, record.previous_hash, record.sequence))

Verifies(document) ==
  /\ {"record_hash", "signature"} \subseteq DOMAIN document.record
  /\ VerifyReceipt(document, given)

\* The record has the fields that were signed.
HasContent(record) ==
  record # NoMapping /\ {"decision", "previous_hash", "sequence"} \subseteq DOMAIN record

\* receipt.get, record["decision"] and the result's decision["request"] raise
\* where there is no mapping or no such field, the last once the rest is found
\* valid.
Outcome(document) ==
  IF document = NoMapping THEN "raised"
  ELSE IF ~ WellFormed(document) THEN "invalid"
  ELSE IF ~ HasContent(document.record) THEN "raised"
  ELSE IF ~ Verifies(document) THEN "invalid"
  ELSE IF document.record.decision = NoMapping THEN "raised" ELSE "valid"

\* verify exits with 0 when the answer is "valid", else with 1.
Verify ==
  /\ loaded # None /\ answer = None
  /\ answer' = Outcome(loaded)
  /\ UNCHANGED <<table, saving, file, edits, given, loaded>>

-----------------------------------------------------------------------------
(***************************************************************************)
(* Edits of the file.                                                      *)
(***************************************************************************)

Edit(document) ==
  /\ edits < MaxEdits
  /\ file' = document
  /\ edits' = edits + 1
  /\ UNCHANGED <<table, saving, given, loaded, answer>>

Lose(field) ==
  Edit([file EXCEPT !.record = [f \in DOMAIN file.record \ {field} |-> file.record[f]]])

\* A field says what it says in another record, or a decision that is in none.
Transplant(field, row) == Edit([file EXCEPT !.record[field] = row[field]])

Alter(d) == Edit([file EXCEPT !.record.decision = d])

\* Hash and signature are made to fit what the record says.
Forge ==
  LET record == file.record
  IN  Edit([file EXCEPT !.record =
        NewRecord(record.decision, record.previous_hash, record.sequence, OtherKey)])

Rehash ==
  LET record == file.record
  IN  Edit([file EXCEPT !.record.record_hash =
        ComputeHash(Signable(record.decision, record.previous_hash, record.sequence))])

ReplaceFormat == Edit([file EXCEPT !.format = None])

ReplaceKey(key) == Edit([file EXCEPT !.public_key = key])

ReplaceRecord == Edit([file EXCEPT !.record = NoMapping])

ReplaceDocument == Edit(NoMapping)

EditRecord ==
  \/ \E field \in DOMAIN file.record :
       Lose(field) \/ \E row \in Rows : Transplant(field, row)
  \/ "decision" \in DOMAIN file.record /\ \E d \in Decisions \cup {NoMapping} : Alter(d)
  \/ /\ {"decision", "previous_hash", "sequence", "record_hash"} \subseteq DOMAIN file.record
     /\ Forge \/ Rehash

EditFile ==
  /\ Whole /\ file # NoMapping
  /\ \/ file.record # NoMapping /\ EditRecord
     \/ ReplaceRecord \/ ReplaceDocument \/ ReplaceFormat
     \/ \E key \in {OtherKey, None} : ReplaceKey(key)

-----------------------------------------------------------------------------

Next ==
  \/ \E d \in Decisions : Record(d)
  \/ \E row \in Rows : OpenToSave(row)
  \/ WriteReceipt
  \/ SaveFails
  \/ LoadReceipt
  \/ LoadFails
  \/ Verify
  \/ EditFile
  \/ answer # None /\ UNCHANGED vars

Spec == Init /\ [][Next]_vars

-----------------------------------------------------------------------------
(***************************************************************************)
(* Properties.                                                             *)
(***************************************************************************)

\* A receipt that verifies with the ledger's key, given or embedded, says what
\* the ledger recorded: no interrupted save and no sequence of edits makes a
\* file that does and says otherwise (receipt.py, verify_receipt).
ValidIsRecorded ==
  answer = "valid" /\ Key \in {given, loaded.public_key} => loaded.record \in Rows

\* A receipt that nobody edited verifies with the ledger's key or its own,
\* however many saves were interrupted or written over it, unless JSON changed
\* its decision (receipt.py, save_receipt and verify_receipt).
UneditedVerifies ==
  edits = 0 /\ given # OtherKey /\ loaded # None /\ answer # None =>
    answer = "valid" \/ loaded.record.decision \notin Decisions

=============================================================================
