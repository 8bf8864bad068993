------------------------------ MODULE Receipts ------------------------------
(***************************************************************************)
(* Receipts: portable copies of a decision record with the public key that *)
(* verifies it (receipt.py).                                               *)
(***************************************************************************)
EXTENDS Records

CreateReceipt(record, public_key) ==
  [record |-> record, public_key |-> public_key]

\* save_receipt and load_receipt: the decision comes back through JSON.
SaveAndLoad(receipt) ==
  [receipt EXCEPT !.record.decision = Loaded(@)]

\* The key a caller gives must be the one in the receipt; the content must
\* hash to record_hash and carry the key's signature.
VerifyReceipt(receipt, public_key) ==
  LET record    == receipt.record
      canonical == Signable(record.decision, record.previous_hash, record.sequence)
  IN  /\ public_key \in {NoKey, receipt.public_key}
      /\ record.record_hash = ComputeHash(canonical)
      /\ record.signature = Sign(receipt.public_key, canonical)

=============================================================================
