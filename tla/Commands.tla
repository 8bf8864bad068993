------------------------------ MODULE Commands ------------------------------
(***************************************************************************)
(* The commands of policybound that read or write files (cli.py), each     *)
(* among the gates, users and other runs that touch the same files while   *)
(* it is under way.  A behavior is about one of them, and the variables    *)
(* that it does not use keep their first value:                            *)
(*                                                                         *)
(*   init    the files of a workspace and the gates made of them           *)
(*   audit   audit --verify-chain, in a database that is edited            *)
(*   export  export, and audit without --verify-chain, while records come  *)
(*   verify  a receipt that is saved, edited and verified                  *)
(***************************************************************************)
EXTENDS Integers

CONSTANTS
  GENESIS_HASH, Rekeyed, NoKey, None,
  Key, OtherKey,                            \* the ledger's key and another
  DecisionsOf,                              \* decisions that a command meets
  MaxEdits,                                 \* bound: of database or receipt
  Queries,                                  \* what an export may ask for
  Inits, Forced, Sessions, Keyed, Serial,   \* runs of init, gates
  Absent, Empty, Partial, NoMapping         \* a file, JSON that is no object

VARIABLES
  command,                                   \* what the behavior is about
  option,                                    \* what the user asked of it
  pc, input, output,                         \* where it is, has read, printed
  table, histories,                          \* the database
  file, saving,                              \* a file that is written
  edits,                                     \* edits made by somebody
  files, stage, gateKey,                     \* the workspace
  chain, reading, tampered                    \* its database and gates

database == <<table, histories>>
workspace == <<files, stage, gateKey, chain, reading, tampered>>
vars == <<command, option, pc, input, output, database, file, saving, edits, workspace>>

Setup == INSTANCE Workspace WITH pc <- stage

Audit == INSTANCE Auditing WITH
  Decisions <- DecisionsOf["audit"], public_key <- option, verified <- input

Export == INSTANCE Reading WITH
  Decisions <- DecisionsOf["export"], query <- option, result <- input

Verify == INSTANCE ReceiptFiles WITH
  Decisions <- DecisionsOf["verify"], given <- option, loaded <- input, answer <- output

ASSUME CommandsAssumption ==
  /\ {NoKey, None} \cap {Key, OtherKey} = {} /\ NoKey # None /\ Key # OtherKey
  /\ MaxEdits \in Nat
  /\ Forced \subseteq Inits
  /\ Keyed \subseteq Sessions
  /\ Inits \cap Sessions = {} /\ Sessions \cap Rekeyed = {}
  /\ {Absent, Empty, None} \cap (Inits \cup Sessions) = {}
  /\ None # "valid"
  /\ NoMapping \notin DecisionsOf["verify"] /\ None # NoMapping
  /\ \A c \in {"audit", "verify"}, d \in Rekeyed : <<"rekeyed", d>> \notin DecisionsOf[c]
  /\ \A d \in DecisionsOf["export"] :
       d.timestamp = Export!Time(d.timestamp.instant, 0) /\ d.timestamp.instant \in Int
  /\ \A q \in Queries : q.limit \in Int

-----------------------------------------------------------------------------

\* What each command starts with.
Invoke ==
  \/ command = "init"   /\ option = None
  \/ command = "audit"  /\ Audit!Init
  \/ command = "export" /\ Export!Init
  \/ command = "verify" /\ Verify!Init

Init ==
  /\ Setup!Init
  /\ pc = "start" /\ input = None /\ output = None
  /\ table = << >> /\ histories = {<< >>}
  /\ file = Absent /\ saving = None
  /\ edits = 0
  /\ Invoke

-----------------------------------------------------------------------------

InitRuns ==
  /\ command = "init"
  /\ Setup!Next
  /\ UNCHANGED <<option, pc, input, output, database, file, saving, edits>>

AuditRuns ==
  /\ command = "audit"
  /\ Audit!Next
  /\ UNCHANGED <<file, saving, workspace>>

ExportRuns ==
  /\ command = "export"
  /\ Export!Next
  /\ UNCHANGED <<output, histories, saving, edits, workspace>>

VerifyRuns ==
  /\ command = "verify"
  /\ Verify!Next
  /\ UNCHANGED <<pc, histories, workspace>>

Next ==
  /\ InitRuns \/ AuditRuns \/ ExportRuns \/ VerifyRuns
  /\ UNCHANGED command

Spec == Init /\ [][Next]_vars

-----------------------------------------------------------------------------
(***************************************************************************)
(* Properties.                                                             *)
(***************************************************************************)

\* init never leaves key files of two pairs behind, but for a forced run that
\* did not end (cli.py, init).
KeysMatch == command = "init" => Setup!KeysMatch

\* Gates that were made with one key file find each other's rows intact, over
\* restarts, unless they forked the chain (gate.py, from_file and
\* verify_ledger; ledger.py, verify_chain).
KeyedGatesAgree == command = "init" => Setup!KeyedGatesAgree

\* audit --verify-chain with the ledger's key prints VALID only for a chain
\* that record wrote (cli.py, audit; ledger.py, verify_chain).
ValidWithKeyIsRecorded == command = "audit" => Audit!ValidWithKeyIsRecorded

\* Without a key, a chain that verifies is as old as its last hash says
\* (cli.py, audit; ledger.py, verify_chain).
LastHashPinsRows == command = "audit" => Audit!LastHashPinsRows

\* The count printed beside VALID covers the rows that were verified (cli.py,
\* audit).
CountCoversVerified == command = "audit" => Audit!CountCoversVerified

\* audit and export get the oldest records that were asked for, up to the
\* limit (cli.py, audit and export; ledger.py, query).
ResultIsSelection ==
  [][command = "export" /\ input' # input => Export!SelectsWhatIsAsked]_vars

\* A whole export is a beginning of what the same query gives at any later
\* time (cli.py, export).
ExportStaysPrefix == command = "export" => Export!ExportStaysPrefix

\* verify says VALID to nothing but what the ledger recorded (cli.py, verify;
\* receipt.py, verify_receipt).
ValidIsRecorded == command = "verify" => Verify!ValidIsRecorded

\* verify says VALID to a receipt that nobody edited (cli.py, verify;
\* receipt.py, save_receipt and verify_receipt).
UneditedVerifies == command = "verify" => Verify!UneditedVerifies

=============================================================================
