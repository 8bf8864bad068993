------------------------------ MODULE AuditLog ------------------------------
(***************************************************************************)
(* What the decision ledger promises, with none of its machinery: an       *)
(* append-only log in which a decision appears at most once, each record   *)
(* is chained to the one before it and signed, and what a caller gets back *)
(* is a record of the log.                                                 *)
(***************************************************************************)
EXTENDS Records, Sequences

CONSTANTS
  Decisions,   \* the decisions that may be recorded
  Keys         \* the signing keys

VARIABLES
  log,         \* the records, oldest first
  returned     \* the records that callers were given

vars == <<log, returned>>

Init ==
  /\ log = << >>
  /\ returned = {}

Tip == IF log = << >> THEN GENESIS_HASH ELSE log[Len(log)].record_hash

Extend(decision, key) ==
  /\ \A i \in 1 .. Len(log) : log[i].decision # decision
  /\ log' = Append(log, NewRecord(decision, Tip, Len(log) + 1, key))
  /\ UNCHANGED returned

Return(i) ==
  /\ returned' = returned \cup {log[i]}
  /\ UNCHANGED log

Next ==
  \/ \E decision \in Decisions, key \in Keys : Extend(decision, key)
  \/ \E i \in 1 .. Len(log) : Return(i)

Spec == Init /\ [][Next]_vars

=============================================================================
