------------------------------- MODULE Ledger -------------------------------
(***************************************************************************)
(* DecisionLedger.record over SQLiteBackend (ledger.py): threads that call *)
(* record on ledger objects, each object with its lock and its SQLite      *)
(* connection, all connections open on one database file in WAL mode.      *)
(*                                                                         *)
(* The interesting state is SQLite's.  Python opens a transaction before   *)
(* an INSERT and only a commit closes it: append has no rollback, so a     *)
(* transaction whose INSERT failed stays open on the connection and later  *)
(* calls run inside it.                                                    *)
(***************************************************************************)
EXTENDS Records, Sequences

CONSTANTS
  Ledgers,          \* DecisionLedger objects, one connection each
  Threads,          \* threads that call record
  LedgerOf,         \* the ledger a thread calls
  Keys,             \* signing keys
  KeyOf,            \* the private key of a ledger
  Decisions,        \* decisions passed to record
  Unserializable,   \* those canonical_json raises on (NaN, mixed keys)
  None              \* nobody holds a lock; no decision

ASSUME LedgerAssumption ==
  /\ LedgerOf \in [Threads -> Ledgers]
  /\ KeyOf \in [Ledgers -> Keys]
  /\ Unserializable \subseteq Decisions
  /\ None \notin Threads

VARIABLES
  committed,   \* the decisions table as committed
  txn,         \* what a connection's open transaction, if any, holds
  view,        \* the table inside an open transaction
  lock,        \* holder of a ledger's threading.Lock
  pc,          \* where a thread stands in record
  call,        \* the local variables of a thread's call of record
  returned,    \* records that calls of record returned
  lost         \* records whose process stopped after the commit, before
               \* the call returned

vars == <<committed, txn, view, lock, pc, call, returned, lost>>

(***************************************************************************)
(* txn[l] is "none" outside a transaction, "begun" when BEGIN was issued   *)
(* and the INSERT then found the database busy, "reading" when a SELECT in *)
(* such a transaction pinned its snapshot, and "writing" when an INSERT    *)
(* took the write lock.                                                    *)
(***************************************************************************)
TxnStates == {"none", "begun", "reading", "writing"}

Labels == {"idle", "lock", "hash", "sequence", "append", "commit", "return"}

NoCall == [decision |-> None, previous_hash |-> GENESIS_HASH, sequence |-> 0]

(***************************************************************************)
(* What the connection of a ledger sees, and the record a call builds.     *)
(***************************************************************************)

\* Mutation: a connection reads what another one has not committed.
SeeUncommitted(l) ==
  IF \E m \in Ledgers : txn[m] = "writing"
  THEN view[CHOOSE m \in Ledgers : txn[m] = "writing"]
  ELSE IF txn[l] = "reading" THEN view[l] ELSE committed

See(l) == IF txn[l] \in {"reading", "writing"} THEN view[l] ELSE committed

RecordOf(t) ==
  NewRecord(call[t].decision, call[t].previous_hash, call[t].sequence,
            KeyOf[LedgerOf[t]])

\* SQLite gives the write lock to one connection at a time, and never to a
\* transaction whose snapshot is no longer the last commit.
CanWrite(l) ==
  /\ \A m \in Ledgers \ {l} : txn[m] # "writing"
  /\ txn[l] = "reading" => view[l] = committed

-----------------------------------------------------------------------------

Init ==
  /\ committed = EmptyTable
  /\ txn = [l \in Ledgers |-> "none"]
  /\ view = [l \in Ledgers |-> EmptyTable]
  /\ lock = [l \in Ledgers |-> None]
  /\ pc = [t \in Threads |-> "idle"]
  /\ call = [t \in Threads |-> NoCall]
  /\ returned = {}
  /\ lost = {}

At(t, label) == pc[t] = label

Goto(t, label) == pc' = [pc EXCEPT ![t] = label]

\* A SELECT: inside a transaction that has no snapshot yet, it pins one.
Select(l) ==
  IF txn[l] = "begun"
  THEN /\ txn' = [txn EXCEPT ![l] = "reading"]
       /\ view' = [view EXCEPT ![l] = committed]
  ELSE UNCHANGED <<txn, view>>

\* Leaving the `with self._lock` block, by return or by exception.
Leave(t) ==
  /\ Goto(t, "idle")
  /\ lock' = [lock EXCEPT ![LedgerOf[t]] = None]
  /\ call' = [call EXCEPT ![t] = NoCall]

-----------------------------------------------------------------------------

\* A caller calls record; a decision may be recorded again, after a failure
\* or not.
Record(t, d) ==
  /\ At(t, "idle")
  /\ Goto(t, "lock")
  /\ call' = [call EXCEPT ![t].decision = d]
  /\ UNCHANGED <<committed, txn, view, lock, returned, lost>>

\* Mutation: record without its lock.
AcquireWithoutLock(t) ==
  /\ At(t, "lock")
  /\ lock' = [lock EXCEPT ![LedgerOf[t]] = t]
  /\ Goto(t, "hash")
  /\ UNCHANGED <<committed, txn, view, call, returned, lost>>

Acquire(t) ==
  /\ At(t, "lock")
  /\ lock[LedgerOf[t]] = None
  /\ lock' = [lock EXCEPT ![LedgerOf[t]] = t]
  /\ Goto(t, "hash")
  /\ UNCHANGED <<committed, txn, view, call, returned, lost>>

GetLastHash(t) ==
  LET l == LedgerOf[t]
  IN  /\ At(t, "hash")
      /\ call' = [call EXCEPT ![t].previous_hash = LastHash(See(l))]
      /\ Select(l)
      /\ Goto(t, "sequence")
      /\ UNCHANGED <<committed, lock, returned, lost>>

\* Mutation: the last sequence itself, not the next one.
GetLastSequenceItself(t) ==
  LET l == LedgerOf[t]
  IN  /\ At(t, "sequence")
      /\ call' = [call EXCEPT ![t].sequence = LastSequence(See(l))]
      /\ Select(l)
      /\ Goto(t, "append")
      /\ UNCHANGED <<committed, lock, returned, lost>>

\* Mutation: a counter that also counts the attempt that failed and left its
\* transaction open.
GetLastSequenceOfAttempts(t) ==
  LET l == LedgerOf[t]
      attempts == IF txn[l] = "none" THEN 1 ELSE 2
  IN  /\ At(t, "sequence")
      /\ call' = [call EXCEPT ![t].sequence = LastSequence(See(l)) + attempts]
      /\ Select(l)
      /\ Goto(t, "append")
      /\ UNCHANGED <<committed, lock, returned, lost>>

GetLastSequence(t) ==
  LET l == LedgerOf[t]
  IN  /\ At(t, "sequence")
      /\ call' = [call EXCEPT ![t].sequence = LastSequence(See(l)) + 1]
      /\ Select(l)
      /\ Goto(t, "append")
      /\ UNCHANGED <<committed, lock, returned, lost>>

\* The content cannot be serialized: the exception leaves record as it is.
CanonicalJsonRaises(t) ==
  /\ At(t, "append")
  /\ call[t].decision \in Unserializable
  /\ Leave(t)
  /\ UNCHANGED <<committed, txn, view, returned, lost>>

Insertable(t) ==
  /\ At(t, "append")
  /\ call[t].decision \notin Unserializable

Insert(t) ==
  LET l == LedgerOf[t]
  IN  /\ Insertable(t)
      /\ CanWrite(l)
      /\ ~ Violates(See(l), RecordOf(t))
      /\ txn' = [txn EXCEPT ![l] = "writing"]
      /\ view' = [view EXCEPT ![l] = WithRow(See(l), RecordOf(t))]
      /\ Goto(t, "commit")
      /\ UNCHANGED <<committed, lock, call, returned, lost>>

\* sqlite3.IntegrityError, raised on as LedgerError; the transaction that the
\* INSERT opened keeps the write lock.
InsertViolates(t) ==
  LET l == LedgerOf[t]
  IN  /\ Insertable(t)
      /\ CanWrite(l)
      /\ Violates(See(l), RecordOf(t))
      /\ txn' = [txn EXCEPT ![l] = "writing"]
      /\ view' = [view EXCEPT ![l] = See(l)]
      /\ Leave(t)
      /\ UNCHANGED <<committed, returned, lost>>

\* Mutation: no busy timeout, the INSERT waits for its turn.
InsertNeverBusy(t) == FALSE

\* "database is locked" after the busy timeout, or at once when the snapshot
\* is stale; raised on as LedgerError, the transaction stays open.
InsertBusy(t) ==
  LET l == LedgerOf[t]
  IN  /\ Insertable(t)
      /\ ~ CanWrite(l)
      /\ txn' = [txn EXCEPT ![l] = IF @ = "none" THEN "begun" ELSE @]
      /\ Leave(t)
      /\ UNCHANGED <<committed, view, returned, lost>>

Commit(t) ==
  LET l == LedgerOf[t]
  IN  /\ At(t, "commit")
      /\ committed' = view[l]
      /\ txn' = [txn EXCEPT ![l] = "none"]
      /\ view' = [view EXCEPT ![l] = EmptyTable]
      /\ Goto(t, "return")
      /\ UNCHANGED <<lock, call, returned, lost>>

Return(t) ==
  /\ At(t, "return")
  /\ returned' = returned \cup {RecordOf(t)}
  /\ Leave(t)
  /\ UNCHANGED <<committed, txn, view, lost>>

\* query, count and verify_chain: SELECTs that take no lock, so they run
\* between any two steps of record.
Read(l) ==
  /\ txn[l] = "begun"
  /\ Select(l)
  /\ UNCHANGED <<committed, lock, pc, call, returned, lost>>

-----------------------------------------------------------------------------
(***************************************************************************)
(* Storage faults and the end of a process.                                *)
(***************************************************************************)

\* get_last_hash or get_last_sequence raises sqlite3.Error.
SelectFails(t) ==
  /\ pc[t] \in {"hash", "sequence"}
  /\ Leave(t)
  /\ UNCHANGED <<committed, txn, view, returned, lost>>

\* The INSERT meets an I/O error: SQLite undoes the statement and keeps the
\* transaction, or rolls the transaction back.
InsertFails(t) ==
  LET l == LedgerOf[t]
  IN  /\ Insertable(t)
      /\ CanWrite(l)
      /\ \/ /\ txn' = [txn EXCEPT ![l] = "writing"]
            /\ view' = [view EXCEPT ![l] = See(l)]
         \/ /\ txn' = [txn EXCEPT ![l] = "none"]
            /\ view' = [view EXCEPT ![l] = EmptyTable]
      /\ Leave(t)
      /\ UNCHANGED <<committed, returned, lost>>

\* Mutation: the error of the commit is swallowed.
CommitFailsSilently(t) ==
  LET l == LedgerOf[t]
  IN  /\ At(t, "commit")
      /\ txn' = [txn EXCEPT ![l] = "none"]
      /\ view' = [view EXCEPT ![l] = EmptyTable]
      /\ Goto(t, "return")
      /\ UNCHANGED <<committed, lock, call, returned, lost>>

\* Mutation: the row stays in the open transaction.
CommitFailsAndKeepsRow(t) ==
  /\ At(t, "commit")
  /\ Leave(t)
  /\ UNCHANGED <<committed, txn, view, returned, lost>>

\* Mutation: the lock is released at the end of record, not by `with`.
CommitFailsHoldingLock(t) ==
  LET l == LedgerOf[t]
  IN  /\ At(t, "commit")
      /\ txn' = [txn EXCEPT ![l] = "none"]
      /\ view' = [view EXCEPT ![l] = EmptyTable]
      /\ Goto(t, "idle")
      /\ UNCHANGED <<committed, lock, call, returned, lost>>

\* The commit meets an I/O error or a full disk: SQLite rolls back.
CommitFails(t) ==
  LET l == LedgerOf[t]
  IN  /\ At(t, "commit")
      /\ txn' = [txn EXCEPT ![l] = "none"]
      /\ view' = [view EXCEPT ![l] = EmptyTable]
      /\ Leave(t)
      /\ UNCHANGED <<committed, returned, lost>>

\* The process that holds the ledger stops and starts again on the same file.
Crash(l) ==
  LET mine == {t \in Threads : LedgerOf[t] = l}
  IN  /\ \/ txn[l] # "none"
         \/ \E t \in mine : ~ At(t, "idle")
      /\ txn' = [txn EXCEPT ![l] = "none"]
      /\ view' = [view EXCEPT ![l] = EmptyTable]
      /\ lock' = [lock EXCEPT ![l] = None]
      /\ pc' = [t \in Threads |-> IF t \in mine THEN "idle" ELSE pc[t]]
      /\ call' = [t \in Threads |-> IF t \in mine THEN NoCall ELSE call[t]]
      /\ lost' = lost \cup {RecordOf(t) : t \in {u \in mine : At(u, "return")}}
      /\ UNCHANGED <<committed, returned>>

-----------------------------------------------------------------------------

\* The steps of a call once it has been made.
Step(t) ==
  \/ Acquire(t)
  \/ GetLastHash(t)
  \/ GetLastSequence(t)
  \/ CanonicalJsonRaises(t)
  \/ Insert(t)
  \/ InsertViolates(t)
  \/ InsertBusy(t)
  \/ Commit(t)
  \/ Return(t)

Operate ==
  \/ \E t \in Threads, d \in Decisions : Record(t, d)
  \/ \E t \in Threads : Step(t)
  \/ \E l \in Ledgers : Read(l)

Fault ==
  \/ \E t \in Threads : SelectFails(t) \/ InsertFails(t) \/ CommitFails(t)
  \/ \E l \in Ledgers : Crash(l)

Next == Operate \/ Fault

Spec == Init /\ [][Next]_vars

\* A thread inside record keeps running; nobody has to call record, and
\* threading.Lock promises nobody a turn.
Fairness == \A t \in Threads : WF_vars(Step(t))

FairSpec == Spec /\ Fairness

\* No fault at all: what the code does by itself.
FaultFreeSpec == Init /\ [][Operate]_vars /\ Fairness

-----------------------------------------------------------------------------
(***************************************************************************)
(* Properties.                                                             *)
(***************************************************************************)

WellFormed(table) ==
  /\ DOMAIN table \subseteq Nat \ {0}
  /\ \A s \in DOMAIN table :
       /\ table[s].decision \in Decisions
       /\ \E key \in Keys :
            table[s] = NewRecord(table[s].decision, table[s].previous_hash, s, key)

\* Every variable has the values the code gives it: rows are records of
\* decisions stored under their own sequence, counting from 1.
TypeOK ==
  /\ WellFormed(committed)
  /\ txn \in [Ledgers -> TxnStates]
  /\ DOMAIN view = Ledgers
  /\ \A l \in Ledgers : WellFormed(view[l])
  /\ lock \in [Ledgers -> Threads \cup {None}]
  /\ pc \in [Threads -> Labels]
  /\ DOMAIN call = Threads
  /\ \A t \in Threads :
       /\ call[t] = Signable(call[t].decision, call[t].previous_hash, call[t].sequence)
       /\ call[t].decision \in IF At(t, "idle") THEN {None} ELSE Decisions
       /\ call[t].sequence \in Nat

\* verify_chain with a ledger's own key succeeds at every moment, also when it
\* runs between the steps of a record and after any failure or restart
\* (ledger.py, record and verify_chain).
ChainVerifies == \A l \in Ledgers : VerifyChain(See(l), KeyOf[l])

\* A record that record returned is in the table, under its sequence and
\* unchanged: the receipt made of it has a row behind it (ledger.py, record).
ReturnedIsStored ==
  \A r \in returned : r.sequence \in DOMAIN committed /\ committed[r.sequence] = r

\* A row is in the table only if its caller was given it, is about to be, or
\* died: a call that raised left no row of its own (errors.py, LedgerError),
\* neither at once nor through a transaction that a later call commits.
RaisedIsAbsent ==
  \A s \in DOMAIN committed :
    \/ committed[s] \in returned \cup lost
    \/ \E t \in Threads : At(t, "return") /\ committed[s] = RecordOf(t)

\* Sequence numbers have no gap, however many connections compete and however
\* calls fail (ledger.py, get_last_sequence).
ContiguousSequences == DOMAIN committed = 1 .. Cardinality(DOMAIN committed)

\* A row's previous_hash is the hash of some earlier committed row: it was
\* never read from a row that was not kept (ledger.py, get_last_hash).
LinksPointBack ==
  \A s \in DOMAIN committed :
    \/ committed[s].previous_hash = GENESIS_HASH
    \/ \E r \in DOMAIN committed :
         r < s /\ committed[s].previous_hash = committed[r].record_hash

\* No step changes or drops a committed row (ledger.py, "append-only").
AppendOnly ==
  [][\A s \in DOMAIN committed :
       s \in DOMAIN committed' /\ committed'[s] = committed[s]]_vars

\* A ledger's lock is always let go, by return or by exception, so no failure
\* of one call blocks the next ones, nor do two ledgers that share a database
\* wait for each other for ever (ledger.py, `with self._lock` and the busy
\* timeout of the connection).
LockReleased ==
  \A l \in Ledgers, t \in Threads : lock[l] = t ~> lock[l] # t

\* Through one ledger object, every step of record, of its failures and of
\* restarts extends an atomic audit log by one chained record, or leaves it.
Abstract == INSTANCE AuditLog WITH log <- committed

RefinesAuditLog == Abstract!Spec

=============================================================================
