# policybound in TLA+

policybound puts a policy decision, a signed append-only record of it and a portable receipt in front of every
action of an AI agent. This directory holds TLA+ modules of its parts and of how they interact, TLC configurations that
check them on small instances, and TLAPS proofs of the main properties for every value of the constants. Paths below
are relative to `src/`; `ledger.py` and its neighbours are in `src/src/policybound/`.

## 1. The system

| Component | State it keeps | Operations |
|---|---|---|
| Decision ledger, `ledger.py` | a `threading.Lock`, a key pair, a SQLite connection and whatever transaction is open on it; the `decisions` table in the file | `record`, `verify_chain`, `count`, `query`, `close` |
| Records and hash chain, `ledger.py`, `types.py`, `crypto.py` | one row for each decision: signable content, hash, previous hash, signature, sequence | `_compute_hash`, `canonical_json`, `sign`, `verify` |
| Policy gate, `gate.py` | strictness, redacted keys, a key pair, `emit_receipts`, a ledger, an engine | `check`, `check_or_raise`, `verify_ledger`, `from_file` |
| Receipts, `receipt.py` | none; a JSON file when saved | `create_receipt`, `save_receipt`, `load_receipt`, `verify_receipt` |
| `GovernedTool`, `adapters/wrapper.py` | a gate, a function, agent and name | `__call__`, `check` |
| YAML policy engine, `policy.py` | the policy document, the compiled patterns | construction, `evaluate` |
| LangChain handler, `adapters/langchain.py` | a gate, `last_result` | `on_tool_start` |
| Command line, `cli.py` | the files of a workspace: policy, key pair, database, receipts, exports | `init`, `check`, `verify`, `audit`, `export` |

A `GovernedTool` or a callback handler asks `check_or_raise`, which calls `check`. `check` asks the engine, redacts, calls
`DecisionLedger.record` and makes a receipt of the record that comes back. Any number of threads may be in `check` at
once: they share the gate, its engine and its ledger, and only `record` takes a lock. Ledger objects that are open on
the same file share nothing but SQLite; so do the gate of a running program and the commands that somebody types beside it.

### What is hard, and what correctness means

- **Ledger.** `record` is two SELECTs, an INSERT and a COMMIT. The lock that makes them one step belongs to a ledger
  *object*. `append` commits and never rolls back, so after a failed INSERT the transaction that Python's `sqlite3`
  opened stays open, and later calls run, read and commit inside it. Every call can fail at every SQL statement, and
  the process can stop between any two. Correct: the chain verifies at every moment; a record that was returned is
  stored; a call that raised left nothing, also not later; sequences have no gap; rows never change; the lock is
  always let go.
- **Gate.** A failure of the engine or of the ledger must never turn into a permission, and what a caller holds
  (decision, record, receipt) must be the same as what the ledger holds, with calls finishing in any order and the
  process stopping anywhere. Sensitive values must not reach the log on the failure paths either. What a gate assumes of
  `record` has to be what `record` does, statement by statement.
- **Arguments.** A request is frozen, the dictionaries in it are not. The engine, the signature, the row, the tool and the
  receipt read the live objects one after the other, while callers, tools and other calls may change them. Correct: row,
  signature, tool and receipt agree with what was evaluated, in everything that nobody else has in hand.
- **Receipts.** A receipt verifies by itself, before and after it was a file, whatever happens to the ledger. Saving
  truncates first, and verifying walks through a document that anybody may have edited.
- **Policy engine.** Patterns are compiled in one pass and looked up in another; the first matching rule decides, and
  errors come up only when a rule is reached. Correct: every verdict is that of the first satisfied rule, and a policy
  without a mistake never fails.
- **LangChain handler.** `last_result` is one attribute for all tool runs, and a denial does not assign it; whether the
  exception of a denial stops anything is up to LangChain.
- **Command line.** `init` checks for three files and then writes them one by one, and may stop anywhere; `audit
  --verify-chain` verifies one snapshot and counts another, in a database that may have been edited; `export` writes a
  file from a snapshot that has aged; `check` guesses the types of its arguments and tells its verdict by an exit code.

`PROJECT.json` lists each hazard with its line and the properties that cover it.

## 2. The modules

| Module | Models | Built on |
|---|---|---|
| `Records` | content, hash, signature, the table and its keys, `verify_chain` | |
| `AuditLog` | abstract: an append-only, chained, signed log, and what it gave its callers | `Records` |
| `Ledger` | `DecisionLedger.record` over `SQLiteBackend` and SQLite | `Records`; an instance of `AuditLog` |
| `Receipts` | creating, saving, loading and verifying receipts | `Records` |
| `Gate` | `check`, `check_or_raise`, `GovernedTool.__call__` | `Receipts`; an instance of `AuditLog` |
| `GovernedLedger` | gates with the ledger objects themselves inside `check` | `Ledger`; an instance of `Gate` |
| `Handler` | `PolicyBoundCallbackHandler` and LangChain's tool runs | `Gate` |
| `Arguments` | the argument objects of a call, from the caller to the saved receipt | |
| `Policy` | `YAMLPolicyEngine`: loading and evaluation | |
| `CheckCommand` | `policybound check`, command line to exit code | `Policy` |
| `Database` | the table as another process sees it, with `record` in one step | `Records` |
| `Auditing` | `audit --verify-chain`, `verify_chain`, edits of the database | `Database` |
| `Reading` | `query`, `audit`, `export` | `Database` |
| `ReceiptFiles` | `save_receipt`, `load_receipt`, `verify_receipt`, `verify` | `Receipts`, `Database` |
| `Workspace` | `init`, `from_file`, `verify_ledger` over the files of a workspace and a database | `Records` |
| `Commands` | the four commands that read or write files, in one state space | instances of the four modules above |
| `MC...` | the values of the constants for TLC | their module |
| `LedgerProofs`, `GateProofs`, `HandlerProofs`, `ArgumentsProofs`, `PolicyProofs`, `CheckCommandProofs`, `CommandsProofs`, `GovernedLedgerProofs` | theorems | their module, `TLAPS` |

There are two compositions of gate and ledger. The first goes through the abstract log: `Ledger` with one object
implements `AuditLog` (checked as `RefinesAuditLog`, proved as `ImplementsAuditLog`), and `Gate` uses `AuditLog`'s actions
as its ledger, together with the ways in which `record` can end. The second puts `Ledger`'s own steps inside `check`
(`GovernedLedger`) and shows that the result, with one ledger object, implements `Gate` (`ImplementsGate`, checked and
proved), so that nothing rests on a summary of how `record` fails. `Gate` takes the policy engine through its protocol: it may give any verdict or raise, and `Policy`
says what the shipped engine gives.

### Ledger

| Model | Code |
|---|---|
| `committed`, `view[l]`, `txn[l]` | the table as committed; the table inside connection `l`'s open transaction; whether that has begun, has pinned a snapshot or has the write lock |
| `lock`, `pc`, `call` | the ledger's lock; where a thread is in `record`; its locals `decision`, `previous_hash`, `sequence` |
| `returned`, `lost` | history: records given to callers; committed rows whose process stopped before it could return |
| `Record`, `Acquire`, `GetLastHash`, `GetLastSequence` | the call, `with self._lock`, the two SELECTs |
| `CanonicalJsonRaises` | arguments that are not JSON: the exception leaves `record` as it is |
| `Insert`, `InsertViolates`, `InsertBusy`, `Commit`, `Return` | `append`: success, `IntegrityError`, "database is locked", the commit, leaving the `with` block |
| `Read` | a SELECT of `count`, `query` or `verify_chain`; it takes no lock and matters when it pins a snapshot |
| `SelectFails`, `InsertFails`, `CommitFails`, `Crash` | I/O errors and the end of a process, which starts again on the same file |

SQLite is external. The model has what the code depends on: WAL snapshots, one writer at a time, no writing from a
stale snapshot, the implicit BEGIN of Python before an INSERT, and a rollback when a commit fails for I/O. A
connection's SELECTs see its own uncommitted rows, which is why `ChainVerifies` is stated of `See(l)`.

### Gate, handler and the composition with the ledger

In `Gate`, `pc` follows one call of `check`; `decision`, `record` and `receipt` are its locals, `evaluated` is what the engine
said, `executed` the tools that ran. The `Evaluate...` actions are the engine's verdict, its `PolicyEvaluationError` in a
strict gate (an ERROR decision that is recorded) and what leaves `check` as an exception. `Commit` and `Recorded` are
`record`'s commit and return, the second with the receipt; `RecordFails` is `LedgerError`, `RecordRaises` every other
exception. `Refuse`, `Pass` and `Run` are `check_or_raise` and the tool. `Stop` ends the process. A call is one element
of `Calls` and has one decision identifier.

In `GovernedLedger` the threads of `Ledger` are the calls of `check`: `place` is where a call stands in `check`, `pc` where it
stands in `record`. `Ask` is what `check` and the tool do outside of `record`. `Gate`'s `Commit`, `Recorded`, `RecordFails` and
`RecordRaises` are replaced by `Ledger`'s actions: `CallRecord`, `Store`, `CommitRow` and `Recorded` are the way through
`record`; what `append` raises is a `LedgerError` (`AppendFails`), what the SELECTs and `canonical_json` raise is not
(`RecordRaises`); `ReadTable` is somebody's SELECT; and `Stop` ends calls, transactions and locks at once.

`Handler` adds to `Gate` the attribute `last`, the calls whose `on_tool_start` returned and the tools that LangChain ran.
A handler with `raise_on_deny` makes calls of `check_or_raise`. LangChain runs the tool of a start that was handled (`RunTool`),
and may run the tool of one that was refused or raised (`RunToolAnyway`): it logs the exceptions of a handler whose
`raise_error` is not set, and the class does not set it.

### Arguments

`heap` says what each mutable object holds. A call has a top-level dictionary, private to it behind a `GovernedTool` because
of `**kwargs`, and a nested object. `Evaluate`, `Sign`, `Store`, `Run` and `Save` each read the heap when their turn comes,
as the engine, `canonical_json`, `json.dumps`, the tool and `json.dump` do; `Redact` copies the top level only, into `copy`.
`Run` of a `Mutating` call is a tool that changes the nested object it was given, and `Change` is everybody else. A caller waits
for its own call of `check`, so what only this caller has is left alone until `check` returns, and changes before and after,
also between the return and `save_receipt`. `Shared` objects, which another thread or call has too, change at any moment. The
properties then say what survives: of unshared objects everything up to the row, of kwargs and redacted copies
everything up to the receipt. That no unshared nested object is changed by its tool before the receipt is saved is promised by
nobody, so `SignedIsKept` says of receipts what it says of the top level. What a caller does to the objects of a decision
that `check` returned, and calls that end in an exception and read nothing further, are left out.

### Policy and check

`policy` is any document of `Documents`, `patterns` the compiled set. `Load` and `Reject` are construction; `Evaluate`,
`NextRule`, `Match`, `RaiseError` and `Default` are `evaluate` going through the rules. Values carry their type, so a
comparison with something that is not a number is an error or a failed test where it is one in the code. A number also has the
type that decides how `str()` writes it: `True`, `1` and `1.0` are equal and compare alike, and a pattern or a wildcard tells
them apart. `Nan` is equal to nothing and no comparison of it holds. Numbers are counted in a unit of which all are
multiples, one half in the run; infinity is a number above the others. Tests inside a
rule run in order: a rule raises when it reaches a bad test and not when an earlier test fails.

`CheckCommand` puts a command line before it: `ParseKeyValues` and `CoerceValue` are `_parse_key_values` and
`_coerce_value` (a later pair replaces an earlier one; a text is a boolean, an integer, a float or itself), `PolicyInvalid`,
`BadFormat` and `Answer` the ways out, each with its exit code. A behaviour without a command line is a program that
uses the engine as it likes.

### Commands

Each behaviour of `Commands` is about one command (the variable `command`), among the things that happen while it runs.

- `Workspace` (init): `Start`, `Check`, `Refuse`, `Open` and `Write` follow an `init` through the existence checks and
  through opening, which truncates, and writing each file; `Fail` stops it anywhere; `Remove` is the user. A key file
  holds the name of the `init` that generated its pair. `FromFile` makes gates over restarts, with the key file or, without
  `key_path`, with a generated key. Each has its own ledger object on one database: `ReadLastHash`, `Append` and `AppendFails`
  are its `record`, which another gate's may come in between, and `VerifyLedger` the whole of `verify_chain` with its key.
- `Auditing` (audit --verify-chain): `Verify` fetches and checks the rows, `Count` is the second SELECT, and
  `StorageFails` is the `except Exception` that prints TAMPERED. `Alter`, `Rehash`, `Relink`, `Resign`, `Drop` and `Renumber` edit
  one row each; somebody without the private key can sign with another key only. An edit changes what `record_json` says. The
  columns that repeat some of it (ledger.py:71-88, 111-125) are not edited apart from it: `verify_chain` does not read them.
- `Reading` (export, audit): `Query` is the WHERE clause, `ORDER BY sequence` and LIMIT; `Fetch`, `OpenFile`,
  `WriteFile` and `WriteFails` are the command, while `Record` appends. Times are compared as texts: clock reading first,
  then offset.
- `ReceiptFiles` (verify): `OpenToSave`, `WriteReceipt` and `SaveFails` are `save_receipt`; `LoadReceipt`, `LoadFails`
  and `Verify` the command, whose answer is "valid", "invalid" or an exception; the edits lose a field, move one from
  another record, change the decision, the key or the format, put something that is no mapping in place of the document, the record
  or the decision's content (`NoMapping`), and recompute the hash, or hash and signature with another key.

### What is abstracted

- Hashes and signatures are free terms over the content they cover: equal when made of equal content, otherwise
  different. Nothing is said of SHA-256 or Ed25519.
- A decision is a model value (`Ledger`, `Auditing`), the call, verdict and redaction (`Gate`), or the fields that a query
  looks at (`Reading`). `Rekeyed` is the set of decisions that JSON changes: integer keys come back as strings and sort
  in another order. `Unserializable` and `NotJson` are those on which `canonical_json` raises.
- Random identifiers are the identity of the call; timestamps appear in `Reading` only.
- What a regular expression or a wildcard fits is the constant `Fits`; what `int()` and `float()` read in a text, the
  constants `Ints` and `Floats`. A test with `in` compares by `==`, not by identity, which matters for the same NaN object.
- `verify_chain` is one evaluation over one snapshot: it is a single SELECT in the code. In `Database` `record` is one step,
  which `Ledger` shows it to be for one ledger object.
- A redacted dictionary has one sensitive value, at its top level.

## 3. The runs

| Run | Shows | Distinct states |
|---|---|---|
| `ledger_one` | two threads on one ledger, every failure, faults, restarts: `ChainVerifies`, `ReturnedIsStored`, `RaisedIsAbsent`, refinement of `AuditLog` | 2 384 |
| `ledger_two` | two ledgers on one file, the same faults: `ContiguousSequences`, `LinksPointBack`, `AppendOnly`, `LockReleased` | 68 595 |
| `gate` | three concurrent tool runs, two through one raising handler on a strict redacting gate and one through a quiet handler on a lenient one, every failure, a stop | 446 779 |
| `governed_one` | three calls on two gates over one ledger object, SQL statement by statement: `ImplementsGate`, `EveryCallEnds` | 194 667 |
| `governed_two` | the same calls over two ledger objects whose chain may fork: the gate's promises do not rest on the chain, and no row of a failed recording comes up later (`RowsAreHeld`) | 746 008 |
| `arguments` | three calls, one on objects of its own, two that share a nested object, which one tool changes, and one with a dictionary that other threads change | 4 248 720 |
| `policy` | every policy of up to two rules of the rule set, of three when well made, and five requests in any order; and `check` on every command line of up to two pairs | 826 032 |
| `commands` | `init`, `audit --verify-chain`, `export` and `verify` | 4 026 261 |
| `ledger_fork`, `ledger_rekeyed`, `gate_raises`, `handler_ignored` | violations, see section 4 | |

**Bounds.** No run needs a state constraint: a decision can be stored once, a call is made once and a run of `init`
happens once, so the state spaces are finite.

- Ledger: two threads are enough for every conflict over a lock, a transaction or a row, since each of these has one
  holder and one loser; two ledger objects are enough for a stale snapshot and for a writer that waits. Of the three
  decisions `d3` cannot be serialized; the other two give a chain of two rows, a duplicate and a commit in between another's reads.
- `gate`: `c1` and `c2` are tool runs behind one raising handler on the strict gate, so that each may overwrite the other's result or
  be denied after it, and LangChain may run either tool whatever came of its check; `c3` is checked by a handler that does not raise. One of
  the gates is given the ledger's public key with its private key, the other the private key alone. `governed_*`: two calls compete inside the strict gate's ledger object and a third comes through
  the lenient gate; in `governed_one` the arguments of `c3` are not JSON.
- `arguments`: two values are enough to tell a changed object from an unchanged one. At first the kwargs of the two tools differ (`Heaps`); what
  the other objects hold then does not matter, as they may change before they are read. Every kind of object occurs: kwargs, a shared
  dictionary, a nested object of one call and one of two calls, of which one redacts behind a lenient gate and one behind a strict one.
- `policy`: the rules cover each operator, each kind of mistake and values of each type; two rules with mistakes are
  enough for one to hide another, and three show a rule that is reached after two failures. The number 1 occurs in its three types, with NaN and a fraction beside it,
  and patterns that fit one, two or none of them. Two pairs are enough for a
  repeated key and for a malformed pair after a good one.
- `commands`: three runs of `init`, one of them forced, since a mix of two pairs takes a run that stopped and a run that went on,
  and a third to go wrong after both; `Serial` lets one run at a time. Three gates, one without a key file, whose records may interleave and fork the chain. `MaxEdits = 3`
  edits of three rows, or of a receipt: altering a row and fitting its hash and its successor's link takes three. Edits come after the last record of a behaviour, since a record made after an edit links to it and
  vouches for it. Four decisions with equal and inverted times, under every combination of filters, UTC bounds and limits.

Symmetry is used where the values play the same part and no liveness is checked: the two values of `arguments`, and in
`commands` the two unforced runs of `init` and the two gates with a key file. Elsewhere the calls, runs and keys play different parts.

**Deadlock** is checked in every run. `Done` in `Gate`, `Rejected` in `Policy` and the final stuttering steps of the
commands are the places where the system really has nothing left to do.

**Fairness.** `Ledger` assumes weak fairness of the steps of a thread that is already inside a call, and `GovernedLedger`
of the steps of a call of `check` that was started: the operating system keeps running a thread, and an SQLite statement
ends because of its busy timeout. Nobody has to begin a call, read, fail or stop, and no thread is promised the lock,
because `threading.Lock` does not promise it. `LockReleased` therefore says that a holder lets go. `EveryCallEnds` says more, that a
call which waits gets its turn, because with finitely many calls everybody before it ends. The other
modules have no liveness property and assume no fairness.

## 4. Where code and documentation disagree

Each of these is a run that TLC finds violated, without any storage fault in the ledger runs.

1. `ledger_fork`: a second ledger object on the same file commits between `get_last_hash` and `get_last_sequence`
   (ledger.py:232-233). The row gets the new sequence and the old hash, and `verify_chain` reports tampering for ever.
   This is why `ledger_two` asks for `LinksPointBack` and not for `ChainVerifies`.
2. `ledger_rekeyed`: arguments with integer keys are signed in one order and verified in another (ledger.py:242).
3. `gate_raises`: a strict gate's `check` lets exceptions of `record` other than `LedgerError` and `SigningError` pass
   (gate.py:192) where README.md:238 promises a denial. The tool does not run in either case.
4. `handler_ignored`: the docstring of the handler says that denied actions raise, "preventing execution" (langchain.py:44), but
   LangChain logs the exception of a handler whose `raise_error` is not set, and the denied tool runs.

The models also have the following, which no run repeats. They are limits of what the properties say, and most can be
seen by changing a constant of a configuration.

- A gate made with a ledger and without `private_key` generates a key of its own (gate.py:81), and one that is given a public key
  of another pair keeps it (gate.py:82): its receipts do not verify, where README.md:107 says that each can be, and
  `verify_ledger` reports tampering. `ReceiptVerifies` and its theorems are about gates whose `GateKey` is their ledger's;
  give a gate of `Gate.cfg` `NoKey` for its `GivenKey` to see the other ones.
- Cutting off the end of the chain is not detected. SECURITY.md:32 and README.md:223 ("Hash chaining detects insertion, deletion,
  or reordering of records") and crypto.py:10-12 say it of every deletion, but a table without its last rows, or with none,
  is what the ledger held earlier, and `verify_chain` returns True. `ValidWithKeyIsRecorded` therefore says that a valid chain is
  one that the ledger had *at some time*, and `LastHashPinsRows` what more holds for somebody who kept the last hash. That
  it is the whole of what the ledger wrote is violated by one `Drop` of the last row.

- An INSERT that found the database busy leaves its transaction open (ledger.py:129); the next SELECT pins its snapshot,
  and `count`, `query` and `verify_chain` miss what others commit (ledger.py:188). In `Ledger`: `txn[l] = "reading"`.
- When `record` fails, the denial of a strict gate is in no ledger and has no receipt (gate.py:206), where README.md:45 and
  107 promise both. `ResultIsRecordedOrDenied` is what does hold.
- A rule's action is looked at when the rule first matches (policy.py:291-293), so an invalid policy loads and answers some
  requests, and `error` is accepted as an action. `WellMadeNeverFails` is stated of policies without such mistakes.
- `record` reads the decision twice, to sign it (ledger.py:236) and to store it (ledger.py:258). Its docstring calls it thread-safe
  (ledger.py:228), and its lock does not cover the caller's objects: a shared object that changes in between leaves a row
  that does not verify. An unshared object that its caller, or a tool, changes before `save_receipt` makes that receipt invalid.
  In `Arguments` both are `Change`, hence the conditions in `SignedIsKept`; without them the run `arguments` violates it.
- `verify_receipt` ("Returns a VerificationResult", receipt.py:83) raises on a document that is no mapping (receipt.py:86), on a
  record that is no mapping or lacks one of the signed fields (receipt.py:119), and on a validly signed decision without
  its request (receipt.py:148); `policybound verify` then ends with a traceback, also with exit code 1.
- After a denial `last_result` is that of an earlier tool run, where langchain.py:98 calls it "the result of the most recent policy
  check". `LastResultIsAllowed` says what remains.
- `audit --verify-chain` prints TAMPERED for any exception of the storage (cli.py:291).
- `Commands` with `Serial = FALSE`: two runs of `init` at once leave the private key of one and the public key of the other.
- A gate that `from_file` makes without `key_path` on a database with rows has a new key, and `verify_ledger` reports
  tampering. `KeyedGatesAgree` is stated of gates with a key file.
- Query bounds in another time zone are compared as texts (ledger.py:167), so `ResultIsSelection` fails for them.

## 5. What is proved

Every invariant, action property and refinement that a passing run checks is also a theorem. The theorems are about `Spec`,
and `HandlerSpec`, `CommandSpec` and `CheckSpec` of the modules that put something around it. They hold for every value of
the constants under the named assumptions of the modules (`LedgerAssumption`, `GateAssumption`, `NoneAssumption`,
`HandlerAssumption`, `GovernedLedgerAssumption`, `ArgumentsAssumption`, `DocumentAssumption`, `CommandAssumption`,
`CommandsAssumption`), which TLC evaluates in the runs. These say what the constants are: their types, that a name for
"nothing" is not a value, that a call and its ledger object go through the same gate. What a theorem needs beyond them is
in its own statement and in the table.

| Module | Theorem | Property |
|---|---|---|
| `LedgerProofs` | `TypeCorrect`, `ReturnedStaysStored`, `RaisedStaysAbsent`, `SequencesAreContiguous`, `RowsLinkBack`, `CommittedOnlyGrows` | `TypeOK`, `ReturnedIsStored`, `RaisedIsAbsent`, `ContiguousSequences`, `LinksPointBack`, `AppendOnly` |
| | `ChainStaysVerified` (one ledger object, `Rekeyed = {}`) | `ChainVerifies` |
| | `ImplementsAuditLog` (one ledger object) | `RefinesAuditLog` |
| `GateProofs` | `TypeCorrect`, `ToolsRunOnRecord`, `ToolsRunWhenAllowed`, `ResultsAreBacked`, `RecordsAnswer`, `RedactionHolds` | `TypeOK`, `ExecutedIsRecorded`, `ExecutedWasAllowed`, `ResultIsRecordedOrDenied`, `RecordedIsEvaluated`, `NothingSensitiveKept` |
| | `ReceiptsVerify` (every gate's key is its ledger's, `Rekeyed = {}`) | `ReceiptVerifies` |
| `HandlerProofs` | `HandlersMakeCalls` (`HandlerSpec => Spec`), `LastResultsAreAllowed` | `LastResultIsAllowed` |
| `ArgumentsProofs` | `RowsAreEvaluated`, `ToolsGetEvaluated`, `SignedStaysKept` | `RowIsEvaluated`, `ToolGetsEvaluated`, `SignedIsKept` |
| `GovernedLedgerProofs` | `ToolsRunOnCommittedRows`, `StrictResultsAreStored`, `RowsAnswer`, `PermissionsAndRedactionHold` | `ExecutedIsRecorded`, `ResultIsRecordedOrDenied`, `RowsAreHeld` with `Gate`'s `RecordedIsEvaluated`, `ExecutedWasAllowed` with `Gate`'s `NothingSensitiveKept` |
| | `CompetingReceiptsVerify` (every gate's key is that of the ledgers, `Rekeyed = {}`) | `Gate`'s `ReceiptVerifies` |
| | `GatesOnOneObjectImplementGate` (one ledger object) | `ImplementsGate` |
| `PolicyProofs` | `FirstMatchWins`, `WellMadePoliciesAnswer` | `AnswersAreFirstMatch`, `WellMadeNeverFails` |
| `CheckCommandProofs` | `ZeroMeansAllowed`, `ExitTells` | `ZeroIsAllowed`, `ExitTellsVerdict` |
| | `CommandsGetFirstMatch` | `AnswersAreFirstMatch`, `WellMadeNeverFails`, behind the command line |
| `CommandsProofs`, init | `KeyFilesMatch`, `KeyedGatesVerify` (`Serial`) | `KeysMatch`, `KeyedGatesAgree` |
| audit | `ValidAuditIsRecorded`, `LastHashPins` (`GenesisIsNoHash`) | `ValidWithKeyIsRecorded`, `LastHashPinsRows` |
| | `CountCovers` | `CountCoversVerified` |
| export | `ExportsStayPrefixes` | `ExportStaysPrefix` |
| | `ResultsAreSelections` (`QueriesAreUtc`) | `ResultIsSelection` |
| verify | `ValidReceiptIsRecorded`; `UneditedReceiptVerifies` (`NoMappingIsNone`) | `ValidIsRecorded`; `UneditedVerifies` |

The hypotheses cannot be dropped. With two ledger objects `ledger_fork` refutes `ChainVerifies`, and the row it stores is no
step of `Gate`, whose log is one chain. Without `Rekeyed = {}` a row does not verify (`ledger_rekeyed`), without its
ledger's key a gate's receipts do not. For that, for `Serial` and for `QueriesAreUtc` see section 4. `NoMappingIsNone` says that
what is no mapping is no receipt and no record, which TLA+ does not know of a constant.
`GenesisIsNoHash` says that no content has `GENESIS_HASH` as its hash: sixty-four zeros in the code, a constant of
`Records`, and without it a chain might begin again in its middle.

**Ledger.** None of the properties is inductive. `IInv` joins five parts. `TablesInv`: the committed table and every view
are numbered `1 .. n`, and each row is well formed and links to an earlier one. `ThreadsInv`: a thread past `lock` holds
its ledger's lock, so there is at most one. `CallsInv`: the hash a thread has read is that of a row it saw, which is a
committed row once it has read the sequence, and at `commit` its view is `committed` with exactly its own row. `TxnsInv`:
one connection writes at a time, and its view is `committed` unless one of its threads is at `commit`; this is what makes
the transaction that `append` leaves open harmless, since it never holds a row of a call that raised. `StoredInv` ties
`returned`, `lost` and threads at `return` to the table. For one ledger object `ChainInv` adds that the tip a thread has
read is still the tip when it inserts. The refinement maps `log` to `committed`, a function on `1 .. n` and hence a
sequence: `Commit` is `Extend`, `Return` is the abstract `Return`, everything else stutters.

**Gate.** `IInv` is `LogInv` (the log's rows are numbered and signed by the ledger), `LocalsInv` (which locals a place in
`check` has assigned), and for each call that it has at most one row, which is what the engine answered (`RowsInv`), that
its decision comes from the engine's answer (`DecisionInv`), that its result is its row or a denial (`ResultInv`), and that
an executed tool has passed (`ExecutedInv`).

**Governed.** Every step of `GovernedLedger` but `Stop` is a step of `Ledger` (`LedgerSteps`), and `Stop` keeps the ledger's
invariant too, so `IInv` of `LedgerProofs` holds inside `check`. `GovernedInv` joins to it `ChecksInv`, which relates the place of
a call in `check` to its place in `record` and says what the call holds there, and `RowsInv`: a row answers for the call it
names, which has committed it and has no other. `RowsAreHeld` follows with two facts about calls that are done: a record that was
returned stays with its call (`HeldStays`), and a commit leaves its call waiting for that record (`CommittedWait`). Nothing of this needs one chain, so it holds for any number of ledger
objects; `PromisesInv` does the same for permissions, redaction and receipts. With one object `ChainInv` gives that the
row of a call at `commit` extends the table by its tip, so `CommitRow` is `Gate`'s `Commit` (`CommitRowCommits`), `Return` its
`Recorded`, and each failure one of its failures (`GateSteps`).

**Handler.** A step of handlers and LangChain is a step of `Gate` or none (`HandlersMakeCalls`), so the gate's invariant
holds behind them. `HandlersInv` adds that every handled call of `check_or_raise` has passed and stays so
(`PassedStays`: its row, its returned record and the engine's answer never change), and that `last` names a handled call of its own handler.

**Arguments.** `ObjectsInv` says that an object which is not shared holds what the engine read while `check` has it, and kwargs hold
it for ever. `CopyInv` says that the redacted copy, once made, is a redacted dictionary and stays, `SignedInv` and `RowInv` relate
what was signed and stored to these, and `LaterInv` what the tool received and the receipt says. A step of another call or of
another thread leaves them alone because of how objects are shared (`ArgumentsAssumption`).

**Workspace.** `KeysMatch` is not inductive, since a run writes the two key files in two steps. The invariant adds that one run
is under way at most, that the run in the key file has written it (`WritersCame`), that a run which is about to write the
public key is the one in the key file (`KeyIsOwn`), and that an unforced run found no public key (`UnforcedFoundNone`).
`SessionsInv` says that every row is the record of a gate with its key and links to an earlier row or to the beginning
(`RowsOfGates`), and that a gate with a key file was told of tampering only if it is `Excused`: two runs came to the key, a gate
without key file recorded, or the chain is forked. Rows that link to different earlier ones each, without a fork, are a chain
(`UnforkedIsChain`), which then verifies row by row (`UnexcusedIsIntact`); what excuses a report does not go away (`ExcuseStays`). `StepsOfSetup` carries both over to
`Commands`: each of its steps is a step of `Workspace` or leaves the files and gates alone.

**Policy.** `ScanInv` says that no rule before the current one is satisfied by the request; with it goes that the patterns
are exactly those of `Compiled` once the policy is loaded. Two lemmas, `RuleIsRight` and `WellMadeRulesDecide`, relate the
way a rule is evaluated, test by test and with what was compiled, to what it asks of a request.

**Check.** `CommandInv` is that invariant with `AskedInv`, which says that the engine of a command has the one request that the
command line asks for and that its pairs could be read, and `ExitInv`. `LastPairCounts` shows that the fold of
`_parse_key_values` gives each key the value of its last pair; with it the request that was asked is the request that
the command line means.

**Audit.** `AuditInv` says of the table, edited or not, that its rows are records under natural numbers, that what the ledger's key
signed in them ends a history that `record` once wrote (`Issued`), and that without edits it is the last history
(`InOrder`); `VerifiedInv` keeps this of the rows that were accepted, until they are counted. The heart is `ChainsAgree`: two
hash chains that end in the same hash have the same length and the same contents. One would show it by going back from the
end row by row; the proof takes the place nearest to the end where they differ, whose existence is the well-foundedness of
the naturals, so no induction is needed. A verified table ends in a signature of the ledger's key, this ends a
history, and the two chains agree (`ChainIsRecorded`).

**Export.** `ExportInv` says that what was fetched, and what was written, is a beginning of what the same query gives now. It is
inductive because a record's row comes after all others, so a query grows at its end if at all (`QueryGrows`). That the
WHERE clause selects what was asked for is `FetchSelects`.

**Verify.** `VerifyInv` says that a document, however it was edited, holds a signature of the ledger's key only as some row has it,
and that one which was not edited is `Genuine`: the receipt of a row, saved and loaded. A valid document then has a
record that this row was signed for.

**Only model-checked:** `LockReleased` and `EveryCallEnds`, since liveness under fairness is out of the prover's reach, and
the four violations. The theorems rest on hashes and signatures being free terms, as the models do.

## 6. Not modelled, and what is left

Not modelled: `SQLiteBackend.close`, which nothing calls; PEM serialization, which is the `cryptography` library's;
`errors.py` and `__init__.py` (no state); printing and formatting in `cli.py` beyond the outcome; `examples/quickstart.py`,
a script over the same calls.

What is left: four hazards in `PROJECT.json` have no property, because the code does not meet them (two runs of `init` at
once, an I/O error in `audit` that reads like tampering, a shared object that changes between signing and storing, and the
exceptions of `verify_receipt`); the models have them, and section 4 describes them. Handlers are not composed
with `record` statement by statement: `Handler` stands on `Gate`, which `GovernedLedger` implements.
