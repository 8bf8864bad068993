------------------------------ MODULE Workspace ------------------------------
(***************************************************************************)
(* The files of a policybound workspace: `policybound init` (cli.py), which*)
(* makes them, and the gates that from_file (gate.py) makes of them, which *)
(* record in one database and verify it.                                   *)
(*                                                                         *)
(* init looks for the three files one after the other, then truncates and  *)
(* writes them one after the other.  It may fail or stop anywhere, and     *)
(* nothing undoes what it did.                                             *)
(***************************************************************************)
EXTENDS Records

CONSTANTS
  Inits,       \* runs of init; each generates a key pair, named as it is
  Forced,      \* those with --force
  Sessions,    \* gates made by from_file, with the default db_path; each has
               \* one decision to record, named as it is
  Keyed,       \* those made with key_path
  Serial,      \* one init at a time, and nobody touches its files meanwhile
  Absent, Empty, None

VARIABLES
  files,       \* each file: Absent, Empty, or the init that wrote it
  pc,          \* where an init stands: what it does, and to which file
  gateKey,     \* the key of a session's gate, "failed" if there is no gate
  chain,       \* the decisions table of the database
  reading,     \* the last hash that a session has read, to record
  tampered     \* the sessions to which verify_ledger reported tampering

ledgers == <<chain, reading, tampered>>
vars == <<files, pc, gateKey, ledgers>>

\* In the order in which init goes through them.
FileOrder == <<"policy", "key", "pub">>

Files == {"policy", "key", "pub"}

At(i, what, n) == pc[i] = [does |-> what, n |-> n]

Goto(i, what, n) == pc' = [pc EXCEPT ![i] = [does |-> what, n |-> n]]

Ended == {"done", "refused", "failed"}

Running(i) == pc[i].does \notin Ended \cup {"start"}

\* Mutation: the public key is not looked for.
PresentButPub(n) == n < 3 /\ files[FileOrder[n]] # Absent

\* Path.exists()
Present(n) == files[FileOrder[n]] # Absent

-----------------------------------------------------------------------------

Init ==
  /\ files = [f \in Files |-> Absent]
  /\ pc = [i \in Inits |-> [does |-> "start", n |-> 1]]
  /\ gateKey = [s \in Sessions |-> None]
  /\ chain = EmptyTable
  /\ reading = [s \in Sessions |-> None]
  /\ tampered = {}

Start(i) ==
  /\ At(i, "start", 1)
  /\ Serial => \A j \in Inits : ~ Running(j)
  /\ Goto(i, "check", 1)
  /\ UNCHANGED <<files, gateKey, ledgers>>

\* The next file is not there, or may be overwritten.
Check(i, n) ==
  /\ At(i, "check", n)
  /\ ~ Present(n) \/ i \in Forced
  /\ IF n < 3 THEN Goto(i, "check", n + 1) ELSE Goto(i, "open", 1)
  /\ UNCHANGED <<files, gateKey, ledgers>>

\* "already exists. Use --force to overwrite."
Refuse(i, n) ==
  /\ At(i, "check", n)
  /\ Present(n) /\ i \notin Forced
  /\ Goto(i, "refused", n)
  /\ UNCHANGED <<files, gateKey, ledgers>>

\* write_text, os.open with O_TRUNC and write_bytes create or empty the file.
Open(i, n) ==
  /\ At(i, "open", n)
  /\ files' = [files EXCEPT ![FileOrder[n]] = Empty]
  /\ Goto(i, "write", n)
  /\ UNCHANGED <<gateKey, ledgers>>

Write(i, n) ==
  /\ At(i, "write", n)
  /\ files' = [files EXCEPT ![FileOrder[n]] = i]
  /\ IF n < 3 THEN Goto(i, "open", n + 1) ELSE Goto(i, "done", n)
  /\ UNCHANGED <<gateKey, ledgers>>

\* An I/O error, or the end of the process.
Fail(i) ==
  /\ Running(i)
  /\ Goto(i, "failed", pc[i].n)
  /\ UNCHANGED <<files, gateKey, ledgers>>

\* The user takes a file away.
Remove(f) ==
  /\ files[f] # Absent
  /\ Serial => \A i \in Inits : ~ Running(i)
  /\ files' = [files EXCEPT ![f] = Absent]
  /\ UNCHANGED <<pc, gateKey, ledgers>>

-----------------------------------------------------------------------------

Readable(f) == files[f] \notin {Absent, Empty}

\* Mutation: the key pair is generated although there is a key file.
FromFileGenerates(s) ==
  /\ gateKey[s] = None
  /\ gateKey' = [gateKey EXCEPT ![s] =
       IF Readable("policy") /\ (s \in Keyed => Readable("key")) THEN s ELSE "failed"]
  /\ UNCHANGED <<files, pc, ledgers>>

\* InvalidPolicyError, FileNotFoundError and the errors of load_private_key
\* leave no gate; without key_path a key pair is generated.
FromFile(s) ==
  /\ gateKey[s] = None
  /\ gateKey' = [gateKey EXCEPT ![s] =
       IF ~ Readable("policy") THEN "failed"
       ELSE IF s \notin Keyed THEN s
       ELSE IF Readable("key") THEN files["key"] ELSE "failed"]
  /\ UNCHANGED <<files, pc, ledgers>>

HasGate(s) == gateKey[s] \notin {None, "failed"}

Recorded(s) == \E q \in DOMAIN chain : chain[q].decision = s

\* record, under the lock of this gate's ledger object only.
ReadLastHash(s) ==
  /\ HasGate(s)
  /\ reading[s] = None /\ ~ Recorded(s)
  /\ reading' = [reading EXCEPT ![s] = LastHash(chain)]
  /\ UNCHANGED <<files, pc, gateKey, chain, tampered>>

\* The sequence is read, and the row that it is for committed.
Append(s) ==
  /\ reading[s] # None
  /\ chain' = WithRow(chain, NewRecord(s, reading[s], LastSequence(chain) + 1, gateKey[s]))
  /\ reading' = [reading EXCEPT ![s] = None]
  /\ UNCHANGED <<files, pc, gateKey, tampered>>

\* LedgerError, also when another session took the sequence.
AppendFails(s) ==
  /\ reading[s] # None
  /\ reading' = [reading EXCEPT ![s] = None]
  /\ UNCHANGED <<files, pc, gateKey, chain, tampered>>

\* verify_chain with the gate's public key.
VerifyLedger(s) ==
  /\ HasGate(s)
  /\ tampered' = IF VerifyChain(chain, gateKey[s]) THEN tampered ELSE tampered \cup {s}
  /\ UNCHANGED <<files, pc, gateKey, chain, reading>>

-----------------------------------------------------------------------------

Proceed(i) ==
  \/ Start(i)
  \/ \E n \in 1 .. 3 : Check(i, n) \/ Refuse(i, n) \/ Open(i, n) \/ Write(i, n)
  \/ Fail(i)

Next ==
  \/ \E i \in Inits : Proceed(i)
  \/ \E f \in Files : Remove(f)
  \/ \E s \in Sessions :
       FromFile(s) \/ ReadLastHash(s) \/ Append(s) \/ AppendFails(s) \/ VerifyLedger(s)
  \/ (\A i \in Inits : pc[i].does \in Ended) /\ UNCHANGED vars

Spec == Init /\ [][Next]_vars

-----------------------------------------------------------------------------
(***************************************************************************)
(* Properties.                                                             *)
(***************************************************************************)

CameToKey(i) == pc[i].n > 1 /\ pc[i].does \notin {"check", "refused"}

\* The two key files are of one pair, unless a forced init was interrupted
\* between them: no refused, failed or repeated init mixes pairs, whichever
\* files the user removed in between (cli.py, init).
KeysMatch ==
  Readable("key") /\ Readable("pub") =>
    \/ files["key"] = files["pub"]
    \/ files["key"] \in Forced /\ pc[files["key"]].does # "done"

\* Two rows link to one hash: sessions recorded at the same time.
Forked ==
  \E q, r \in DOMAIN chain : q # r /\ chain[q].previous_hash = chain[r].previous_hash

\* The key file carries a ledger over restarts: as long as only one init came
\* to write one, a gate made with it finds intact whatever gates made with it
\* recorded, with files removed, gates that could not be made or have other
\* keys, and failed recordings in between; unless sessions forked the chain
\* (gate.py, from_file and verify_ledger; ledger.py, verify_chain).
KeyedGatesAgree ==
  /\ \A i, j \in Inits : CameToKey(i) /\ CameToKey(j) => i = j
  /\ \A q \in DOMAIN chain : chain[q].decision \in Keyed
  /\ ~ Forked
  => tampered \cap Keyed = {}

=============================================================================
