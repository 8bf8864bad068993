---------------------------- MODULE LedgerProofs ----------------------------
(***************************************************************************)
(* Proofs about Ledger: for any number of ledger objects, threads, keys    *)
(* and decisions, with every fault and restart the module has.             *)
(***************************************************************************)
EXTENDS Ledger, TLAPS, FiniteSetTheorems, SequenceTheorems

(***************************************************************************)
(* The inductive invariant.                                                *)
(***************************************************************************)

\* A row with this hash is among the rows below s.
PointsBack(hash, table, s) ==
  \/ hash = GENESIS_HASH
  \/ \E r \in DOMAIN table : r < s /\ hash = table[r].record_hash

\* A table of well-formed, linked rows numbered 1 to n.
Numbered(table, n) ==
  /\ table = [s \in 1 .. n |-> table[s]]
  /\ \A s \in 1 .. n :
       /\ table[s].decision \in Decisions
       /\ \E key \in Keys :
            table[s] = NewRecord(table[s].decision, table[s].previous_hash, s, key)
       /\ PointsBack(table[s].previous_hash, table, s)

IsTable(table) == \E n \in Nat : Numbered(table, n)

IsPrefix(early, late) ==
  /\ DOMAIN early \subseteq DOMAIN late
  /\ \A s \in DOMAIN early : early[s] = late[s]

Inside == Labels \ {"idle", "lock"}

TablesInv ==
  /\ IsTable(committed)
  /\ view = [l \in Ledgers |-> view[l]]
  /\ \A l \in Ledgers : IsTable(view[l])

ThreadsInv ==
  /\ txn \in [Ledgers -> TxnStates]
  /\ lock \in [Ledgers -> Threads \cup {None}]
  /\ pc \in [Threads -> Labels]
  /\ \A t \in Threads : pc[t] \in Inside => lock[LedgerOf[t]] = t

CallInv(t) ==
  /\ call[t] = Signable(call[t].decision, call[t].previous_hash, call[t].sequence)
  /\ call[t].decision \in IF At(t, "idle") THEN {None} ELSE Decisions
  /\ call[t].sequence \in Nat
  /\ At(t, "sequence") =>
       \/ call[t].previous_hash = GENESIS_HASH
       \/ \E r \in DOMAIN See(LedgerOf[t]) :
            call[t].previous_hash = See(LedgerOf[t])[r].record_hash
  /\ pc[t] \in {"append", "commit"} =>
       /\ \E s \in DOMAIN committed \cup {0} : call[t].sequence = s + 1
       /\ PointsBack(call[t].previous_hash, committed, call[t].sequence)
  /\ At(t, "commit") =>
       /\ txn[LedgerOf[t]] = "writing"
       /\ call[t].sequence \notin DOMAIN committed
       /\ view[LedgerOf[t]] = WithRow(committed, RecordOf(t))
  /\ At(t, "return") =>
       /\ call[t].sequence \in DOMAIN committed
       /\ committed[call[t].sequence] = RecordOf(t)

CallsInv == DOMAIN call = Threads /\ \A t \in Threads : CallInv(t)

\* One connection writes at a time; it sees the committed rows and, while one
\* of its threads is about to commit, that thread's row.
TxnInv(l) ==
  /\ txn[l] = "reading" => IsPrefix(view[l], committed)
  /\ txn[l] = "writing" =>
       /\ \A m \in Ledgers \ {l} : txn[m] # "writing"
       /\ \/ view[l] = committed
          \/ \E t \in Threads : LedgerOf[t] = l /\ At(t, "commit")

TxnsInv == \A l \in Ledgers : TxnInv(l)

StoredInv ==
  \A r \in returned \cup lost :
    r.sequence \in DOMAIN committed /\ committed[r.sequence] = r

IInv ==
  /\ TablesInv
  /\ ThreadsInv
  /\ CallsInv
  /\ TxnsInv
  /\ StoredInv
  /\ RaisedIsAbsent

-----------------------------------------------------------------------------
(***************************************************************************)
(* Tables.                                                                 *)
(***************************************************************************)

\* In a table whose rows are numbered 1 to n, the last sequence is n and the
\* last hash is that of row n.
LEMMA NumberedTable ==
  ASSUME NEW table, NEW n \in Nat, table = [s \in 1 .. n |-> table[s]]
  PROVE  /\ DOMAIN table = 1 .. n
         /\ LastSequence(table) = n
         /\ n = 0 => LastHash(table) = GENESIS_HASH
         /\ n # 0 => LastHash(table) = table[n].record_hash
<1>1. DOMAIN table = 1 .. n
  OBVIOUS
<1>2. n = 0 <=> table = EmptyTable
  <2>1. CASE n = 0
    <3>1. table = [s \in {} |-> table[s]]
      BY <2>1
    <3>2. EmptyTable = [s \in {} |-> table[s]]
      BY DEF EmptyTable
    <3>3. QED  BY <2>1, <3>1, <3>2
  <2>2. CASE n # 0
    <3>1. 1 \in DOMAIN table
      BY <1>1, <2>2
    <3>2. DOMAIN EmptyTable = {}
      BY DEF EmptyTable
    <3>3. QED  BY <2>2, <3>1, <3>2
  <2>3. QED  BY <2>1, <2>2
<1>3. n # 0 => Max(DOMAIN table) = n
  <2>1. SUFFICES ASSUME n # 0 PROVE Max(1 .. n) = n
    BY <1>1
  <2>2. \A y \in 1 .. n : n >= y
    OBVIOUS
  <2>3. \A x \in 1 .. n : (\A y \in 1 .. n : x >= y) => x = n
    BY <2>1
  <2>4. QED  BY <2>1, <2>2, <2>3 DEF Max
<1>4. QED  BY <1>1, <1>2, <1>3 DEF LastSequence, LastHash

\* A hash that a row below s has is still one when rows are added.
LEMMA PointsBackGrows ==
  ASSUME NEW early, NEW late, IsPrefix(early, late),
         NEW hash, NEW s, PointsBack(hash, early, s)
  PROVE  PointsBack(hash, late, s)
BY DEF PointsBack, IsPrefix

\* Adding the next row to a table, linked to one of its rows, gives a table
\* of which the first is a prefix.
LEMMA TableWithRow ==
  ASSUME NEW table, IsTable(table),
         NEW d \in Decisions, NEW hash, NEW s, NEW key \in Keys,
         PointsBack(hash, table, s),
         NEW q \in DOMAIN table \cup {0}, s = q + 1,
         s \notin DOMAIN table,
         NEW longer, longer = WithRow(table, NewRecord(d, hash, s, key))
  PROVE  /\ IsTable(longer)
         /\ IsPrefix(table, longer)
         /\ DOMAIN longer = DOMAIN table \cup {s}
         /\ longer[s] = NewRecord(d, hash, s, key)
<1> DEFINE row == NewRecord(d, hash, s, key)
<1>1. PICK n \in Nat : Numbered(table, n)
  BY DEF IsTable
<1>2. DOMAIN table = 1 .. n
  BY <1>1 DEF Numbered
<1>3. s = n + 1
  BY <1>2
<1>4. row.sequence = s /\ row.decision = d /\ row.previous_hash = hash
  BY DEF NewRecord
<1>5. longer = [x \in 1 .. n + 1 |-> IF x = s THEN row ELSE table[x]]
  <2>1. DOMAIN table \cup {s} = 1 .. n + 1
    BY <1>2, <1>3
  <2>2. QED  BY <1>4, <2>1 DEF WithRow
<1>6. longer[s] = row /\ \A x \in 1 .. n : longer[x] = table[x]
  BY <1>3, <1>5
<1>7. IsPrefix(table, longer)
  BY <1>2, <1>5, <1>6 DEF IsPrefix
<1>8. Numbered(longer, n + 1)
  <2>1. longer = [x \in 1 .. n + 1 |-> longer[x]]
    BY <1>5
  <2>2. ASSUME NEW x \in 1 .. n + 1
        PROVE  /\ longer[x].decision \in Decisions
               /\ \E k \in Keys :
                    longer[x] = NewRecord(longer[x].decision, longer[x].previous_hash, x, k)
               /\ PointsBack(longer[x].previous_hash, longer, x)
    <3>1. CASE x = s
      BY <1>4, <1>6, <1>7, <3>1, PointsBackGrows
    <3>2. CASE x \in 1 .. n
      <4>1. /\ longer[x].decision \in Decisions
            /\ \E k \in Keys :
                 longer[x] = NewRecord(longer[x].decision, longer[x].previous_hash, x, k)
        BY <1>1, <1>6, <3>2 DEF Numbered
      <4>2. PointsBack(table[x].previous_hash, table, x)
        BY <1>1, <3>2 DEF Numbered
      <4>3. QED  BY <1>6, <1>7, <3>2, <4>1, <4>2, PointsBackGrows
    <3>3. QED  BY <1>3, <3>1, <3>2
  <2>3. QED  BY <2>1, <2>2 DEF Numbered
<1>9. DOMAIN longer = DOMAIN table \cup {s}
  BY <1>4 DEF WithRow
<1>10. QED  BY <1>6, <1>7, <1>8, <1>9 DEF IsTable

-----------------------------------------------------------------------------
(***************************************************************************)
(* What the invariant says of one connection.                              *)
(***************************************************************************)

\* Two threads are never inside record on the same ledger.
LEMMA OneInside ==
  ASSUME ThreadsInv, NEW t \in Threads, NEW u \in Threads,
         pc[t] \in Inside, pc[u] \in Inside, LedgerOf[t] = LedgerOf[u]
  PROVE  t = u
BY DEF ThreadsInv

\* What a connection sees is a table.
LEMMA SeeIsTable ==
  ASSUME TablesInv, NEW l \in Ledgers
  PROVE  IsTable(See(l))
BY DEF TablesInv, See

\* A thread that can insert sees exactly the committed rows, whatever
\* transaction an earlier call left open on its connection.
LEMMA SeeCommitted ==
  ASSUME IInv, NEW t \in Threads, pc[t] \in Inside, ~ At(t, "commit"),
         CanWrite(LedgerOf[t])
  PROVE  See(LedgerOf[t]) = committed
<1> DEFINE l == LedgerOf[t]
<1>1. l \in Ledgers
  BY LedgerAssumption
<1>2. CASE txn[l] = "reading"
  BY <1>2 DEF CanWrite, See
<1>3. CASE txn[l] = "writing"
  <2>1. \A u \in Threads : LedgerOf[u] = l => ~ At(u, "commit")
    BY OneInside DEF IInv, At, Inside, Labels
  <2>2. view[l] = committed
    BY <1>1, <1>3, <2>1 DEF IInv, TxnsInv, TxnInv
  <2>3. QED  BY <1>3, <2>2 DEF See
<1>4. QED  BY <1>2, <1>3 DEF See

-----------------------------------------------------------------------------
(***************************************************************************)
(* Every action keeps the invariant.                                       *)
(***************************************************************************)

\* A call that begins only names its decision.
LEMMA RecordKeeps ==
  ASSUME IInv, NEW t \in Threads, NEW d \in Decisions, Record(t, d)
  PROVE  IInv'
<1> USE DEF Record, At, Goto, Inside, Labels
<1>1. TablesInv'
  BY DEF IInv, TablesInv
<1>2. ThreadsInv'
  BY DEF IInv, ThreadsInv
<1>3. CallsInv'
  <2>1. DOMAIN call' = Threads
    BY DEF IInv, CallsInv
  <2>2. ASSUME NEW u \in Threads, u # t PROVE CallInv(u)'
    <3>1. call'[u] = call[u] /\ pc'[u] = pc[u] /\ RecordOf(u)' = RecordOf(u)
      BY <2>2 DEF IInv, ThreadsInv, CallsInv, RecordOf
    <3>2. See(LedgerOf[u])' = See(LedgerOf[u])
      BY DEF See
    <3>3. QED  BY <3>1, <3>2 DEF IInv, CallsInv, CallInv
  <2>3. CallInv(t)'
    BY DEF IInv, ThreadsInv, CallsInv, CallInv, Signable
  <2>4. QED  BY <2>1, <2>2, <2>3 DEF CallsInv
<1>4. TxnsInv'
  BY DEF IInv, ThreadsInv, TxnsInv, TxnInv
<1>5. StoredInv'
  BY DEF IInv, StoredInv
<1>6. RaisedIsAbsent'
  <2>1. \A u \in Threads : At(u, "return") => At(u, "return")' /\ RecordOf(u)' = RecordOf(u)
    BY DEF IInv, ThreadsInv, CallsInv, RecordOf
  <2>2. QED  BY <2>1 DEF IInv, RaisedIsAbsent
<1>7. QED  BY <1>1, <1>2, <1>3, <1>4, <1>5, <1>6 DEF IInv

\* What a step of a thread inside record may touch: its own call, its own
\* connection, and the committed rows only by adding to them as the writer.
Touches(t) ==
  LET l == LedgerOf[t]
  IN  /\ \A u \in Threads \ {t} : pc'[u] = pc[u] /\ call'[u] = call[u]
      /\ \A m \in Ledgers \ {l} : txn'[m] = txn[m] /\ view'[m] = view[m]
      /\ IsPrefix(committed, committed')
      /\ committed' = committed \/ txn[l] = "writing"
      /\ txn'[l] = "writing" => txn[l] = "writing" \/ CanWrite(l)

\* Such a step keeps what the invariant says of the other threads and of the
\* other connections.
LEMMA Others ==
  ASSUME IInv, NEW t \in Threads, pc[t] \in Inside, Touches(t)
  PROVE  /\ \A u \in Threads \ {t} : CallInv(u)'
         /\ \A m \in Ledgers \ {LedgerOf[t]} : TxnInv(m)'
<1> DEFINE l == LedgerOf[t]
<1> USE DEF At, Inside, Labels
<1>1. l \in Ledgers
  BY LedgerAssumption
<1>2. ASSUME NEW u \in Threads \ {t} PROVE CallInv(u)'
  <2> DEFINE m == LedgerOf[u]
  <2>1. pc'[u] = pc[u] /\ call'[u] = call[u] /\ RecordOf(u)' = RecordOf(u)
    BY DEF Touches, RecordOf
  <2>2. CallInv(u) /\ m \in Ledgers
    BY LedgerAssumption DEF IInv, CallsInv
  <2>3. CASE pc[u] \notin Inside
    BY <2>1, <2>2, <2>3 DEF CallInv
  <2>4. CASE pc[u] \in Inside
    <3>1. m # l
      BY <2>4, OneInside DEF IInv
    <3>2. txn'[m] = txn[m] /\ view'[m] = view[m]
      BY <2>2, <3>1 DEF Touches
    <3>3. IsPrefix(See(m), See(m)')
      BY <3>2 DEF Touches, See, IsPrefix
    <3>4. At(u, "commit") => committed' = committed
      BY <1>1, <2>2, <3>1 DEF IInv, TxnsInv, TxnInv, CallInv, Touches
    <3>5. IsPrefix(committed, committed')
      BY DEF Touches
    <3>6. pc[u] = "sequence" =>
            \/ call[u].previous_hash = GENESIS_HASH
            \/ \E r \in DOMAIN See(m)' : call[u].previous_hash = See(m)'[r].record_hash
      BY <2>2, <3>3 DEF CallInv, IsPrefix
    <3>7. pc[u] \in {"append", "commit"} =>
            /\ \E s \in DOMAIN committed' \cup {0} : call[u].sequence = s + 1
            /\ PointsBack(call[u].previous_hash, committed', call[u].sequence)
      BY <2>2, <3>5, PointsBackGrows DEF CallInv, IsPrefix
    <3>8. pc[u] = "return" =>
            /\ call[u].sequence \in DOMAIN committed'
            /\ committed'[call[u].sequence] = RecordOf(u)
      BY <2>2, <3>5 DEF CallInv, IsPrefix
    <3>9. QED
      BY <2>1, <2>2, <3>2, <3>4, <3>6, <3>7, <3>8 DEF CallInv
  <2>5. QED  BY <2>3, <2>4
<1>3. ASSUME NEW m \in Ledgers \ {l} PROVE TxnInv(m)'
  <2>1. TxnInv(m) /\ txn'[m] = txn[m] /\ view'[m] = view[m]
    BY DEF IInv, TxnsInv, Touches
  <2>2. txn[m] = "reading" => IsPrefix(view[m], committed')
    BY <2>1 DEF TxnInv, Touches, IsPrefix
  <2>3. ASSUME txn[m] = "writing"
        PROVE  /\ \A k \in Ledgers \ {m} : txn'[k] # "writing"
               /\ \/ view[m] = committed'
                  \/ \E u \in Threads : LedgerOf[u] = m /\ pc'[u] = "commit"
    <3>1. txn[l] # "writing" /\ ~ CanWrite(l)
      BY <1>1, <2>1, <2>3 DEF TxnInv, CanWrite
    <3>2. committed' = committed /\ txn'[l] # "writing"
      BY <3>1 DEF Touches
    <3>3. \A k \in Ledgers \ {m} : txn'[k] # "writing"
      BY <2>1, <2>3, <3>2 DEF TxnInv, Touches
    <3>4. \A u \in Threads : LedgerOf[u] = m => pc'[u] = pc[u]
      BY DEF Touches
    <3>5. QED  BY <2>1, <2>3, <3>2, <3>3, <3>4 DEF TxnInv
  <2>4. QED  BY <2>1, <2>2, <2>3 DEF TxnInv
<1>4. QED  BY <1>2, <1>3

\* Leaving record, by return or by exception, lets the lock go and forgets
\* the call.
LEMMA LeaveKeeps ==
  ASSUME ThreadsInv, CallsInv, NEW t \in Threads, pc[t] \in Inside, Leave(t),
         txn' \in [Ledgers -> TxnStates]
  PROVE  /\ ThreadsInv'
         /\ DOMAIN call' = Threads
         /\ CallInv(t)'
         /\ \A u \in Threads \ {t} : pc'[u] = pc[u] /\ call'[u] = call[u]
         /\ pc'[t] = "idle"
<1> USE DEF Leave, Goto, At, Inside, Labels
<1>1. ThreadsInv'
  BY LedgerAssumption, OneInside DEF ThreadsInv
<1>2. DOMAIN call' = Threads /\ call'[t] = NoCall /\ pc'[t] = "idle"
  BY DEF CallsInv, ThreadsInv
<1>3. CallInv(t)'
  BY <1>2 DEF CallInv, NoCall, Signable
<1>4. QED  BY <1>1, <1>2, <1>3 DEF CallsInv, ThreadsInv

\* Taking the lock lets in one thread per ledger: the lock was free.
LEMMA AcquireKeeps ==
  ASSUME IInv, NEW t \in Threads, Acquire(t)
  PROVE  IInv'
<1> USE DEF Acquire, At, Goto, Inside, Labels
<1>1. TablesInv'
  BY DEF IInv, TablesInv
<1>2. ThreadsInv'
  BY LedgerAssumption DEF IInv, ThreadsInv
<1>3. CallsInv'
  <2>1. \A u \in Threads : See(LedgerOf[u])' = See(LedgerOf[u]) /\ RecordOf(u)' = RecordOf(u)
    BY DEF See, RecordOf
  <2>2. \A u \in Threads \ {t} : pc'[u] = pc[u]
    BY DEF IInv, ThreadsInv
  <2>3. pc'[t] = "hash"
    BY DEF IInv, ThreadsInv
  <2>4. QED  BY <2>1, <2>2, <2>3 DEF IInv, CallsInv, CallInv
<1>4. TxnsInv'
  BY DEF IInv, ThreadsInv, TxnsInv, TxnInv
<1>5. StoredInv'
  BY DEF IInv, StoredInv
<1>6. RaisedIsAbsent'
  BY DEF IInv, ThreadsInv, RaisedIsAbsent, RecordOf
<1>7. QED  BY <1>1, <1>2, <1>3, <1>4, <1>5, <1>6 DEF IInv

\* A SELECT leaves what a connection sees as it was.
LEMMA SelectKeeps ==
  ASSUME IInv, NEW l \in Ledgers, Select(l), committed' = committed
  PROVE  /\ TablesInv'
         /\ txn' \in [Ledgers -> TxnStates]
         /\ See(l)' = See(l)
         /\ \A m \in Ledgers \ {l} : txn'[m] = txn[m] /\ view'[m] = view[m]
         /\ txn'[l] = "writing" <=> txn[l] = "writing"
         /\ txn[l] = "writing" => view'[l] = view[l]
         /\ txn'[l] = "reading" => IsPrefix(view'[l], committed)
<1>1. CASE txn[l] = "begun"
  BY <1>1 DEF Select, IInv, TablesInv, ThreadsInv, TxnStates, See, IsPrefix
<1>2. CASE txn[l] # "begun"
  BY <1>2 DEF Select, IInv, TablesInv, ThreadsInv, TxnsInv, TxnInv, See
<1>3. QED  BY <1>1, <1>2

\* The hash that a call reads is the hash of a committed row, or
\* GENESIS_HASH: no uncommitted row is left where a thread reads.
LEMMA GetLastHashKeeps ==
  ASSUME IInv, NEW t \in Threads, GetLastHash(t)
  PROVE  IInv'
<1> DEFINE l == LedgerOf[t]
<1> USE DEF GetLastHash, At, Goto, Inside, Labels
<1>1. l \in Ledgers
  BY LedgerAssumption
<1>2. /\ TablesInv'
      /\ txn' \in [Ledgers -> TxnStates]
      /\ See(l)' = See(l)
      /\ \A m \in Ledgers \ {l} : txn'[m] = txn[m] /\ view'[m] = view[m]
      /\ txn'[l] = "writing" <=> txn[l] = "writing"
      /\ txn[l] = "writing" => view'[l] = view[l]
      /\ txn'[l] = "reading" => IsPrefix(view'[l], committed)
  BY <1>1, SelectKeeps
<1>3. ThreadsInv'
  BY <1>2 DEF IInv, ThreadsInv
<1>4. Touches(t)
  BY <1>2 DEF IInv, ThreadsInv, CallsInv, Touches, IsPrefix
<1>5. CallInv(t)'
  <2>1. PICK n \in Nat : Numbered(See(l), n)
    BY <1>1, SeeIsTable DEF IInv, IsTable
  <2>2. \/ LastHash(See(l)) = GENESIS_HASH
        \/ \E r \in DOMAIN See(l) : LastHash(See(l)) = See(l)[r].record_hash
    <3> DEFINE seen == See(l)
    <3>1. seen = [s \in 1 .. n |-> seen[s]]
      BY <2>1 DEF Numbered
    <3> HIDE DEF seen
    <3>2. /\ DOMAIN seen = 1 .. n
          /\ n = 0 => LastHash(seen) = GENESIS_HASH
          /\ n # 0 => LastHash(seen) = seen[n].record_hash
      BY <3>1, NumberedTable
    <3>3. n # 0 => n \in 1 .. n
      OBVIOUS
    <3>4. QED  BY <3>2, <3>3 DEF seen
  <2>3. /\ pc'[t] = "sequence"
        /\ call'[t] = [call[t] EXCEPT !.previous_hash = LastHash(See(l))]
    BY DEF IInv, ThreadsInv, CallsInv
  <2>4. call'[t] = Signable(call[t].decision, LastHash(See(l)), call[t].sequence)
    BY <2>3 DEF IInv, CallsInv, CallInv, Signable
  <2>5. /\ call'[t].decision = call[t].decision
        /\ call'[t].previous_hash = LastHash(See(l))
        /\ call'[t].sequence = call[t].sequence
    BY <2>4 DEF Signable
  <2>6. QED
    BY <1>2, <2>2, <2>3, <2>4, <2>5 DEF IInv, CallsInv, CallInv
<1>6. CallsInv'
  BY <1>4, <1>5, Others DEF IInv, CallsInv
<1>7. TxnsInv'
  <2>1. TxnInv(l)'
    <3>1. txn[l] = "writing" =>
            \/ view[l] = committed
            \/ \E u \in Threads : LedgerOf[u] = l /\ pc[u] = "commit" /\ pc'[u] = "commit"
      BY <1>1, <1>4 DEF IInv, TxnsInv, TxnInv, Touches
    <3>2. QED
      BY <1>1, <1>2, <3>1 DEF IInv, TxnsInv, TxnInv
  <2>2. QED  BY <1>1, <1>4, <2>1, Others DEF TxnsInv
<1>8. StoredInv'
  BY DEF IInv, StoredInv
<1>9. RaisedIsAbsent'
  BY <1>4 DEF IInv, RaisedIsAbsent, RecordOf, Touches
<1>10. QED  BY <1>2, <1>3, <1>6, <1>7, <1>8, <1>9 DEF IInv

\* The sequence that a call reads comes after the row whose hash it read,
\* as the committed table only grows in between.
LEMMA GetLastSequenceKeeps ==
  ASSUME IInv, NEW t \in Threads, GetLastSequence(t)
  PROVE  IInv'
<1> DEFINE l == LedgerOf[t]
<1> USE DEF GetLastSequence, At, Goto, Inside, Labels
<1>1. l \in Ledgers
  BY LedgerAssumption
<1>2. /\ TablesInv'
      /\ txn' \in [Ledgers -> TxnStates]
      /\ See(l)' = See(l)
      /\ \A m \in Ledgers \ {l} : txn'[m] = txn[m] /\ view'[m] = view[m]
      /\ txn'[l] = "writing" <=> txn[l] = "writing"
      /\ txn[l] = "writing" => view'[l] = view[l]
      /\ txn'[l] = "reading" => IsPrefix(view'[l], committed)
  BY <1>1, SelectKeeps
<1>3. ThreadsInv'
  BY <1>2 DEF IInv, ThreadsInv
<1>4. Touches(t)
  BY <1>2 DEF IInv, ThreadsInv, CallsInv, Touches, IsPrefix
<1>5. CallInv(t)'
  <2>1. PICK n \in Nat : Numbered(See(l), n)
    BY <1>1, SeeIsTable DEF IInv, IsTable
  <2>2. DOMAIN See(l) = 1 .. n /\ LastSequence(See(l)) = n
    BY <2>1, NumberedTable DEF Numbered
  <2>3. IsPrefix(See(l), committed)
    <3>1. \A u \in Threads : LedgerOf[u] = l => pc[u] # "commit"
      BY OneInside DEF IInv
    <3>2. QED  BY <1>1, <3>1 DEF IInv, TxnsInv, TxnInv, See, IsPrefix
  <2>4. \E s \in DOMAIN committed \cup {0} : n + 1 = s + 1
    BY <2>2, <2>3 DEF IsPrefix
  <2>5. PointsBack(call[t].previous_hash, committed, n + 1)
    <3>1. \/ call[t].previous_hash = GENESIS_HASH
          \/ \E r \in DOMAIN See(l) : call[t].previous_hash = See(l)[r].record_hash
      BY DEF IInv, CallsInv, CallInv
    <3>2. QED  BY <2>2, <2>3, <3>1 DEF PointsBack, IsPrefix
  <2>6. /\ pc'[t] = "append"
        /\ call'[t] = [call[t] EXCEPT !.sequence = n + 1]
    BY <2>2 DEF IInv, ThreadsInv, CallsInv
  <2>7. call'[t] = Signable(call[t].decision, call[t].previous_hash, n + 1)
    BY <2>6 DEF IInv, CallsInv, CallInv, Signable
  <2>8. /\ call'[t].decision = call[t].decision
        /\ call'[t].previous_hash = call[t].previous_hash
        /\ call'[t].sequence = n + 1
    BY <2>7 DEF Signable
  <2>9. QED
    BY <2>4, <2>5, <2>6, <2>7, <2>8 DEF IInv, CallsInv, CallInv
<1>6. CallsInv'
  BY <1>4, <1>5, Others DEF IInv, CallsInv
<1>7. TxnsInv'
  <2>1. TxnInv(l)'
    <3>1. txn[l] = "writing" =>
            \/ view[l] = committed
            \/ \E u \in Threads : LedgerOf[u] = l /\ pc[u] = "commit" /\ pc'[u] = "commit"
      BY <1>1, <1>4 DEF IInv, TxnsInv, TxnInv, Touches
    <3>2. QED
      BY <1>1, <1>2, <3>1 DEF IInv, TxnsInv, TxnInv
  <2>2. QED  BY <1>1, <1>4, <2>1, Others DEF TxnsInv
<1>8. StoredInv'
  BY DEF IInv, StoredInv
<1>9. RaisedIsAbsent'
  BY <1>4 DEF IInv, RaisedIsAbsent, RecordOf, Touches
<1>10. QED  BY <1>2, <1>3, <1>6, <1>7, <1>8, <1>9 DEF IInv

\* The empty table is a table.
LEMMA EmptyIsTable == IsTable(EmptyTable)
<1>1. EmptyTable = [s \in 1 .. 0 |-> EmptyTable[s]]
  BY DEF EmptyTable
<1>2. QED  BY <1>1 DEF IsTable, Numbered

\* What a step that leaves record does to its connection: nothing, or it ends
\* in an open transaction without a row, or in none.
LeavesConnection(t) ==
  LET l == LedgerOf[t]
  IN  /\ \E state \in TxnStates : txn' = [txn EXCEPT ![l] = state]
      /\ \E table : IsTable(table) /\ view' = [view EXCEPT ![l] = table]
      /\ \/ txn'[l] = txn[l] /\ view'[l] = view[l] /\ ~ At(t, "commit")
         \/ txn'[l] \in {"none", "begun"}
         \/ txn'[l] = "writing" /\ view'[l] = committed /\ CanWrite(l)

\* A call that leaves with its connection in one of these states keeps the
\* parts of the invariant on tables, threads, calls and transactions.
LEMMA LeavingKeeps ==
  ASSUME IInv, NEW t \in Threads, pc[t] \in Inside, Leave(t),
         UNCHANGED committed, LeavesConnection(t)
  PROVE  /\ TablesInv' /\ ThreadsInv' /\ CallsInv' /\ TxnsInv'
         /\ \A u \in Threads \ {t} : pc'[u] = pc[u] /\ call'[u] = call[u]
<1> DEFINE l == LedgerOf[t]
<1> USE DEF At
<1>1. l \in Ledgers
  BY LedgerAssumption
<1>2. TablesInv' /\ txn' \in [Ledgers -> TxnStates]
  BY <1>1 DEF IInv, TablesInv, ThreadsInv, LeavesConnection
<1>3. \A m \in Ledgers \ {l} : txn'[m] = txn[m] /\ view'[m] = view[m]
  BY DEF IInv, TablesInv, ThreadsInv, LeavesConnection
<1>4. /\ ThreadsInv'
      /\ DOMAIN call' = Threads
      /\ CallInv(t)'
      /\ \A u \in Threads \ {t} : pc'[u] = pc[u] /\ call'[u] = call[u]
  BY <1>2, LeaveKeeps DEF IInv
<1>5. Touches(t)
  BY <1>3, <1>4 DEF Touches, IsPrefix, LeavesConnection
<1>6. CallsInv'
  BY <1>4, <1>5, Others DEF CallsInv
<1>7. TxnInv(l)'
  <2>1. TxnInv(l)
    BY <1>1 DEF IInv, TxnsInv
  <2>2. CASE txn'[l] = txn[l] /\ view'[l] = view[l] /\ pc[t] # "commit"
    BY <1>3, <1>4, <2>1, <2>2 DEF TxnInv
  <2>3. CASE txn'[l] \in {"none", "begun"}
    BY <2>3 DEF TxnInv
  <2>4. CASE txn'[l] = "writing" /\ view'[l] = committed /\ CanWrite(l)
    BY <1>3, <2>4 DEF TxnInv, CanWrite
  <2>5. QED  BY <2>2, <2>3, <2>4 DEF LeavesConnection
<1>8. TxnsInv'
  BY <1>1, <1>5, <1>7, Others DEF TxnsInv
<1>9. QED  BY <1>2, <1>4, <1>6, <1>8

\* A call that raises before its row was committed keeps the invariant.
LEMMA RaisingKeeps ==
  ASSUME IInv, NEW t \in Threads, pc[t] \in Inside, ~ At(t, "return"), Leave(t),
         UNCHANGED <<committed, returned, lost>>, LeavesConnection(t)
  PROVE  IInv'
<1>1. /\ TablesInv' /\ ThreadsInv' /\ CallsInv' /\ TxnsInv'
      /\ \A u \in Threads \ {t} : pc'[u] = pc[u] /\ call'[u] = call[u]
  BY LeavingKeeps
<1>2. StoredInv'
  BY DEF IInv, StoredInv
<1>3. RaisedIsAbsent'
  BY <1>1 DEF IInv, RaisedIsAbsent, RecordOf, At
<1>4. QED  BY <1>1, <1>2, <1>3 DEF IInv

\* A call that raises and does not touch its connection leaves it in such a
\* state.
LEMMA ConnectionUnchanged ==
  ASSUME IInv, NEW t \in Threads, UNCHANGED <<txn, view>>, ~ At(t, "commit")
  PROVE  LeavesConnection(t)
<1> DEFINE l == LedgerOf[t]
<1>1. l \in Ledgers /\ txn[l] \in TxnStates /\ IsTable(view[l])
  BY LedgerAssumption DEF IInv, TablesInv, ThreadsInv
<1>2. txn' = [txn EXCEPT ![l] = txn[l]] /\ view' = [view EXCEPT ![l] = view[l]]
  BY <1>1 DEF IInv, TablesInv, ThreadsInv
<1>3. QED  BY <1>1, <1>2 DEF LeavesConnection

\* Content that cannot be serialized is refused before any row exists.
LEMMA CanonicalJsonRaisesKeeps ==
  ASSUME IInv, NEW t \in Threads, CanonicalJsonRaises(t)
  PROVE  IInv'
BY ConnectionUnchanged, RaisingKeeps
   DEF CanonicalJsonRaises, At, Inside, Labels

\* A failed SELECT leaves the connection as it was.
LEMMA SelectFailsKeeps ==
  ASSUME IInv, NEW t \in Threads, SelectFails(t)
  PROVE  IInv'
BY ConnectionUnchanged, RaisingKeeps DEF SelectFails, At, Inside, Labels

\* A refused INSERT leaves a transaction open that holds the write lock and
\* no row of its own.
LEMMA InsertViolatesKeeps ==
  ASSUME IInv, NEW t \in Threads, InsertViolates(t)
  PROVE  IInv'
<1> DEFINE l == LedgerOf[t]
<1> USE DEF InsertViolates, Insertable, At, Inside, Labels
<1>1. l \in Ledgers /\ See(l) = committed /\ IsTable(See(l))
  BY LedgerAssumption, SeeCommitted, SeeIsTable DEF IInv
<1>2. LeavesConnection(t)
  BY <1>1 DEF IInv, ThreadsInv, TablesInv, LeavesConnection, TxnStates
<1>3. QED  BY <1>2, RaisingKeeps

\* A busy INSERT leaves a transaction begun, or as it was.
LEMMA InsertBusyKeeps ==
  ASSUME IInv, NEW t \in Threads, InsertBusy(t)
  PROVE  IInv'
<1> DEFINE l == LedgerOf[t]
<1> USE DEF InsertBusy, Insertable, At, Inside, Labels
<1>1. l \in Ledgers /\ txn[l] \in TxnStates /\ IsTable(view[l])
  BY LedgerAssumption DEF IInv, ThreadsInv, TablesInv
<1>2. LeavesConnection(t)
  <2>1. view' = [view EXCEPT ![l] = view[l]]
    BY <1>1 DEF IInv, TablesInv
  <2>2. \E state \in TxnStates : txn' = [txn EXCEPT ![l] = state]
    BY <1>1 DEF TxnStates
  <2>3. txn'[l] = txn[l] \/ txn'[l] = "begun"
    BY <1>1 DEF IInv, ThreadsInv
  <2>4. QED  BY <1>1, <2>1, <2>2, <2>3 DEF LeavesConnection
<1>3. QED  BY <1>2, RaisingKeeps

\* An INSERT that met an I/O error leaves no row, in a transaction or in none.
LEMMA InsertFailsKeeps ==
  ASSUME IInv, NEW t \in Threads, InsertFails(t)
  PROVE  IInv'
<1> DEFINE l == LedgerOf[t]
<1> USE DEF InsertFails, Insertable, At, Inside, Labels
<1>1. l \in Ledgers /\ See(l) = committed /\ IsTable(See(l))
  BY LedgerAssumption, SeeCommitted, SeeIsTable DEF IInv
<1>2. LeavesConnection(t)
  <2>1. CASE txn' = [txn EXCEPT ![l] = "writing"] /\ view' = [view EXCEPT ![l] = See(l)]
    BY <1>1, <2>1 DEF IInv, ThreadsInv, TablesInv, LeavesConnection, TxnStates
  <2>2. CASE txn' = [txn EXCEPT ![l] = "none"] /\ view' = [view EXCEPT ![l] = EmptyTable]
    BY <1>1, <2>2, EmptyIsTable
       DEF IInv, ThreadsInv, TablesInv, LeavesConnection, TxnStates
  <2>3. QED  BY <2>1, <2>2
<1>3. QED  BY <1>2, RaisingKeeps

\* A failed commit rolls the row back.
LEMMA CommitFailsKeeps ==
  ASSUME IInv, NEW t \in Threads, CommitFails(t)
  PROVE  IInv'
<1> USE DEF CommitFails, At, Inside, Labels
<1>1. LeavesConnection(t)
  BY EmptyIsTable, LedgerAssumption
     DEF IInv, ThreadsInv, TablesInv, LeavesConnection, TxnStates
<1>2. QED  BY <1>1, RaisingKeeps

\* What a call returns is the row that it committed.
LEMMA ReturnKeeps ==
  ASSUME IInv, NEW t \in Threads, Return(t)
  PROVE  IInv'
<1> USE DEF Return, At, Inside, Labels
<1>1. /\ TablesInv' /\ ThreadsInv' /\ CallsInv' /\ TxnsInv'
      /\ \A u \in Threads \ {t} : pc'[u] = pc[u] /\ call'[u] = call[u]
  BY ConnectionUnchanged, LeavingKeeps
<1>2. /\ RecordOf(t).sequence \in DOMAIN committed
      /\ committed[RecordOf(t).sequence] = RecordOf(t)
  BY DEF IInv, CallsInv, CallInv, RecordOf, NewRecord
<1>3. StoredInv'
  BY <1>2 DEF IInv, StoredInv
<1>4. RaisedIsAbsent'
  BY <1>1 DEF IInv, RaisedIsAbsent, RecordOf
<1>5. QED  BY <1>1, <1>3, <1>4 DEF IInv

\* The row that a thread is about to insert or commit extends the table, when
\* its sequence is not taken.
LEMMA NextRow ==
  ASSUME IInv, NEW t \in Threads, pc[t] \in {"append", "commit"},
         call[t].sequence \notin DOMAIN committed
  PROVE  /\ IsTable(WithRow(committed, RecordOf(t)))
         /\ IsPrefix(committed, WithRow(committed, RecordOf(t)))
         /\ DOMAIN WithRow(committed, RecordOf(t)) = DOMAIN committed \cup {call[t].sequence}
         /\ WithRow(committed, RecordOf(t))[call[t].sequence] = RecordOf(t)
<1> DEFINE decision == call[t].decision
           hash     == call[t].previous_hash
           sequence == call[t].sequence
           key      == KeyOf[LedgerOf[t]]
           longer   == WithRow(committed, RecordOf(t))
<1>1. IsTable(committed) /\ key \in Keys
  BY LedgerAssumption DEF IInv, TablesInv
<1>2. /\ decision \in Decisions
      /\ \E q \in DOMAIN committed \cup {0} : sequence = q + 1
      /\ PointsBack(hash, committed, sequence)
  BY DEF IInv, CallsInv, CallInv, At
<1>3. PICK q \in DOMAIN committed \cup {0} : sequence = q + 1
  BY <1>2
<1>4. RecordOf(t) = NewRecord(decision, hash, sequence, key)
  BY DEF RecordOf
<1>5. longer = WithRow(committed, NewRecord(decision, hash, sequence, key))
  BY <1>4
<1>6. sequence \notin DOMAIN committed
  OBVIOUS
<1> HIDE DEF decision, hash, sequence, key, longer
<1>7. /\ IsTable(longer)
      /\ IsPrefix(committed, longer)
      /\ DOMAIN longer = DOMAIN committed \cup {sequence}
      /\ longer[sequence] = NewRecord(decision, hash, sequence, key)
  BY ONLY <1>1, <1>2, <1>3, <1>5, <1>6, TableWithRow
<1>8. QED  BY <1>4, <1>7 DEF longer, sequence

\* An INSERT extends the committed rows by one, inside its transaction.
LEMMA InsertKeeps ==
  ASSUME IInv, NEW t \in Threads, Insert(t)
  PROVE  IInv'
<1> DEFINE l   == LedgerOf[t]
           row == RecordOf(t)
<1> USE DEF Insert, Insertable, At, Goto, Inside, Labels
<1>1. l \in Ledgers /\ See(l) = committed /\ IsTable(committed)
  BY LedgerAssumption, SeeCommitted DEF IInv, TablesInv
<1>2. /\ call[t].sequence \notin DOMAIN committed
      /\ row = NewRecord(call[t].decision, call[t].previous_hash,
                         call[t].sequence, KeyOf[l])
  BY <1>1 DEF Violates, RecordOf, NewRecord
<1>3. /\ call[t].decision \in Decisions
      /\ \E q \in DOMAIN committed \cup {0} : call[t].sequence = q + 1
      /\ PointsBack(call[t].previous_hash, committed, call[t].sequence)
  BY DEF IInv, CallsInv, CallInv
<1>4. IsTable(WithRow(committed, row))
  BY <1>2, NextRow
<1>5. /\ txn' = [txn EXCEPT ![l] = "writing"]
      /\ view' = [view EXCEPT ![l] = WithRow(committed, row)]
      /\ pc' = [pc EXCEPT ![t] = "commit"]
  BY <1>1
<1>6. TablesInv'
  BY <1>1, <1>4, <1>5 DEF IInv, TablesInv
<1>7. ThreadsInv'
  BY <1>1, <1>5 DEF IInv, ThreadsInv, TxnStates
<1>8. Touches(t)
  BY <1>5 DEF IInv, ThreadsInv, TablesInv, Touches, IsPrefix
<1>9. CallInv(t)'
  <2>1. /\ txn'[l] = "writing" /\ view'[l] = WithRow(committed, row) /\ pc'[t] = "commit"
        /\ RecordOf(t)' = row
    BY <1>1, <1>5 DEF IInv, ThreadsInv, TablesInv, RecordOf
  <2>2. call'[t] = call[t] /\ committed' = committed
    OBVIOUS
  <2>3. /\ call[t] = Signable(call[t].decision, call[t].previous_hash, call[t].sequence)
        /\ call[t].sequence \in Nat
    BY DEF IInv, CallsInv, CallInv
  <2>4. QED  BY <1>2, <1>3, <2>1, <2>2, <2>3 DEF CallInv
<1>10. CallsInv'
  BY <1>8, <1>9, Others DEF IInv, CallsInv
<1>11. TxnsInv'
  <2>1. TxnInv(l)'
    BY <1>1, <1>5 DEF IInv, ThreadsInv, TxnInv, CanWrite
  <2>2. QED  BY <1>8, <2>1, Others DEF TxnsInv
<1>12. StoredInv'
  BY DEF IInv, StoredInv
<1>13. RaisedIsAbsent'
  BY <1>8 DEF IInv, RaisedIsAbsent, RecordOf, Touches
<1>14. QED  BY <1>6, <1>7, <1>10, <1>11, <1>12, <1>13 DEF IInv

\* The commit adds the row of the thread that commits, and nothing else.
LEMMA CommitAddsRow ==
  ASSUME IInv, NEW t \in Threads, Commit(t)
  PROVE  /\ committed' = WithRow(committed, RecordOf(t))
         /\ IsTable(committed')
         /\ IsPrefix(committed, committed')
         /\ DOMAIN committed' = DOMAIN committed \cup {call[t].sequence}
         /\ committed'[call[t].sequence] = RecordOf(t)
         /\ call[t].sequence \notin DOMAIN committed
         /\ txn[LedgerOf[t]] = "writing"
<1>1. /\ txn[LedgerOf[t]] = "writing"
      /\ call[t].sequence \notin DOMAIN committed
      /\ committed' = WithRow(committed, RecordOf(t))
  BY DEF Commit, At, IInv, CallsInv, CallInv
<1>2. QED  BY <1>1, NextRow DEF Commit, At

\* A commit makes the table of the one writer the committed one; what other
\* calls have read stays in it.
LEMMA CommitKeeps ==
  ASSUME IInv, NEW t \in Threads, Commit(t)
  PROVE  IInv'
<1> DEFINE l == LedgerOf[t]
<1>1. l \in Ledgers
  BY LedgerAssumption
<1>2. /\ IsTable(committed')
      /\ IsPrefix(committed, committed')
      /\ DOMAIN committed' = DOMAIN committed \cup {call[t].sequence}
      /\ committed'[call[t].sequence] = RecordOf(t)
      /\ txn[l] = "writing"
  BY CommitAddsRow
<1> USE DEF Commit, At, Goto, Inside, Labels
<1>3. TablesInv'
  BY <1>1, <1>2, EmptyIsTable DEF IInv, TablesInv
<1>4. ThreadsInv'
  BY <1>1 DEF IInv, ThreadsInv, TxnStates
<1>5. Touches(t)
  BY <1>2 DEF IInv, ThreadsInv, TablesInv, Touches
<1>6. CallInv(t)'
  <2>1. pc'[t] = "return" /\ call' = call /\ RecordOf(t)' = RecordOf(t)
    BY DEF IInv, ThreadsInv, RecordOf
  <2>2. /\ call[t] = Signable(call[t].decision, call[t].previous_hash, call[t].sequence)
        /\ call[t].sequence \in Nat
        /\ call[t].decision \in Decisions
    BY DEF IInv, CallsInv, CallInv
  <2>3. QED  BY <1>2, <2>1, <2>2 DEF CallInv
<1>7. CallsInv'
  BY <1>5, <1>6, Others DEF IInv, CallsInv
<1>8. TxnsInv'
  <2>1. TxnInv(l)'
    BY <1>1 DEF IInv, ThreadsInv, TxnInv
  <2>2. QED  BY <1>5, <2>1, Others DEF TxnsInv
<1>9. StoredInv'
  BY <1>2 DEF IInv, StoredInv, IsPrefix
<1>10. RaisedIsAbsent'
  <2>1. ASSUME NEW s \in DOMAIN committed'
        PROVE  \/ committed'[s] \in returned' \cup lost'
               \/ \E u \in Threads : At(u, "return")' /\ committed'[s] = RecordOf(u)'
    <3>1. \A u \in Threads : RecordOf(u)' = RecordOf(u)
      BY DEF RecordOf
    <3>2. CASE s = call[t].sequence
      BY <1>2, <3>1, <3>2 DEF IInv, ThreadsInv
    <3>3. CASE s \in DOMAIN committed
      <4>1. committed'[s] = committed[s]
        BY <1>2, <3>3 DEF IsPrefix
      <4>2. \A u \in Threads : At(u, "return") => At(u, "return")'
        BY DEF IInv, ThreadsInv
      <4>3. QED  BY <3>1, <3>3, <4>1, <4>2 DEF IInv, RaisedIsAbsent
    <3>4. QED  BY <1>2, <3>2, <3>3
  <2>2. QED  BY <2>1 DEF RaisedIsAbsent
<1>11. QED  BY <1>3, <1>4, <1>7, <1>8, <1>9, <1>10 DEF IInv

\* A SELECT outside the lock pins the committed rows, if anything.
LEMMA ReadKeeps ==
  ASSUME IInv, NEW l \in Ledgers, Read(l)
  PROVE  IInv'
<1> USE DEF Read, At
<1>1. /\ TablesInv'
      /\ txn' \in [Ledgers -> TxnStates]
      /\ See(l)' = See(l)
      /\ \A m \in Ledgers \ {l} : txn'[m] = txn[m] /\ view'[m] = view[m]
      /\ txn'[l] = "writing" <=> txn[l] = "writing"
      /\ txn[l] = "writing" => view'[l] = view[l]
      /\ txn'[l] = "reading" => IsPrefix(view'[l], committed)
  BY SelectKeeps
<1>2. ThreadsInv'
  BY <1>1 DEF IInv, ThreadsInv
<1>3. \A m \in Ledgers : See(m)' = See(m)
  BY <1>1 DEF See
<1>4. CallsInv'
  <2>1. ASSUME NEW u \in Threads PROVE CallInv(u)'
    <3>1. LedgerOf[u] \in Ledgers /\ CallInv(u) /\ RecordOf(u)' = RecordOf(u)
      BY LedgerAssumption DEF IInv, CallsInv, RecordOf
    <3>2. See(LedgerOf[u])' = See(LedgerOf[u])
      BY <1>3, <3>1
    <3>3. pc[u] = "commit" => txn'[LedgerOf[u]] = "writing"
                               /\ view'[LedgerOf[u]] = view[LedgerOf[u]]
      BY <1>1, <3>1 DEF CallInv
    <3>4. QED  BY <3>1, <3>2, <3>3 DEF CallInv
  <2>2. QED  BY <2>1 DEF IInv, CallsInv
<1>5. TxnsInv'
  BY <1>1 DEF IInv, TxnsInv, TxnInv
<1>6. StoredInv' /\ RaisedIsAbsent'
  BY DEF IInv, StoredInv, RaisedIsAbsent, RecordOf
<1>7. QED  BY <1>1, <1>2, <1>4, <1>5, <1>6 DEF IInv

\* A restart drops transactions and calls; a row committed by a call that had
\* not returned is accounted for by lost.
LEMMA CrashKeeps ==
  ASSUME IInv, NEW l \in Ledgers, Crash(l)
  PROVE  IInv'
<1> DEFINE mine == {t \in Threads : LedgerOf[t] = l}
<1> USE DEF Crash, At, Inside, Labels
<1>1. /\ txn' = [txn EXCEPT ![l] = "none"] /\ view' = [view EXCEPT ![l] = EmptyTable]
      /\ lock' = [lock EXCEPT ![l] = None]
      /\ pc' = [t \in Threads |-> IF t \in mine THEN "idle" ELSE pc[t]]
      /\ call' = [t \in Threads |-> IF t \in mine THEN NoCall ELSE call[t]]
      /\ lost' = lost \cup {RecordOf(t) : t \in {u \in mine : pc[u] = "return"}}
      /\ committed' = committed /\ returned' = returned
  OBVIOUS
<1>2. TablesInv'
  BY <1>1, EmptyIsTable DEF IInv, TablesInv
<1>3. ThreadsInv'
  BY <1>1, LedgerAssumption DEF IInv, ThreadsInv, TxnStates
<1>4. CallsInv'
  <2>1. ASSUME NEW u \in mine PROVE CallInv(u)'
    <3>1. pc'[u] = "idle" /\ call'[u] = NoCall
      BY <1>1
    <3>2. QED  BY <3>1 DEF CallInv, NoCall, Signable
  <2>2. ASSUME NEW u \in Threads \ mine PROVE CallInv(u)'
    <3>1. pc'[u] = pc[u] /\ call'[u] = call[u] /\ RecordOf(u)' = RecordOf(u)
      BY <1>1 DEF RecordOf
    <3>2. /\ txn'[LedgerOf[u]] = txn[LedgerOf[u]]
          /\ view'[LedgerOf[u]] = view[LedgerOf[u]]
      BY <1>1, LedgerAssumption DEF IInv, ThreadsInv, TablesInv
    <3>3. See(LedgerOf[u])' = See(LedgerOf[u])
      BY <1>1, <3>2 DEF See
    <3>4. CallInv(u)
      BY DEF IInv, CallsInv
    <3>5. QED  BY <1>1, <3>1, <3>2, <3>3, <3>4 DEF CallInv
  <2>3. QED  BY <1>1, <2>1, <2>2 DEF CallsInv
<1>5. TxnsInv'
  <2>1. ASSUME NEW m \in Ledgers PROVE TxnInv(m)'
    <3>1. CASE m = l
      BY <1>1, <3>1 DEF IInv, ThreadsInv, TxnInv
    <3>2. CASE m # l
      <4>1. txn'[m] = txn[m] /\ view'[m] = view[m] /\ TxnInv(m)
        BY <1>1, <3>2 DEF IInv, ThreadsInv, TablesInv, TxnsInv
      <4>2. \A u \in Threads : LedgerOf[u] = m => pc'[u] = pc[u]
        BY <1>1, <3>2
      <4>3. \A k \in Ledgers : txn'[k] = "writing" => txn[k] = "writing"
        BY <1>1 DEF IInv, ThreadsInv
      <4>4. QED  BY <1>1, <4>1, <4>2, <4>3 DEF TxnInv
    <3>3. QED  BY <3>1, <3>2
  <2>2. QED  BY <2>1 DEF TxnsInv
<1>6. \A t \in Threads : pc[t] = "return" =>
        /\ RecordOf(t).sequence \in DOMAIN committed
        /\ committed[RecordOf(t).sequence] = RecordOf(t)
  BY DEF IInv, CallsInv, CallInv, RecordOf, NewRecord
<1>7. StoredInv'
  BY <1>1, <1>6 DEF IInv, StoredInv
<1>8. RaisedIsAbsent'
  <2>1. \A u \in Threads \ mine : pc'[u] = pc[u] /\ RecordOf(u)' = RecordOf(u)
    BY <1>1 DEF RecordOf
  <2>2. \A u \in mine : pc[u] = "return" => RecordOf(u) \in lost'
    BY <1>1
  <2>3. QED  BY <1>1, <2>1, <2>2 DEF IInv, RaisedIsAbsent
<1>9. QED  BY <1>2, <1>3, <1>4, <1>5, <1>7, <1>8 DEF IInv

\* A step that changes nothing keeps the invariant.
LEMMA StutterKeeps ==
  ASSUME IInv, UNCHANGED vars
  PROVE  IInv'
<1> USE DEF vars, At
<1>1. \A l \in Ledgers : See(l)' = See(l)
  BY DEF See
<1>2. \A t \in Threads : RecordOf(t)' = RecordOf(t)
  BY DEF RecordOf
<1>3. TablesInv' /\ ThreadsInv' /\ StoredInv'
  BY DEF IInv, TablesInv, ThreadsInv, StoredInv
<1>4. CallsInv'
  BY <1>1, <1>2, LedgerAssumption DEF IInv, CallsInv, CallInv
<1>5. TxnsInv' /\ RaisedIsAbsent'
  BY <1>2 DEF IInv, TxnsInv, TxnInv, RaisedIsAbsent
<1>6. QED  BY <1>3, <1>4, <1>5 DEF IInv

\* The empty ledger satisfies the invariant.
LEMMA InitIInv == Init => IInv
<1> SUFFICES ASSUME Init PROVE IInv
  OBVIOUS
<1> USE DEF Init, At
<1>1. IsTable(EmptyTable)
  BY EmptyIsTable
<1>2. TablesInv /\ ThreadsInv
  BY <1>1 DEF TablesInv, ThreadsInv, TxnStates, Labels, Inside
<1>3. CallsInv
  <2>1. \A t \in Threads : call[t] = NoCall /\ pc[t] = "idle"
    OBVIOUS
  <2>2. QED  BY <2>1 DEF CallsInv, CallInv, NoCall, Signable
<1>4. TxnsInv /\ StoredInv
  BY DEF TxnsInv, TxnInv, StoredInv
<1>5. RaisedIsAbsent
  <2>1. DOMAIN committed = {}
    BY DEF EmptyTable
  <2>2. QED  BY <2>1 DEF RaisedIsAbsent
<1>6. QED  BY <1>2, <1>3, <1>4, <1>5 DEF IInv

\* Every step keeps the invariant: one fact per action, each proved above.
LEMMA NextIInv == IInv /\ [Next]_vars => IInv'
<1> SUFFICES ASSUME IInv, [Next]_vars PROVE IInv'
  OBVIOUS
<1>1. ASSUME NEW t \in Threads, Step(t) PROVE IInv'
  BY <1>1, AcquireKeeps, GetLastHashKeeps, GetLastSequenceKeeps,
     CanonicalJsonRaisesKeeps, InsertKeeps, InsertViolatesKeeps,
     InsertBusyKeeps, CommitKeeps, ReturnKeeps DEF Step
<1>2. CASE Operate
  BY <1>1, <1>2, RecordKeeps, ReadKeeps DEF Operate
<1>3. CASE Fault
  BY <1>3, SelectFailsKeeps, InsertFailsKeeps, CommitFailsKeeps, CrashKeeps DEF Fault
<1>4. CASE UNCHANGED vars
  BY <1>4, StutterKeeps
<1>5. QED  BY <1>2, <1>3, <1>4 DEF Next

\* The inductive invariant holds in every state of every behaviour.
THEOREM Invariant == Spec => []IInv
<1>1. QED  BY InitIInv, NextIInv, PTL DEF Spec

-----------------------------------------------------------------------------
(***************************************************************************)
(* The properties that the invariant implies.                              *)
(***************************************************************************)

\* A table of the invariant has rows of the right form.
LEMMA TableIsWellFormed ==
  ASSUME NEW table, IsTable(table)
  PROVE  WellFormed(table)
BY DEF IsTable, Numbered, WellFormed

\* Type correctness of the ledger: whatever the connections, failures and
\* restarts, rows are records of decisions under their own sequence.
THEOREM TypeCorrect == Spec => []TypeOK
<1>1. IInv => TypeOK
  <2> SUFFICES ASSUME IInv PROVE TypeOK
    OBVIOUS
  <2>1. WellFormed(committed) /\ \A l \in Ledgers : WellFormed(view[l])
    BY TableIsWellFormed DEF IInv, TablesInv
  <2>2. DOMAIN view = Ledgers
    BY DEF IInv, TablesInv
  <2>3. QED
    BY <2>1, <2>2 DEF IInv, ThreadsInv, CallsInv, CallInv, TypeOK
<1>2. QED  BY <1>1, Invariant, PTL

\* What record returned stays in the table, unchanged, for any number of
\* connections that compete, fail and restart.
THEOREM ReturnedStaysStored == Spec => []ReturnedIsStored
<1>1. IInv => ReturnedIsStored
  BY DEF IInv, StoredInv, ReturnedIsStored
<1>2. QED  BY <1>1, Invariant, PTL

\* A call of record that raises leaves no row behind, now or later.
THEOREM RaisedStaysAbsent == Spec => []RaisedIsAbsent
<1>1. IInv => RaisedIsAbsent
  BY DEF IInv
<1>2. QED  BY <1>1, Invariant, PTL

\* The sequence numbers in the table are 1, 2, ... without a gap.
THEOREM SequencesAreContiguous == Spec => []ContiguousSequences
<1>1. ASSUME NEW n \in Nat, DOMAIN committed = 1 .. n
      PROVE  ContiguousSequences
  BY <1>1, FS_Interval DEF ContiguousSequences
<1>2. IInv => \E n \in Nat : DOMAIN committed = 1 .. n
  BY DEF IInv, TablesInv, IsTable, Numbered
<1>3. IInv => ContiguousSequences
  BY <1>1, <1>2
<1>4. QED  BY <1>3, Invariant, PTL

\* Every row links to GENESIS_HASH or to an earlier committed row.
THEOREM RowsLinkBack == Spec => []LinksPointBack
<1>1. IInv => LinksPointBack
  BY DEF IInv, TablesInv, IsTable, Numbered, PointsBack, LinksPointBack
<1>2. QED  BY <1>1, Invariant, PTL

\* Only a commit changes the committed rows, and it adds one.
LEMMA CommittedGrows ==
  ASSUME IInv, [Next]_vars
  PROVE  IsPrefix(committed, committed')
<1>1. ASSUME NEW t \in Threads, Commit(t) PROVE IsPrefix(committed, committed')
  BY <1>1, CommitAddsRow
<1>2. CASE \E t \in Threads : Commit(t)
  BY <1>1, <1>2
<1>3. CASE committed' = committed
  BY <1>3 DEF IsPrefix
<1>4. (\E t \in Threads : Commit(t)) \/ committed' = committed
  BY DEF Next, Operate, Fault, Step, vars, Record, Acquire, GetLastHash,
         GetLastSequence, CanonicalJsonRaises, Insert, InsertViolates,
         InsertBusy, Return, Read, SelectFails, InsertFails, CommitFails, Crash
<1>5. QED  BY <1>2, <1>3, <1>4

\* A committed row is never changed or dropped.
THEOREM CommittedOnlyGrows == Spec => AppendOnly
<1>1. IInv /\ [Next]_vars =>
        \A s \in DOMAIN committed :
          s \in DOMAIN committed' /\ committed'[s] = committed[s]
  BY CommittedGrows DEF IsPrefix
<1>2. QED  BY <1>1, Invariant, PTL DEF Spec, AppendOnly

-----------------------------------------------------------------------------
(***************************************************************************)
(* One ledger object on its database: the chain verifies.                  *)
(***************************************************************************)

\* Rows 1 to n, each linked to the one before it and signed with key.
Chained(table, n, key) ==
  /\ table = [s \in 1 .. n |-> table[s]]
  /\ \A s \in 1 .. n :
       /\ table[s].previous_hash =
            IF s = 1 THEN GENESIS_HASH ELSE table[s - 1].record_hash
       /\ table[s] = NewRecord(table[s].decision, table[s].previous_hash, s, key)

\* verify_chain accepts such a table, when every decision survives JSON.
LEMMA ChainedVerifies ==
  ASSUME Rekeyed = {}, NEW table, NEW n \in Nat, NEW key, Chained(table, n, key)
  PROVE  VerifyChain(table, key)
<1> SUFFICES ASSUME NEW s \in 1 .. n PROVE RowVerifies(table, s, key)
  BY DEF Chained, VerifyChain
<1> DEFINE before == Before(table, s)
<1>1. DOMAIN table = 1 .. n
  BY DEF Chained
<1>2. before = [r \in 1 .. s - 1 |-> table[r]]
  <2>1. {q \in 1 .. n : q < s} = 1 .. s - 1
    OBVIOUS
  <2>2. QED  BY <1>1, <2>1 DEF Before
<1>3. LastHash(before) = IF s = 1 THEN GENESIS_HASH ELSE table[s - 1].record_hash
  <2>1. before = [r \in 1 .. s - 1 |-> before[r]]
    BY <1>2
  <2>2. /\ s - 1 = 0 => LastHash(before) = GENESIS_HASH
        /\ s - 1 # 0 => LastHash(before) = before[s - 1].record_hash
    <3> DEFINE m == s - 1
    <3>1. m \in Nat /\ before = [r \in 1 .. m |-> before[r]]
      BY <2>1
    <3> HIDE DEF m, before
    <3>2. /\ m = 0 => LastHash(before) = GENESIS_HASH
          /\ m # 0 => LastHash(before) = before[m].record_hash
      BY <3>1, NumberedTable
    <3>3. QED  BY <3>2 DEF m
  <2>3. s # 1 => before[s - 1] = table[s - 1]
    BY <1>2
  <2>4. QED  BY <2>2, <2>3
<1>4. table[s].previous_hash = LastHash(before)
  BY <1>3 DEF Chained
<1>5. /\ table[s].sequence = s
      /\ table[s].record_hash =
           ComputeHash(Signable(table[s].decision, table[s].previous_hash, s))
      /\ table[s].signature =
           Sign(key, Signable(table[s].decision, table[s].previous_hash, s))
  <2> DEFINE d == table[s].decision
             h == table[s].previous_hash
  <2>1. table[s] = NewRecord(d, h, s, key)
    BY DEF Chained
  <2> HIDE DEF d, h
  <2>2. /\ table[s].sequence = s
        /\ table[s].record_hash = ComputeHash(Signable(d, h, s))
        /\ table[s].signature = Sign(key, Signable(d, h, s))
    BY <2>1 DEF NewRecord
  <2>3. QED  BY <2>2 DEF d, h
<1>6. Loaded(table[s].decision) = table[s].decision
  BY DEF Loaded
<1>7. QED  BY <1>4, <1>5, <1>6 DEF RowVerifies

OneObject == \A l, m \in Ledgers : l = m

\* A call that has read the last hash, or the last sequence, still has the
\* right one: nobody else can commit before it does.
ChainInv ==
  /\ \E n \in Nat : \A l \in Ledgers : Chained(committed, n, KeyOf[l])
  /\ \A l \in Ledgers : txn[l] \in {"none", "writing"}
  /\ \A t \in Threads :
       /\ pc[t] \in {"sequence", "append", "commit"} =>
            call[t].previous_hash = LastHash(committed)
       /\ pc[t] \in {"append", "commit"} =>
            call[t].sequence = LastSequence(committed) + 1
       /\ pc[t] = "commit" =>
            \A s \in DOMAIN committed : committed[s].decision # call[t].decision

\* A chained table stays chained when the next row is made of its last hash
\* and its last sequence plus one.
LEMMA ChainedWithRow ==
  ASSUME NEW table, NEW n \in Nat, NEW key, Chained(table, n, key),
         NEW d, NEW longer,
         longer = WithRow(table, NewRecord(d, LastHash(table), n + 1, key))
  PROVE  Chained(longer, n + 1, key)
<1> DEFINE row == NewRecord(d, LastHash(table), n + 1, key)
<1>1. DOMAIN table = 1 .. n /\ table = [s \in 1 .. n |-> table[s]]
  BY DEF Chained
<1>2. /\ row.sequence = n + 1 /\ row.decision = d
      /\ row.previous_hash = LastHash(table)
  BY DEF NewRecord
<1>3. longer = [s \in 1 .. n + 1 |-> IF s = n + 1 THEN row ELSE table[s]]
  <2>1. DOMAIN table \cup {n + 1} = 1 .. n + 1
    BY <1>1
  <2>2. QED  BY <1>2, <2>1 DEF WithRow
<1>4. longer[n + 1] = row /\ \A s \in 1 .. n : longer[s] = table[s]
  BY <1>3
<1>5. LastHash(table) = IF n + 1 = 1 THEN GENESIS_HASH ELSE table[n].record_hash
  BY <1>1, NumberedTable
<1>6. ASSUME NEW s \in 1 .. n + 1
      PROVE  /\ longer[s].previous_hash =
                  IF s = 1 THEN GENESIS_HASH ELSE longer[s - 1].record_hash
             /\ longer[s] = NewRecord(longer[s].decision, longer[s].previous_hash, s, key)
  <2>1. CASE s = n + 1
    <3>1. longer[s] = row
      BY <1>4, <2>1
    <3>2. n # 0 => longer[n] = table[n]
      BY <1>4
    <3>3. QED  BY <1>2, <1>5, <2>1, <3>1, <3>2
  <2>2. CASE s \in 1 .. n
    <3>1. longer[s] = table[s]
      BY <1>4, <2>2
    <3>2. s # 1 => longer[s - 1] = table[s - 1]
      BY <1>4, <2>2
    <3>3. QED  BY <2>2, <3>1, <3>2 DEF Chained
  <2>3. QED  BY <2>1, <2>2
<1>7. QED  BY <1>3, <1>6 DEF Chained

\* With one ledger object, a thread inside record sees the committed rows.
LEMMA OneObjectSees ==
  ASSUME OneObject, IInv, ChainInv, NEW t \in Threads, pc[t] \in Inside, ~ At(t, "commit")
  PROVE  CanWrite(LedgerOf[t]) /\ See(LedgerOf[t]) = committed
<1>1. CanWrite(LedgerOf[t])
  BY LedgerAssumption DEF OneObject, ChainInv, CanWrite
<1>2. QED  BY <1>1, SeeCommitted

\* With one ledger object, one thread at most is inside record.
LEMMA OneObjectAlone ==
  ASSUME OneObject, IInv, NEW t \in Threads, pc[t] \in Inside
  PROVE  \A u \in Threads : pc[u] \in Inside => u = t
BY LedgerAssumption, OneInside DEF OneObject, IInv

\* With one ledger object, a commit adds the next row of the chain.
LEMMA CommitChains ==
  ASSUME OneObject, IInv, ChainInv, NEW t \in Threads, Commit(t)
  PROVE  ChainInv'
<1> DEFINE l == LedgerOf[t]
           d == call[t].decision
<1> USE DEF Commit, At, Goto, Inside, Labels
<1>1. l \in Ledgers /\ \A m \in Ledgers : m = l
  BY LedgerAssumption DEF OneObject
<1>2. PICK n \in Nat : Chained(committed, n, KeyOf[l])
  BY <1>1 DEF ChainInv
<1>3. LastSequence(committed) = n
  BY <1>2, NumberedTable DEF Chained
<1>4. committed' = WithRow(committed, NewRecord(d, LastHash(committed), n + 1, KeyOf[l]))
  <2>1. committed' = WithRow(committed, RecordOf(t))
    BY CommitAddsRow
  <2>2. call[t].previous_hash = LastHash(committed) /\ call[t].sequence = n + 1
    BY <1>3 DEF ChainInv
  <2>3. QED  BY <2>1, <2>2 DEF RecordOf
<1>5. Chained(committed', n + 1, KeyOf[l])
  <2> HIDE DEF d, l
  <2>1. QED  BY <1>2, <1>4, ChainedWithRow
<1>6. \A m \in Ledgers : Chained(committed', n + 1, KeyOf[m])
  BY <1>1, <1>5
<1>7. \A u \in Threads : pc'[u] \notin {"sequence", "append", "commit"}
  BY OneObjectAlone DEF IInv, ThreadsInv
<1>8. \A m \in Ledgers : txn'[m] \in {"none", "writing"}
  BY <1>1 DEF IInv, ThreadsInv
<1>9. QED  BY <1>6, <1>7, <1>8 DEF ChainInv

\* Every other step leaves the rows as they are, and the calls that have read
\* them; no connection is ever busy.
LEMMA StepChains ==
  ASSUME OneObject, IInv, ChainInv, [Next]_vars
  PROVE  ChainInv'
<1> USE DEF At, Goto, Inside, Labels
<1>1. /\ pc \in [Threads -> Labels] /\ DOMAIN call = Threads
      /\ txn \in [Ledgers -> TxnStates]
      /\ \A l \in Ledgers : txn[l] \in {"none", "writing"}
      /\ \A t \in Threads : LedgerOf[t] \in Ledgers
  BY LedgerAssumption DEF IInv, ThreadsInv, CallsInv, ChainInv
<1>2. ASSUME committed' = committed,
             \A l \in Ledgers : txn'[l] \in {"none", "writing"},
             \A u \in Threads : pc'[u] \in {"sequence", "append", "commit"} =>
               \/ pc'[u] = pc[u] /\ call'[u] = call[u]
               \/ /\ pc'[u] = "sequence"
                  /\ call'[u].previous_hash = LastHash(committed)
               \/ /\ pc'[u] = "append" /\ pc[u] = "sequence"
                  /\ call'[u].previous_hash = call[u].previous_hash
                  /\ call'[u].sequence = LastSequence(committed) + 1
               \/ /\ pc'[u] = "commit" /\ pc[u] = "append" /\ call'[u] = call[u]
                  /\ \A s \in DOMAIN committed : committed[s].decision # call[u].decision
      PROVE  ChainInv'
  BY <1>2 DEF ChainInv
<1>3. ASSUME NEW t \in Threads, NEW d \in Decisions, Record(t, d) PROVE ChainInv'
  BY <1>1, <1>2, <1>3 DEF Record
<1>4. ASSUME NEW t \in Threads, Acquire(t) PROVE ChainInv'
  BY <1>1, <1>2, <1>4 DEF Acquire
<1>5. ASSUME NEW t \in Threads, GetLastHash(t) PROVE ChainInv'
  <2>1. See(LedgerOf[t]) = committed
    BY <1>5, OneObjectSees DEF GetLastHash
  <2>2. /\ pc' = [pc EXCEPT ![t] = "sequence"]
        /\ call' = [call EXCEPT ![t].previous_hash = LastHash(committed)]
        /\ committed' = committed /\ txn' = txn
    BY <1>1, <1>5, <2>1 DEF GetLastHash, Select
  <2>3. call'[t].previous_hash = LastHash(committed)
    <3>1. "previous_hash" \in DOMAIN call[t]
      BY DEF IInv, CallsInv, CallInv, Signable
    <3>2. QED  BY <1>1, <2>2, <3>1
  <2>4. QED  BY <1>1, <1>2, <2>2, <2>3
<1>6. ASSUME NEW t \in Threads, GetLastSequence(t) PROVE ChainInv'
  <2>1. See(LedgerOf[t]) = committed
    BY <1>6, OneObjectSees DEF GetLastSequence
  <2>2. /\ pc[t] = "sequence" /\ pc' = [pc EXCEPT ![t] = "append"]
        /\ call' = [call EXCEPT ![t].sequence = LastSequence(committed) + 1]
        /\ committed' = committed /\ txn' = txn
    BY <1>1, <1>6, <2>1 DEF GetLastSequence, Select
  <2>3. /\ call'[t].sequence = LastSequence(committed) + 1
        /\ call'[t].previous_hash = call[t].previous_hash
    <3>1. call[t] = Signable(call[t].decision, call[t].previous_hash, call[t].sequence)
      BY DEF IInv, CallsInv, CallInv
    <3>2. call'[t] = [call[t] EXCEPT !.sequence = LastSequence(committed) + 1]
      BY <1>1, <2>2
    <3>3. QED  BY <3>1, <3>2 DEF Signable
  <2>4. QED  BY <1>1, <1>2, <2>2, <2>3
<1>7. ASSUME NEW t \in Threads, Insert(t) PROVE ChainInv'
  <2>1. See(LedgerOf[t]) = committed
    BY <1>7, OneObjectSees DEF Insert, Insertable
  <2>2. \A s \in DOMAIN committed : committed[s].decision # call[t].decision
    BY <1>7, <2>1 DEF Insert, Violates, RecordOf, NewRecord
  <2>3. QED  BY <1>1, <1>2, <1>7, <2>2 DEF Insert, Insertable
<1>8. ASSUME NEW t \in Threads, InsertBusy(t) PROVE ChainInv'
  BY <1>8, OneObjectSees DEF InsertBusy, Insertable
<1>9. ASSUME NEW t \in Threads, Leave(t), UNCHANGED committed,
             \/ UNCHANGED txn
             \/ txn' = [txn EXCEPT ![LedgerOf[t]] = "none"]
             \/ txn' = [txn EXCEPT ![LedgerOf[t]] = "writing"]
      PROVE  ChainInv'
  BY <1>1, <1>2, <1>9 DEF Leave
<1>10. ASSUME NEW t \in Threads,
              \/ CanonicalJsonRaises(t) \/ InsertViolates(t) \/ Return(t)
              \/ SelectFails(t) \/ InsertFails(t) \/ CommitFails(t)
       PROVE  ChainInv'
  BY <1>9, <1>10 DEF CanonicalJsonRaises, InsertViolates, Return, SelectFails,
                     InsertFails, CommitFails
<1>11. ASSUME NEW l \in Ledgers, Read(l) PROVE ChainInv'
  BY <1>1, <1>11 DEF Read
<1>12. ASSUME NEW l \in Ledgers, Crash(l) PROVE ChainInv'
  BY <1>1, <1>2, <1>12 DEF Crash
<1>13. CASE UNCHANGED vars
  BY <1>1, <1>2, <1>13 DEF vars
<1>14. QED
  BY <1>3, <1>4, <1>5, <1>6, <1>7, <1>8, <1>10, <1>11, <1>12, <1>13, CommitChains
     DEF Next, Operate, Fault, Step

\* The empty ledger is chained.
LEMMA InitChains == Init => ChainInv
<1> SUFFICES ASSUME Init PROVE ChainInv
  OBVIOUS
<1>1. \A key : Chained(EmptyTable, 0, key)
  BY DEF Chained, EmptyTable
<1>2. QED  BY <1>1 DEF Init, ChainInv

\* The chain of records verifies at every moment, through one ledger object:
\* with any number of threads, and after any failure or restart.
THEOREM ChainStaysVerified ==
  ASSUME OneObject, Rekeyed = {}
  PROVE  Spec => []ChainVerifies
<1>1. ASSUME IInv, ChainInv, NEW l \in Ledgers
      PROVE  VerifyChain(See(l), KeyOf[l])
  <2> DEFINE key == KeyOf[l]
  <2>1. PICK n \in Nat : Chained(committed, n, key)
    BY <1>1 DEF ChainInv
  <2>2. VerifyChain(committed, key)
    <3> HIDE DEF key
    <3>1. QED  BY <2>1, ChainedVerifies
  <2>3. ASSUME NEW t \in Threads, LedgerOf[t] = l, At(t, "commit")
        PROVE  VerifyChain(view[l], key)
    <3>1. view[l] = WithRow(committed, RecordOf(t))
      BY <1>1, <2>3 DEF IInv, CallsInv, CallInv
    <3>2. LastSequence(committed) = n
      BY <2>1, NumberedTable DEF Chained
    <3>3. call[t].previous_hash = LastHash(committed) /\ call[t].sequence = n + 1
      BY <1>1, <2>3, <3>2 DEF ChainInv, At
    <3>4. view[l] = WithRow(committed,
                      NewRecord(call[t].decision, LastHash(committed), n + 1, key))
      BY <2>3, <3>1, <3>3 DEF RecordOf
    <3>5. Chained(view[l], n + 1, key)
      <4> DEFINE d == call[t].decision
                 longer == view[l]
      <4> HIDE DEF key, d, longer
      <4>1. longer = WithRow(committed, NewRecord(d, LastHash(committed), n + 1, key))
        BY <3>4 DEF d, longer
      <4>2. Chained(longer, n + 1, key)
        BY <2>1, <4>1, ChainedWithRow
      <4>3. QED  BY <4>2 DEF longer
    <3>6. QED
      <4> DEFINE m == n + 1
      <4>1. m \in Nat /\ Chained(view[l], m, key)
        BY <3>5
      <4> HIDE DEF key, m
      <4>2. QED  BY <4>1, ChainedVerifies
  <2>4. CASE txn[l] = "writing"
    BY <1>1, <2>2, <2>3, <2>4 DEF IInv, TxnsInv, TxnInv, See
  <2>5. CASE txn[l] # "writing"
    BY <1>1, <2>2, <2>5 DEF ChainInv, See
  <2>6. QED  BY <2>4, <2>5
<1>2. IInv /\ ChainInv => ChainVerifies
  BY <1>1 DEF ChainVerifies
<1>3. IInv /\ ChainInv /\ [Next]_vars => ChainInv'
  BY StepChains
<1>4. QED  BY <1>2, <1>3, InitChains, Invariant, PTL DEF Spec

-----------------------------------------------------------------------------
(***************************************************************************)
(* One ledger object implements the audit log.                             *)
(***************************************************************************)

\* A chained table is a sequence, and adding the next row is Append.
LEMMA ChainedIsSeq ==
  ASSUME NEW table, NEW n \in Nat, table = [s \in 1 .. n |-> table[s]]
  PROVE  /\ Len(table) = n
         /\ table = << >> <=> n = 0
         /\ \A row : Append(table, row) =
                       [s \in 1 .. n + 1 |-> IF s = n + 1 THEN row ELSE table[s]]
<1> DEFINE S == {table[s] : s \in 1 .. n}
<1>1. table \in [1 .. n -> S]
  OBVIOUS
<1>2. table \in Seq(S) /\ Len(table) = n
  BY <1>1, SeqDef, LenProperties
<1>3. table = << >> <=> n = 0
  BY <1>2, EmptySeq
<1>4. ASSUME NEW row
      PROVE  Append(table, row) =
               [s \in 1 .. n + 1 |-> IF s = n + 1 THEN row ELSE table[s]]
  <2> DEFINE U == S \cup {row}
             longer == Append(table, row)
  <2>1. table \in Seq(U) /\ row \in U
    BY <1>2, SeqMonotonic
  <2>2. /\ longer \in Seq(U) /\ Len(longer) = n + 1
        /\ \A i \in 1 .. n : longer[i] = table[i]
        /\ longer[n + 1] = row
    BY <1>2, <2>1, AppendProperties
  <2>3. longer \in [1 .. n + 1 -> U]
    BY <2>2, LenProperties
  <2>4. QED  BY <2>2, <2>3
<1>5. QED  BY <1>2, <1>3, <1>4

\* The commit of a row is the audit log's Extend.
LEMMA CommitExtends ==
  ASSUME OneObject, IInv, ChainInv, NEW t \in Threads, Commit(t)
  PROVE  Abstract!Extend(call[t].decision, KeyOf[LedgerOf[t]])
<1> DEFINE key == KeyOf[LedgerOf[t]]
           d   == call[t].decision
<1>1. LedgerOf[t] \in Ledgers
  BY LedgerAssumption
<1>2. PICK n \in Nat : Chained(committed, n, key)
  BY <1>1 DEF ChainInv
<1>3. committed = [s \in 1 .. n |-> committed[s]]
  BY <1>2 DEF Chained
<1>4. /\ Len(committed) = n
      /\ committed = << >> <=> n = 0
      /\ \A row : Append(committed, row) =
                    [s \in 1 .. n + 1 |-> IF s = n + 1 THEN row ELSE committed[s]]
  BY <1>3, ChainedIsSeq
<1>5. /\ DOMAIN committed = 1 .. n
      /\ LastSequence(committed) = n
      /\ n = 0 => LastHash(committed) = GENESIS_HASH
      /\ n # 0 => LastHash(committed) = committed[n].record_hash
  BY <1>3, NumberedTable
<1>6. Abstract!Tip = LastHash(committed)
  BY <1>4, <1>5 DEF Abstract!Tip
<1>7. RecordOf(t) = NewRecord(d, Abstract!Tip, n + 1, key)
  <2>1. call[t].previous_hash = LastHash(committed) /\ call[t].sequence = n + 1
    BY <1>5 DEF Commit, At, ChainInv
  <2>2. QED  BY <1>6, <2>1 DEF RecordOf
<1>8. committed' = Append(committed, RecordOf(t))
  <2>1. RecordOf(t).sequence = n + 1
    BY <1>7 DEF NewRecord
  <2>2. DOMAIN committed \cup {n + 1} = 1 .. n + 1
    BY <1>5
  <2>3. committed' = [s \in 1 .. n + 1 |-> IF s = n + 1 THEN RecordOf(t) ELSE committed[s]]
    BY <2>1, <2>2, CommitAddsRow DEF WithRow
  <2>4. QED  BY <1>4, <2>3
<1>9. \A i \in 1 .. Len(committed) : committed[i].decision # d
  BY <1>4, <1>5 DEF Commit, At, ChainInv
<1>10. UNCHANGED returned
  BY DEF Commit
<1>11. committed' =
         Append(committed, Abstract!NewRecord(d, Abstract!Tip, Len(committed) + 1, key))
  BY <1>4, <1>7, <1>8
     DEF NewRecord, Signable, ComputeHash, Sign, Abstract!NewRecord,
         Abstract!Signable, Abstract!ComputeHash, Abstract!Sign
<1>12. QED  BY <1>9, <1>10, <1>11 DEF Abstract!Extend

\* The return of a record is the audit log's Return.
LEMMA ReturnReturns ==
  ASSUME IInv, NEW t \in Threads, Return(t)
  PROVE  \E i \in 1 .. Len(committed) : Abstract!Return(i)
<1>1. PICK n \in Nat : Numbered(committed, n)
  BY DEF IInv, TablesInv, IsTable
<1>2. DOMAIN committed = 1 .. n /\ Len(committed) = n
  BY <1>1, ChainedIsSeq DEF Numbered
<1>3. /\ call[t].sequence \in DOMAIN committed
      /\ committed[call[t].sequence] = RecordOf(t)
  BY DEF Return, At, IInv, CallsInv, CallInv
<1>4. Abstract!Return(call[t].sequence)
  BY <1>3 DEF Return, Abstract!Return
<1>5. QED  BY <1>2, <1>3, <1>4

\* Through one ledger object, whatever its threads do, fail at or die in, the
\* table goes through the states of an atomic, append-only, chained log.
THEOREM ImplementsAuditLog ==
  ASSUME OneObject
  PROVE  Spec => RefinesAuditLog
<1>1. Init => Abstract!Init
  BY DEF Init, Abstract!Init, EmptyTable
<1>2. ASSUME IInv, ChainInv, [Next]_vars
      PROVE  [Abstract!Next]_(Abstract!vars)
  <2>1. ASSUME NEW t \in Threads, Commit(t) PROVE Abstract!Next
    <3>1. call[t].decision \in Decisions /\ KeyOf[LedgerOf[t]] \in Keys
      BY <1>2, <2>1, LedgerAssumption DEF Commit, At, IInv, CallsInv, CallInv
    <3>2. QED  BY <1>2, <2>1, <3>1, CommitExtends DEF Abstract!Next
  <2>2. ASSUME NEW t \in Threads, Return(t) PROVE Abstract!Next
    BY <1>2, <2>2, ReturnReturns DEF Abstract!Next
  <2>3. \/ \E t \in Threads : Commit(t) \/ Return(t)
        \/ UNCHANGED <<committed, returned>>
    BY <1>2 DEF Next, Operate, Fault, Step, vars, Record, Acquire, GetLastHash,
         GetLastSequence, CanonicalJsonRaises, Insert, InsertViolates,
         InsertBusy, Read, SelectFails, InsertFails, CommitFails, Crash
  <2>4. QED  BY <2>1, <2>2, <2>3 DEF Abstract!vars
<1>3. IInv /\ ChainInv /\ [Next]_vars => ChainInv'
  BY StepChains
<1>4. QED
  BY <1>1, <1>2, <1>3, InitChains, Invariant, PTL
     DEF Spec, RefinesAuditLog, Abstract!Spec

=============================================================================
