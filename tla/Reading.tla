------------------------------- MODULE Reading -------------------------------
(***************************************************************************)
(* query (ledger.py), and the audit and export commands (cli.py), over a   *)
(* database in which a gate records.                                       *)
(*                                                                         *)
(* Timestamps are stored and compared as isoformat() texts: two of them    *)
(* compare by their clock reading, then by their offset, where "+00:00" is *)
(* least and "-" comes after "+".  Decisions carry UTC timestamps, taken   *)
(* before record gets the lock, so they need not be in sequence order.     *)
(***************************************************************************)
EXTENDS Database

CONSTANTS
  Queries,       \* a filter for each of agent, tool, verdict, and the limit
  None,
  Absent, Empty  \* a file that is not there, one that has nothing in it

VARIABLES
  query,       \* what this behavior's readers ask
  pc,          \* where export stands
  result,      \* what query gave it
  file         \* the file that export writes

vars == <<table, query, pc, result, file>>

\* An offset of 0 is UTC.
Time(instant, offset) == [instant |-> instant, offset |-> offset]

-----------------------------------------------------------------------------

Clock(time) == time.instant + time.offset

OffsetRank(time) == IF time.offset = 0 THEN 0 ELSE IF time.offset > 0 THEN 1 ELSE 2

\* isoformat() texts as SQLite compares them.
TextAtMost(s, t) ==
  \/ Clock(s) < Clock(t)
  \/ Clock(s) = Clock(t) /\ OffsetRank(s) <= OffsetRank(t)

\* An empty filter is none.
Given(filter) == filter \notin {None, ""}

\* Mutation: both ends of a time range are left out.
MatchesInside(d, q) ==
  /\ Given(q.agent) => d.agent = q.agent
  /\ Given(q.tool) => d.tool = q.tool
  /\ Given(q.verdict) => d.verdict = q.verdict
  /\ q.since # None => ~ TextAtMost(d.timestamp, q.since)
  /\ q.until # None => ~ TextAtMost(q.until, d.timestamp)

\* The WHERE clause.
Matches(d, q) ==
  /\ Given(q.agent) => d.agent = q.agent
  /\ Given(q.tool) => d.tool = q.tool
  /\ Given(q.verdict) => d.verdict = q.verdict
  /\ q.since # None => TextAtMost(q.since, d.timestamp)
  /\ q.until # None => TextAtMost(d.timestamp, q.until)

\* LIMIT, which SQLite ignores when it is negative.
Limited(s, limit) == IF limit < 0 \/ limit > Len(s) THEN s ELSE SubSeq(s, 1, limit)

Selected(q) ==
  [s \in {r \in DOMAIN table : Matches(table[r].decision, q)} |-> table[s]]

\* Mutation: ORDER BY sequence DESC.
QueryLatest(q) == Limited(Reverse(Ordered(Selected(q))), q.limit)

\* ORDER BY sequence ASC.
Query(q) == Limited(Ordered(Selected(q)), q.limit)

-----------------------------------------------------------------------------

Init ==
  /\ table = EmptyTable
  /\ query \in Queries
  /\ pc = "start"
  /\ result = None
  /\ file = Absent

Record(d) ==
  /\ Store(d)
  /\ UNCHANGED <<query, pc, result, file>>

\* audit, or the first half of export.
Fetch ==
  /\ pc = "start"
  /\ result' = Query(query)
  /\ pc' \in {"start", "write"}
  /\ UNCHANGED <<table, query, file>>

\* write_text opens the file, and whatever it held is gone.
OpenFile ==
  /\ pc = "write"
  /\ file' = Empty
  /\ pc' = "opened"
  /\ UNCHANGED <<table, query, result>>

WriteFile ==
  /\ pc = "opened"
  /\ file' = [record_count |-> Len(result), records |-> result]
  /\ pc' = "start"
  /\ UNCHANGED <<table, query, result>>

\* export ends without having written: an I/O error, or the process stops.
WriteFails ==
  /\ pc \in {"write", "opened"}
  /\ pc' = "start"
  /\ UNCHANGED <<table, query, result, file>>

Next ==
  \/ \E d \in Decisions : Record(d)
  \/ Fetch
  \/ OpenFile
  \/ WriteFile
  \/ WriteFails

Spec == Init /\ [][Next]_vars

-----------------------------------------------------------------------------
(***************************************************************************)
(* Properties.                                                             *)
(***************************************************************************)

\* What a query asks for, by the instants that its times denote.
Asks(d, q) ==
  /\ q.agent \in {None, "", d.agent}
  /\ q.tool \in {None, "", d.tool}
  /\ q.verdict \in {None, "", d.verdict}
  /\ q.since # None => d.timestamp.instant >= q.since.instant
  /\ q.until # None => d.timestamp.instant <= q.until.instant

\* A result has the records that the query asks for, oldest first, and leaves
\* out only later ones, and these only when it has reached its limit:
\* "records can be searched by agent, tool, verdict, time range" (ledger.py).
SelectsWhatIsAsked ==
  LET asked    == {r \in Rows : Asks(r.decision, query)}
      answered == ToSet(result')
  IN  /\ answered \subseteq asked
      /\ \A i, j \in DOMAIN result' : i < j => result'[i].sequence < result'[j].sequence
      /\ \A r \in asked \ answered :
           /\ Len(result') = query.limit
           /\ \A a \in answered : a.sequence < r.sequence

ResultIsSelection == [][result' # result => SelectsWhatIsAsked]_vars

\* An export is, when it is whole, a beginning of what the same query gives
\* at any later time, however the table has grown between its query and
\* its file (cli.py, export; ledger.py, "append-only").
ExportStaysPrefix ==
  file \notin {Absent, Empty} =>
    /\ IsPrefix(file.records, Query(query))
    /\ file.record_count = Len(file.records)

=============================================================================
