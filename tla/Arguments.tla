------------------------------ MODULE Arguments ------------------------------
(***************************************************************************)
(* What happens to the arguments of a call on their way through the gate   *)
(* (gate.py, ledger.py, receipt.py, wrapper.py).                           *)
(*                                                                         *)
(* Requests are frozen, the dictionaries in them are not: the engine, the  *)
(* signature, the row, the tool and the receipt each read the live objects *)
(* when their turn comes.  A request has a top-level dictionary, the       *)
(* caller's own or the kwargs that Python makes for a GovernedTool, and a  *)
(* nested object.  Redaction copies the top level only.                    *)
(*                                                                         *)
(* A caller waits for its own call of check; other threads and tools do    *)
(* not.  So an object that only one caller knows is left alone while its   *)
(* call is inside check, and changes at will before and after, also before *)
(* the receipt is saved; a shared object changes at any moment.            *)
(***************************************************************************)

CONSTANTS
  Calls, ToolCalls,  \* calls of check, and those made by GovernedTool
  Strict, Redacting, \* calls through strict, through redacting gates
  Objects,           \* the mutable objects of callers and tools
  TopOf, NestedOf,   \* the objects of a call's arguments
  Shared,            \* the objects that another thread or call may change
  Mutating,          \* calls whose tool changes its nested argument
  Values,            \* what an object may hold
  Heaps,             \* what the objects may hold at first
  None

\* A dictionary whose sensitive entry has REDACTED_VALUE, and the other
\* entries of the one it is a copy of.
Redacted(dictionary) == <<"redacted", dictionary>>

ASSUME ArgumentsAssumption ==
  /\ ToolCalls \subseteq Calls /\ Mutating \subseteq ToolCalls
  /\ Shared \subseteq Objects
  /\ TopOf \in [Calls -> Objects \ {NestedOf[c] : c \in Calls}]
  /\ NestedOf \in [Calls -> Objects]
  /\ \A c \in Calls : \A d \in Calls \ {c} :
       /\ TopOf[c] = TopOf[d] => TopOf[c] \in Shared
       /\ NestedOf[c] = NestedOf[d] => NestedOf[c] \in Shared
  /\ \A c \in ToolCalls : TopOf[c] \notin Shared
  /\ Heaps \subseteq [Objects -> Values]
  /\ \A v \in Values : None # Redacted(v)

VARIABLES
  heap,       \* what each object holds
  pc,         \* where a call stands
  copy,       \* the redacted copy of the top level, None where there is none
  verdict,    \* of a call
  evaluated,  \* what the policy engine read
  signed,     \* what canonical_json read: the content of hash and signature
  stored,     \* what json.dumps read: the content of the row
  received,   \* what the tool was called with
  saved       \* what the file of a saved receipt says

reads == <<evaluated, signed, stored, received, saved>>
vars == <<heap, pc, copy, verdict, reads>>

Labels == {"start", "redact", "sign", "store", "run", "returned", "ended"}

\* The arguments of the request.
Given(c) == [top |-> heap[TopOf[c]], nested |-> heap[NestedOf[c]]]

\* to_dict: the arguments of the decision, as they are now.
ToDict(c) ==
  [Given(c) EXCEPT !.top = IF copy[c] = None THEN @ ELSE copy[c]]

\* The kwargs of a GovernedTool, which nobody else has.
Private == {TopOf[c] : c \in ToolCalls}

Uses(c, object) == object \in {TopOf[c], NestedOf[c]}

\* The caller of check waits for it.
Inside(c) == pc[c] \in {"redact", "sign", "store", "run"}

-----------------------------------------------------------------------------

Init ==
  /\ heap \in Heaps
  /\ pc = [c \in Calls |-> "start"]
  /\ copy = [c \in Calls |-> None]
  /\ verdict = [c \in Calls |-> None]
  /\ evaluated = [c \in Calls |-> None]
  /\ signed = [c \in Calls |-> None]
  /\ stored = [c \in Calls |-> None]
  /\ received = [c \in Calls |-> None]
  /\ saved = [c \in Calls |-> None]

At(c, label) == pc[c] = label

Goto(c, label) == pc' = [pc EXCEPT ![c] = label]

\* check returns; check_or_raise raises for a tool that may not run, and the
\* receipt goes nowhere.
Enforce(c, decided) ==
  Goto(c, IF c \notin ToolCalls THEN "returned"
          ELSE IF decided = "allow" THEN "run" ELSE "ended")

Evaluate(c, decided) ==
  /\ At(c, "start")
  /\ evaluated' = [evaluated EXCEPT ![c] = Given(c)]
  /\ verdict' = [verdict EXCEPT ![c] = decided]
  /\ Goto(c, "redact")
  /\ UNCHANGED <<heap, copy, signed, stored, received, saved>>

\* Mutation: the caller's dictionary is redacted, not a copy of it.
RedactInPlace(c) ==
  /\ At(c, "redact")
  /\ heap' = IF c \in Redacting THEN [heap EXCEPT ![TopOf[c]] = Redacted(@)] ELSE heap
  /\ Goto(c, "sign")
  /\ UNCHANGED <<copy, verdict, reads>>

\* Mutation: lenient gates do not redact.
RedactWhenStrict(c) ==
  /\ At(c, "redact")
  /\ copy' = [copy EXCEPT ![c] =
       IF c \in Redacting \cap Strict THEN Redacted(heap[TopOf[c]]) ELSE @]
  /\ Goto(c, "sign")
  /\ UNCHANGED <<heap, verdict, reads>>

Redact(c) ==
  /\ At(c, "redact")
  /\ copy' = [copy EXCEPT ![c] =
       IF c \in Redacting THEN Redacted(heap[TopOf[c]]) ELSE @]
  /\ Goto(c, "sign")
  /\ UNCHANGED <<heap, verdict, reads>>

Sign(c) ==
  /\ At(c, "sign")
  /\ signed' = [signed EXCEPT ![c] = ToDict(c)]
  /\ Goto(c, "store")
  /\ UNCHANGED <<heap, copy, verdict, evaluated, stored, received, saved>>

\* append: the second to_dict of record, written and committed.
Store(c) ==
  /\ At(c, "store")
  /\ stored' = [stored EXCEPT ![c] = ToDict(c)]
  /\ Enforce(c, verdict[c])
  /\ UNCHANGED <<heap, copy, verdict, evaluated, signed, received, saved>>

\* LedgerError: a strict gate denies, with the unredacted request; a lenient
\* one goes on without a record.
StoreFails(c) ==
  LET decided == IF c \in Strict THEN "error" ELSE verdict[c]
  IN  /\ At(c, "store")
      /\ verdict' = [verdict EXCEPT ![c] = decided]
      /\ copy' = [copy EXCEPT ![c] = IF c \in Strict THEN None ELSE @]
      /\ Enforce(c, decided)
      /\ UNCHANGED <<heap, reads>>

\* func(**kwargs): the tool has a top level of its own and the nested object in
\* common with the request, and may change what it was given.
Run(c) ==
  /\ At(c, "run")
  /\ received' = [received EXCEPT ![c] = Given(c)]
  /\ \/ UNCHANGED heap
     \/ /\ c \in Mutating
        /\ \E value \in Values : heap' = [heap EXCEPT ![NestedOf[c]] = value]
  /\ Goto(c, "returned")
  /\ UNCHANGED <<copy, verdict, evaluated, signed, stored, saved>>

\* Mutation: a receipt of the request, as it was given.
SaveRequest(c) ==
  /\ At(c, "returned")
  /\ saved' = [saved EXCEPT ![c] = IF stored[c] = None THEN None ELSE Given(c)]
  /\ Goto(c, "ended")
  /\ UNCHANGED <<heap, copy, verdict, evaluated, signed, stored, received>>

\* The caller saves the receipt, if there is one, and is done with the call.
\* create_receipt put the decision's own dictionaries into it.
Save(c) ==
  /\ At(c, "returned")
  /\ saved' = [saved EXCEPT ![c] = IF stored[c] = None THEN None ELSE ToDict(c)]
  /\ Goto(c, "ended")
  /\ UNCHANGED <<heap, copy, verdict, evaluated, signed, stored, received>>

\* A caller changes an object of its own, or another thread a shared one.
Change(object) ==
  /\ object \notin Private
  /\ object \in Shared \/ \A c \in Calls : Uses(c, object) => ~ Inside(c)
  /\ \E value \in Values : heap' = [heap EXCEPT ![object] = value]
  /\ UNCHANGED <<pc, copy, verdict, reads>>

-----------------------------------------------------------------------------

Next ==
  \/ \E c \in Calls :
       \/ \E decided \in {"allow", "deny"} : Evaluate(c, decided)
       \/ Redact(c) \/ Sign(c) \/ Store(c) \/ StoreFails(c) \/ Run(c) \/ Save(c)
  \/ \E object \in Objects : Change(object)

Spec == Init /\ [][Next]_vars

-----------------------------------------------------------------------------
(***************************************************************************)
(* Properties.                                                             *)
(***************************************************************************)

\* A row says what the policy engine was asked, redacted as its gate does it,
\* of all that nobody else could change: a caller that waits for check, calls
\* that share nothing, and kwargs are safe from each other, whatever becomes
\* of the rest.  A redacting gate's row is redacted in any case (gate.py, check
\* and _redact_decision; types.py, to_dict).
RowIsEvaluated ==
  \A c \in Calls : stored[c] # None =>
    /\ TopOf[c] \notin Shared => stored[c].top =
         IF c \in Redacting THEN Redacted(evaluated[c].top) ELSE evaluated[c].top
    /\ NestedOf[c] \notin Shared => stored[c].nested = evaluated[c].nested
    /\ c \in Redacting => \E v \in Values : stored[c].top = Redacted(v)

\* A tool gets the very arguments that the policy allowed, not the redacted
\* ones: the top level always, though its gate, other tools and their callers
\* had it in hand, and a nested object that no other thread changes (wrapper.py:
\* "The wrapped function receives the original keyword arguments").
ToolGetsEvaluated ==
  \A c \in Calls : received[c] # None =>
    /\ verdict[c] = "allow"
    /\ received[c].top = evaluated[c].top
    /\ NestedOf[c] \notin Shared => received[c].nested = evaluated[c].nested

\* What was signed is what is stored and what a receipt says that is saved at
\* any later time, of a top level that is a redacted copy or kwargs, though
\* callers, tools and other threads go on changing whatever they have; and what
\* is stored, of a nested object that no other thread changes.  verify_chain
\* recomputes the hash from the row, and verify_receipt from the receipt
\* (ledger.py, record reads the decision twice; receipt.py, create_receipt).
SignedIsKept ==
  \A c \in Calls : stored[c] # None =>
    /\ c \in ToolCalls \cup Redacting =>
         /\ stored[c].top = signed[c].top
         /\ saved[c] # None => saved[c].top = signed[c].top
    /\ NestedOf[c] \notin Shared => stored[c].nested = signed[c].nested

=============================================================================
