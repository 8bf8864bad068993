--------------------------- MODULE ArgumentsProofs ---------------------------
(***************************************************************************)
(* Proofs about Arguments, for any calls, objects and sharing: what a call *)
(* has read agrees in all that nobody else could change, and in what was   *)
(* redacted for it.                                                        *)
(***************************************************************************)
EXTENDS Arguments, TLAPS

\* What each variable may hold.
TypeInv ==
  /\ heap \in [Objects -> Values]
  /\ pc \in [Calls -> Labels]
  /\ copy = [c \in Calls |-> copy[c]]
  /\ verdict = [c \in Calls |-> verdict[c]]
  /\ evaluated = [c \in Calls |-> evaluated[c]]
  /\ signed = [c \in Calls |-> signed[c]]
  /\ stored = [c \in Calls |-> stored[c]]
  /\ received = [c \in Calls |-> received[c]]
  /\ saved = [c \in Calls |-> saved[c]]

\* The top level that nobody changes while check has it.
OwnTop(c) == TopOf[c] \notin Shared

OwnNested(c) == NestedOf[c] \notin Shared

\* The decision's top level that nobody changes at all.
FixedTop(c) == c \in ToolCalls \cup Redacting

\* The objects hold what was evaluated, as long as the caller waits; kwargs do
\* so for ever.
ObjectsInv(c) ==
  /\ Inside(c) /\ OwnTop(c) => heap[TopOf[c]] = evaluated[c].top
  /\ Inside(c) /\ OwnNested(c) => heap[NestedOf[c]] = evaluated[c].nested
  /\ c \in ToolCalls /\ ~ At(c, "start") => heap[TopOf[c]] = evaluated[c].top

\* The decision is redacted as its gate does it.
CopyInv(c) ==
  /\ pc[c] \in {"start", "redact"} \/ c \notin Redacting => copy[c] = None
  /\ pc[c] \in {"sign", "store"} /\ c \in Redacting => copy[c] # None
  /\ copy[c] # None =>
       /\ \E v \in Values : copy[c] = Redacted(v)
       /\ pc[c] \in {"sign", "store"} /\ OwnTop(c) => copy[c] = Redacted(evaluated[c].top)

\* What was signed, as long as nobody could change it.
SignedInv(c) ==
  /\ pc[c] = "store" =>
       /\ FixedTop(c) => signed[c].top = ToDict(c).top
       /\ OwnNested(c) => signed[c].nested = heap[NestedOf[c]]
  /\ stored[c] # None =>
       /\ c \in Redacting => copy[c] # None
       /\ FixedTop(c) => signed[c].top = ToDict(c).top /\ stored[c].top = signed[c].top
       /\ OwnNested(c) => stored[c].nested = signed[c].nested

\* The arguments of a row.
RowInv(c) ==
  stored[c] # None =>
    /\ OwnTop(c) => stored[c].top =
         IF c \in Redacting THEN Redacted(evaluated[c].top) ELSE evaluated[c].top
    /\ OwnNested(c) => stored[c].nested = evaluated[c].nested
    /\ c \in Redacting => \E v \in Values : stored[c].top = Redacted(v)

\* What comes last is not there yet, and what it is when it is there.
LaterInv(c) ==
  /\ pc[c] \in {"start", "redact", "sign", "store"} => stored[c] = None
  /\ pc[c] \in {"start", "redact", "sign", "store", "run"} => received[c] = None
  /\ pc[c] # "ended" => saved[c] = None
  /\ pc[c] = "run" => verdict[c] = "allow" /\ c \in ToolCalls
  /\ received[c] # None =>
       /\ verdict[c] = "allow"
       /\ received[c].top = evaluated[c].top
       /\ OwnNested(c) => received[c].nested = evaluated[c].nested
  /\ stored[c] # None /\ saved[c] # None /\ FixedTop(c) => saved[c].top = signed[c].top

\* The part of the invariant that is about one call.
CallInv(c) ==
  /\ ObjectsInv(c)
  /\ CopyInv(c)
  /\ SignedInv(c)
  /\ RowInv(c)
  /\ LaterInv(c)

IInv == TypeInv /\ \A c \in Calls : CallInv(c)

-----------------------------------------------------------------------------

\* What a step leaves of a call whose turn it is not.
Kept(d) ==
  /\ pc'[d] = pc[d] /\ verdict'[d] = verdict[d] /\ copy'[d] = copy[d]
  /\ evaluated'[d] = evaluated[d] /\ signed'[d] = signed[d] /\ stored'[d] = stored[d]
  /\ received'[d] = received[d] /\ saved'[d] = saved[d]
  /\ d \in ToolCalls \/ (Inside(d) /\ OwnTop(d)) => heap'[TopOf[d]] = heap[TopOf[d]]
  /\ Inside(d) /\ OwnNested(d) => heap'[NestedOf[d]] = heap[NestedOf[d]]

\* Such a call keeps its part of the invariant.
LEMMA KeptKeepsCall ==
  ASSUME IInv, NEW d \in Calls, Kept(d)
  PROVE  CallInv(d)'
<1>0. CallInv(d)
  BY DEF IInv
<1>1. Inside(d)' <=> Inside(d)
  BY DEF Inside, Kept
<1>2. (OwnTop(d)' <=> OwnTop(d)) /\ (OwnNested(d)' <=> OwnNested(d))
  BY DEF OwnTop, OwnNested
<1>3. FixedTop(d)' <=> FixedTop(d)
  BY DEF FixedTop
<1>4. ObjectsInv(d)'
  BY <1>0, <1>1, <1>2 DEF CallInv, ObjectsInv, Kept, At
<1>5. CopyInv(d)'
  BY <1>0, <1>2 DEF CallInv, CopyInv, Redacted, Kept
<1>6. SignedInv(d)'
  <2>1. CASE ~ FixedTop(d)
    BY <1>0, <1>1, <1>2, <1>3, <2>1 DEF CallInv, SignedInv, Kept, Inside, FixedTop
  <2>2. CASE FixedTop(d) /\ copy[d] # None
    <3>1. ToDict(d).top = copy[d] /\ ToDict(d)'.top = copy[d]
      BY <2>2 DEF ToDict, Given, Kept
    <3>2. QED
      BY <1>0, <1>1, <1>2, <1>3, <3>1, <2>2 DEF CallInv, SignedInv, Kept, Inside
  <2>3. CASE FixedTop(d) /\ copy[d] = None /\ d \in ToolCalls
    <3>1. ToDict(d).top = heap[TopOf[d]] /\ ToDict(d)'.top = heap[TopOf[d]]
      BY <2>3 DEF ToDict, Given, Kept
    <3>2. QED
      BY <1>0, <1>1, <1>2, <1>3, <3>1, <2>3 DEF CallInv, SignedInv, Kept, Inside
  <2>4. CASE copy[d] = None /\ d \in Redacting
    <3>1. pc[d] # "store" /\ stored[d] = None
      BY <1>0, <2>4 DEF CallInv, CopyInv, SignedInv
    <3>2. QED  BY <3>1 DEF SignedInv, Kept
  <2>5. QED  BY <2>1, <2>2, <2>3, <2>4 DEF FixedTop
<1>7. RowInv(d)'
  BY <1>0, <1>2 DEF CallInv, RowInv, Redacted, Kept
<1>8. LaterInv(d)'
  BY <1>0, <1>2, <1>3 DEF CallInv, LaterInv, Kept
<1>9. QED  BY <1>4, <1>5, <1>6, <1>7, <1>8 DEF CallInv

\* Arguments are a top level and a nested object, and a decision's are those or
\* the copy.
LEMMA ToDictIs ==
  ASSUME NEW c \in Calls
  PROVE  /\ Given(c).top = heap[TopOf[c]] /\ Given(c).nested = heap[NestedOf[c]]
         /\ ToDict(c).top = IF copy[c] = None THEN heap[TopOf[c]] ELSE copy[c]
         /\ ToDict(c).nested = heap[NestedOf[c]]
BY DEF Given, ToDict

\* The engine reads the live objects.
LEMMA EvaluateKeeps ==
  ASSUME IInv, NEW c \in Calls, NEW decided \in {"allow", "deny"}, Evaluate(c, decided)
  PROVE  IInv'
<1>0. TypeInv /\ CallInv(c)
  BY DEF IInv
<1>1. TypeInv'
  BY <1>0 DEF TypeInv, Evaluate, Goto, Labels
<1>2. \A d \in Calls \ {c} : Kept(d)
  BY <1>0 DEF TypeInv, Evaluate, Goto, Kept
<1>3. pc[c] = "start" /\ pc'[c] = "redact" /\ evaluated'[c] = Given(c)
  BY <1>0 DEF TypeInv, Evaluate, Goto, At
<1>4. stored[c] = None /\ received[c] = None /\ saved[c] = None /\ copy[c] = None
  BY <1>0, <1>3 DEF CallInv, LaterInv, CopyInv
<1>5. ObjectsInv(c)'
  BY <1>3, ToDictIs DEF Evaluate, ObjectsInv
<1>6. CallInv(c)'
  BY <1>3, <1>4, <1>5 DEF Evaluate, CallInv, CopyInv, SignedInv, RowInv, LaterInv
<1>7. QED  BY <1>1, <1>2, <1>6, KeptKeepsCall DEF IInv

\* A redacting gate copies the top level.
LEMMA RedactKeeps ==
  ASSUME IInv, NEW c \in Calls, Redact(c)
  PROVE  IInv'
<1>0. TypeInv /\ CallInv(c)
  BY DEF IInv
<1>1. TypeInv'
  BY <1>0 DEF TypeInv, Redact, Goto, Labels, reads
<1>2. \A d \in Calls \ {c} : Kept(d)
  BY <1>0 DEF TypeInv, Redact, Goto, Kept, reads
<1>3. pc[c] = "redact" /\ pc'[c] = "sign"
  BY <1>0 DEF TypeInv, Redact, Goto, At
<1>4. stored[c] = None /\ received[c] = None /\ saved[c] = None /\ copy[c] = None
  BY <1>0, <1>3 DEF CallInv, LaterInv, CopyInv
<1>5. ObjectsInv(c)'
  BY <1>0, <1>3 DEF Redact, reads, CallInv, ObjectsInv, Inside, At, OwnTop, OwnNested
<1>6. heap[TopOf[c]] \in Values
  BY <1>0, ArgumentsAssumption DEF TypeInv
<1>7. copy'[c] = IF c \in Redacting THEN Redacted(heap[TopOf[c]]) ELSE None
  BY <1>0, <1>4 DEF TypeInv, Redact
<1>8. CopyInv(c)'
  <2>1. OwnTop(c) => heap[TopOf[c]] = evaluated[c].top
    BY <1>0, <1>3 DEF CallInv, ObjectsInv, Inside
  <2>2. CASE c \in Redacting
    <3>1. copy'[c] = Redacted(heap[TopOf[c]]) /\ copy'[c] # None
      BY <1>6, <1>7, <2>2, ArgumentsAssumption
    <3>2. QED
      BY <1>3, <1>6, <2>1, <2>2, <3>1 DEF Redact, reads, CopyInv, OwnTop, Redacted
  <2>3. CASE c \notin Redacting
    BY <1>7, <2>3 DEF CopyInv
  <2>4. QED  BY <2>2, <2>3
<1>9. SignedInv(c)' /\ RowInv(c)' /\ LaterInv(c)'
  BY <1>3, <1>4 DEF Redact, reads, SignedInv, RowInv, LaterInv
<1>10. QED  BY <1>1, <1>2, <1>5, <1>8, <1>9, KeptKeepsCall DEF IInv, CallInv

\* canonical_json reads the decision.
LEMMA SignKeeps ==
  ASSUME IInv, NEW c \in Calls, Sign(c)
  PROVE  IInv'
<1>0. TypeInv /\ CallInv(c)
  BY DEF IInv
<1>1. TypeInv'
  BY <1>0 DEF TypeInv, Sign, Goto, Labels
<1>2. \A d \in Calls \ {c} : Kept(d)
  BY <1>0 DEF TypeInv, Sign, Goto, Kept
<1>3. pc[c] = "sign" /\ pc'[c] = "store" /\ signed'[c] = ToDict(c)
  BY <1>0 DEF TypeInv, Sign, Goto, At
<1>4. stored[c] = None /\ received[c] = None /\ saved[c] = None
  BY <1>0, <1>3 DEF CallInv, LaterInv
<1>5. ObjectsInv(c)'
  BY <1>0, <1>3 DEF Sign, CallInv, ObjectsInv, Inside, At, OwnTop, OwnNested
<1>6. CopyInv(c)'
  BY <1>0, <1>3 DEF Sign, CallInv, CopyInv, OwnTop, Redacted
<1>7. SignedInv(c)'
  <2>1. ToDict(c)' = ToDict(c)
    BY DEF Sign, ToDict, Given
  <2>2. QED  BY <1>3, <1>4, <2>1, ToDictIs DEF Sign, SignedInv
<1>8. RowInv(c)' /\ LaterInv(c)'
  BY <1>3, <1>4 DEF Sign, RowInv, LaterInv
<1>9. QED  BY <1>1, <1>2, <1>5, <1>6, <1>7, <1>8, KeptKeepsCall DEF IInv, CallInv

\* Where check leaves a call.
LEMMA EnforceGoes ==
  ASSUME TypeInv, NEW c \in Calls, NEW decided, Enforce(c, decided)
  PROVE  /\ pc' \in [Calls -> Labels]
         /\ \A d \in Calls \ {c} : pc'[d] = pc[d]
         /\ pc'[c] \in {"run", "returned", "ended"}
         /\ pc'[c] = "run" => decided = "allow" /\ c \in ToolCalls
BY DEF TypeInv, Enforce, Goto, Labels

\* json.dumps reads the decision again.
LEMMA StoreKeeps ==
  ASSUME IInv, NEW c \in Calls, Store(c)
  PROVE  IInv'
<1>0. TypeInv /\ CallInv(c)
  BY DEF IInv
<1>e. /\ pc' \in [Calls -> Labels]
      /\ \A d \in Calls \ {c} : pc'[d] = pc[d]
      /\ pc'[c] \in {"run", "returned", "ended"}
      /\ pc'[c] = "run" => verdict[c] = "allow" /\ c \in ToolCalls
  BY <1>0, EnforceGoes DEF Store
<1>1. TypeInv'
  BY <1>0, <1>e DEF TypeInv, Store
<1>2. \A d \in Calls \ {c} : Kept(d)
  BY <1>0, <1>e DEF TypeInv, Store, Kept
<1>3. pc[c] = "store" /\ stored'[c] = ToDict(c)
  BY <1>0 DEF TypeInv, Store, At
<1>4. received[c] = None /\ saved[c] = None
  BY <1>0, <1>3 DEF CallInv, LaterInv
<1>5. ObjectsInv(c)'
  BY <1>0, <1>3 DEF Store, CallInv, ObjectsInv, Inside, At, OwnTop, OwnNested
<1>6. CopyInv(c)'
  BY <1>0, <1>e, <1>3 DEF Store, CallInv, CopyInv, Redacted
<1>7. SignedInv(c)'
  <2>1. ToDict(c)' = ToDict(c)
    BY DEF Store, ToDict, Given
  <2>2. c \in Redacting => copy[c] # None
    BY <1>0, <1>3 DEF CallInv, CopyInv
  <2>3. /\ FixedTop(c) => signed[c].top = ToDict(c).top
        /\ OwnNested(c) => signed[c].nested = ToDict(c).nested
    BY <1>0, <1>3, ToDictIs DEF CallInv, SignedInv
  <2>4. QED
    BY <1>e, <1>3, <2>1, <2>2, <2>3 DEF Store, SignedInv, FixedTop, OwnNested
<1>8. RowInv(c)'
  <2>1. OwnTop(c) => heap[TopOf[c]] = evaluated[c].top
    BY <1>0, <1>3 DEF CallInv, ObjectsInv, Inside
  <2>2. OwnNested(c) => heap[NestedOf[c]] = evaluated[c].nested
    BY <1>0, <1>3 DEF CallInv, ObjectsInv, Inside
  <2>3. c \in Redacting =>
          /\ copy[c] # None /\ ToDict(c).top = copy[c]
          /\ \E v \in Values : copy[c] = Redacted(v)
          /\ OwnTop(c) => copy[c] = Redacted(evaluated[c].top)
    BY <1>0, <1>3, ToDictIs DEF CallInv, CopyInv
  <2>4. c \notin Redacting => ToDict(c).top = heap[TopOf[c]]
    BY <1>0, ToDictIs DEF CallInv, CopyInv
  <2>5. QED
    BY <1>3, <2>1, <2>2, <2>3, <2>4, ToDictIs DEF Store, RowInv, OwnTop, OwnNested, Redacted
<1>9. LaterInv(c)'
  BY <1>e, <1>4 DEF Store, LaterInv
<1>10. QED  BY <1>1, <1>2, <1>5, <1>6, <1>7, <1>8, <1>9, KeptKeepsCall DEF IInv, CallInv

\* A failed recording leaves no row.
LEMMA StoreFailsKeeps ==
  ASSUME IInv, NEW c \in Calls, StoreFails(c)
  PROVE  IInv'
<1>0. TypeInv /\ CallInv(c)
  BY DEF IInv
<1>d. PICK decided : verdict' = [verdict EXCEPT ![c] = decided] /\ Enforce(c, decided)
  BY DEF StoreFails
<1>e. /\ pc' \in [Calls -> Labels]
      /\ \A d \in Calls \ {c} : pc'[d] = pc[d]
      /\ pc'[c] \in {"run", "returned", "ended"}
      /\ pc'[c] = "run" => verdict'[c] = "allow" /\ c \in ToolCalls
  BY <1>0, <1>d, EnforceGoes DEF TypeInv
<1>1. TypeInv'
  BY <1>0, <1>d, <1>e DEF TypeInv, StoreFails, reads
<1>2. \A d \in Calls \ {c} : Kept(d)
  BY <1>0, <1>d, <1>e DEF TypeInv, StoreFails, Kept, reads
<1>3. pc[c] = "store"
  BY DEF StoreFails, At
<1>4. received[c] = None /\ saved[c] = None /\ stored[c] = None
  BY <1>0, <1>3 DEF CallInv, LaterInv
<1>5. ObjectsInv(c)'
  BY <1>0, <1>3 DEF StoreFails, reads, CallInv, ObjectsInv, Inside, At, OwnTop, OwnNested
<1>6. copy'[c] = copy[c] \/ copy'[c] = None
  BY <1>0 DEF TypeInv, StoreFails
<1>7. CopyInv(c)'
  BY <1>0, <1>e, <1>6 DEF CallInv, CopyInv, Redacted
<1>8. SignedInv(c)' /\ RowInv(c)' /\ LaterInv(c)'
  BY <1>e, <1>4 DEF StoreFails, reads, SignedInv, RowInv, LaterInv
<1>9. QED  BY <1>1, <1>2, <1>5, <1>7, <1>8, KeptKeepsCall DEF IInv, CallInv

\* The tool gets the live objects and may change its nested one, which is no
\* call's top level.
LEMMA RunKeeps ==
  ASSUME IInv, NEW c \in Calls, Run(c)
  PROVE  IInv'
<1>0. TypeInv /\ CallInv(c)
  BY DEF IInv
<1>h. /\ heap' \in [Objects -> Values]
      /\ \A object \in Objects \ {NestedOf[c]} : heap'[object] = heap[object]
  BY <1>0 DEF TypeInv, Run
<1>1. TypeInv'
  BY <1>0, <1>h DEF TypeInv, Run, Goto, Labels
<1>t. \A d \in Calls : heap'[TopOf[d]] = heap[TopOf[d]]
  BY <1>h, ArgumentsAssumption
<1>2. ASSUME NEW d \in Calls \ {c} PROVE Kept(d)
  <2>1. OwnNested(d) => NestedOf[d] # NestedOf[c]
    BY ArgumentsAssumption DEF OwnNested
  <2>2. OwnNested(d) => heap'[NestedOf[d]] = heap[NestedOf[d]]
    BY <1>h, <2>1, ArgumentsAssumption
  <2>3. QED  BY <1>0, <1>t, <2>2 DEF TypeInv, Run, Goto, Kept
<1>3. pc[c] = "run" /\ pc'[c] = "returned" /\ received'[c] = Given(c)
  BY <1>0 DEF TypeInv, Run, Goto, At
<1>4. saved[c] = None /\ verdict[c] = "allow" /\ c \in ToolCalls
  BY <1>0, <1>3 DEF CallInv, LaterInv
<1>5. heap[TopOf[c]] = evaluated[c].top
  BY <1>0, <1>3, <1>4 DEF CallInv, ObjectsInv, At
<1>6. ObjectsInv(c)'
  BY <1>3, <1>5, <1>t DEF Run, ObjectsInv, Inside
<1>7. CopyInv(c)'
  BY <1>0, <1>3 DEF Run, CallInv, CopyInv, Redacted
<1>8. SignedInv(c)'
  <2>1. ToDict(c)'.top = ToDict(c).top
    BY <1>t DEF Run, ToDict, Given
  <2>2. QED
    BY <1>0, <1>3, <2>1 DEF Run, CallInv, SignedInv, FixedTop, OwnNested
<1>9. RowInv(c)'
  BY <1>0 DEF Run, CallInv, RowInv, OwnTop, OwnNested, Redacted
<1>10. LaterInv(c)'
  <2>1. OwnNested(c) => Given(c).nested = evaluated[c].nested
    BY <1>0, <1>3, ToDictIs DEF CallInv, ObjectsInv, Inside
  <2>2. QED
    BY <1>3, <1>4, <1>5, <2>1, ToDictIs DEF Run, LaterInv, OwnNested
<1>11. QED
  BY <1>1, <1>2, <1>6, <1>7, <1>8, <1>9, <1>10, KeptKeepsCall DEF IInv, CallInv

\* The receipt has the decision's own dictionaries.
LEMMA SaveKeeps ==
  ASSUME IInv, NEW c \in Calls, Save(c)
  PROVE  IInv'
<1>0. TypeInv /\ CallInv(c)
  BY DEF IInv
<1>1. TypeInv'
  BY <1>0 DEF TypeInv, Save, Goto, Labels
<1>2. \A d \in Calls \ {c} : Kept(d)
  BY <1>0 DEF TypeInv, Save, Goto, Kept
<1>3. pc[c] = "returned" /\ pc'[c] = "ended"
  BY <1>0 DEF TypeInv, Save, Goto, At
<1>4. saved'[c] = IF stored[c] = None THEN None ELSE ToDict(c)
  BY <1>0 DEF TypeInv, Save
<1>5. ObjectsInv(c)'
  BY <1>0, <1>3 DEF Save, CallInv, ObjectsInv, Inside, At
<1>6. CopyInv(c)'
  BY <1>0, <1>3 DEF Save, CallInv, CopyInv, Redacted
<1>7. SignedInv(c)'
  <2>1. ToDict(c)' = ToDict(c)
    BY DEF Save, ToDict, Given
  <2>2. QED  BY <1>0, <1>3, <2>1 DEF Save, CallInv, SignedInv, FixedTop, OwnNested
<1>8. RowInv(c)'
  BY <1>0 DEF Save, CallInv, RowInv, OwnTop, OwnNested, Redacted
<1>9. LaterInv(c)'
  <2>1. stored[c] # None /\ FixedTop(c) => ToDict(c).top = signed[c].top
    BY <1>0 DEF CallInv, SignedInv
  <2>2. QED
    BY <1>0, <1>3, <1>4, <2>1 DEF Save, CallInv, LaterInv, FixedTop, OwnNested
<1>10. QED
  BY <1>1, <1>2, <1>5, <1>6, <1>7, <1>8, <1>9, KeptKeepsCall DEF IInv, CallInv

\* Callers and threads leave alone what they do not have.
LEMMA ChangeKeeps ==
  ASSUME IInv, NEW object \in Objects, Change(object)
  PROVE  IInv'
<1>1. TypeInv'
  BY DEF IInv, TypeInv, Change, reads
<1>h. \A other \in Objects \ {object} : heap'[other] = heap[other]
  BY DEF IInv, TypeInv, Change
<1>2. ASSUME NEW d \in Calls PROVE Kept(d)
  <2>1. d \in ToolCalls => TopOf[d] # object
    BY DEF Change, Private
  <2>2. Inside(d) /\ OwnTop(d) => TopOf[d] # object
    BY DEF Change, Uses, OwnTop
  <2>3. Inside(d) /\ OwnNested(d) => NestedOf[d] # object
    BY DEF Change, Uses, OwnNested
  <2>4. TopOf[d] \in Objects /\ NestedOf[d] \in Objects
    BY ArgumentsAssumption
  <2>5. QED  BY <1>h, <2>1, <2>2, <2>3, <2>4 DEF Change, Kept, reads
<1>3. QED  BY <1>1, <1>2, KeptKeepsCall DEF IInv

\* Every step keeps the invariant.
LEMMA StepKeepsInvariant ==
  ASSUME IInv, [Next]_vars
  PROVE  IInv'
<1>1. ASSUME UNCHANGED vars PROVE IInv'
  <2>1. TypeInv'
    BY <1>1 DEF IInv, TypeInv, vars, reads
  <2>2. \A d \in Calls : Kept(d)
    BY <1>1 DEF Kept, vars, reads
  <2>3. QED  BY <2>1, <2>2, KeptKeepsCall DEF IInv
<1>2. QED
  BY <1>1, EvaluateKeeps, RedactKeeps, SignKeeps, StoreKeeps, StoreFailsKeeps, RunKeeps,
     SaveKeeps, ChangeKeeps DEF Next

\* The invariant holds in every state of every behaviour.
THEOREM Invariant == Spec => []IInv
<1>1. ASSUME Init PROVE IInv
  <2>1. TypeInv
    BY <1>1, ArgumentsAssumption DEF Init, TypeInv, Labels
  <2>2. \A c \in Calls : CallInv(c)
    BY <1>1
    DEF Init, CallInv, ObjectsInv, CopyInv, SignedInv, RowInv, LaterInv, Inside, At
  <2>3. QED  BY <2>1, <2>2 DEF IInv
<1>2. IInv /\ [Next]_vars => IInv'
  BY StepKeepsInvariant
<1>3. QED  BY <1>1, <1>2, PTL DEF Spec

\* A row says what was evaluated, redacted as its gate does, of all that no
\* other thread has (gate.py, check).
THEOREM RowsAreEvaluated == Spec => []RowIsEvaluated
<1>1. IInv => RowIsEvaluated
  BY DEF IInv, CallInv, RowInv, OwnTop, OwnNested, RowIsEvaluated
<1>2. QED  BY <1>1, Invariant, PTL

\* A tool gets what was evaluated and allowed (wrapper.py, __call__).
THEOREM ToolsGetEvaluated == Spec => []ToolGetsEvaluated
<1>1. IInv => ToolGetsEvaluated
  BY DEF IInv, CallInv, LaterInv, OwnNested, ToolGetsEvaluated
<1>2. QED  BY <1>1, Invariant, PTL

\* What was signed of a redacted copy or of kwargs is what the row and any
\* receipt saved later say (ledger.py, record; receipt.py, create_receipt).
THEOREM SignedStaysKept == Spec => []SignedIsKept
<1>1. IInv => SignedIsKept
  BY DEF IInv, CallInv, SignedInv, LaterInv, FixedTop, OwnNested, SignedIsKept
<1>2. QED  BY <1>1, Invariant, PTL

=============================================================================
