--------------------------- MODULE HandlerProofs ---------------------------
(***************************************************************************)
(* Proofs about Handler: for any number of handlers, raising or not, on    *)
(* any gates.  Handlers only make calls of Gate, so whatever GateProofs    *)
(* proves of a gate holds behind them too.                                 *)
(***************************************************************************)
EXTENDS Handler, GateProofs

\* A call that check_or_raise let pass, whatever became of it since.
Passed(c) ==
  /\ pc[c] \in {"run", "done", "stopped"}
  /\ evaluated[c] = "allow"
  /\ IsStrict(c) =>
       /\ record[c] \in returned
       /\ \E i \in RecordsOf(c) : log[i].decision.verdict = "allow"

\* What the handlers keep is of their own calls, which passed if they raise.
HandlersInv ==
  /\ handled \subseteq Calls
  /\ \A c \in handled : Reports(c)
  /\ \A c \in handled \cap ToolCalls : Passed(c)
  /\ last \in [Handlers -> Calls \cup {None}]
  /\ \A h \in Handlers : last[h] # None => last[h] \in handled /\ HandlerOf[last[h]] = h

-----------------------------------------------------------------------------
(***************************************************************************)
(* Handlers on gates are gates.                                            *)
(***************************************************************************)

\* A step of handlers and LangChain is one of the gates, or none.
LEMMA HandlerStepIsGateStep == [HandlerNext]_allVars => [Next]_vars
BY DEF HandlerNext, allVars, Check, OnToolStart, RunTool, RunToolAnyway, StopAll,
       Next, Proceed

\* Calls that handlers make are calls of Gate: every theorem of GateProofs
\* holds behind PolicyBoundCallbackHandler.
THEOREM HandlersMakeCalls == HandlerSpec => Spec
<1>1. HandlerInit => Init
  BY DEF HandlerInit
<1>2. QED  BY <1>1, HandlerStepIsGateStep, PTL DEF HandlerSpec, Spec

-----------------------------------------------------------------------------
(***************************************************************************)
(* A call that has passed stays passed.                                    *)
(***************************************************************************)

\* Rows and returned records stay.
LEMMA LogGrows ==
  ASSUME IInv, [Next]_vars
  PROVE  /\ returned \subseteq returned'
         /\ \A i \in 1 .. Len(log) : i \in 1 .. Len(log') /\ log'[i] = log[i]
<1>1. Len(log) \in Nat
  BY DEF IInv, LogInv
<1>2. ASSUME NEW c \in Calls, Commit(c)
      PROVE  /\ returned' = returned
             /\ \A i \in 1 .. Len(log) : i \in 1 .. Len(log') /\ log'[i] = log[i]
  <2>1. PICK row : log' = Append(log, row)
    BY <1>2 DEF Commit, Audit!Extend
  <2>2. QED  BY <1>1, <1>2, <2>1, LogAppends DEF IInv, Commit, Audit!Extend
<1>3. ASSUME NEW c \in Calls, Recorded(c)
      PROVE  log' = log /\ returned \subseteq returned'
  BY <1>3 DEF Recorded, Audit!Return
<1>4. ASSUME NEW c \in Calls, Proceed(c), ~ Commit(c), ~ Recorded(c)
      PROVE  UNCHANGED <<log, returned>>
  BY <1>4 DEF Proceed, Evaluate, EvaluateFailsClosed, EvaluateRaises, RecordFails,
              RecordRaises, Refuse, Pass, Run
<1>5. ASSUME Stop \/ UNCHANGED vars PROVE UNCHANGED <<log, returned>>
  BY <1>5 DEF Stop, vars
<1>6. QED  BY <1>1, <1>2, <1>3, <1>4, <1>5 DEF Next

\* No step changes what a call that has passed was given.
LEMMA PassedKeepsLocals ==
  ASSUME IInv, [Next]_vars, NEW c \in Calls, pc[c] \in {"run", "done", "stopped"}
  PROVE  /\ pc'[c] \in {"run", "done", "stopped"}
         /\ evaluated'[c] = evaluated[c] /\ record'[c] = record[c]
<1>1. /\ DOMAIN pc = Calls
      /\ evaluated = [u \in Calls |-> evaluated[u]]
      /\ record = [u \in Calls |-> record[u]]
  BY DEF IInv, LocalsInv
<1>2. ASSUME NEW u \in Calls, Proceed(u), u # c
      PROVE  pc'[c] = pc[c] /\ evaluated'[c] = evaluated[c] /\ record'[c] = record[c]
  BY <1>1, <1>2 DEF Proceed, Evaluate, EvaluateFailsClosed, EvaluateRaises, Commit,
       Recorded, RecordFails, RecordRaises, Refuse, Pass, Run, Decide, Finish, Goto, local
<1>3. ASSUME Proceed(c)
      PROVE  pc'[c] = "done" /\ UNCHANGED <<evaluated, record>>
  BY <1>1, <1>3 DEF Proceed, Evaluate, EvaluateFailsClosed, EvaluateRaises, Commit,
       Recorded, RecordFails, RecordRaises, Refuse, Pass, Run, At, Goto, local
<1>4. ASSUME Stop
      PROVE  pc'[c] \in {"run", "done", "stopped"} /\ UNCHANGED <<evaluated, record>>
  BY <1>1, <1>4 DEF Stop, local
<1>5. ASSUME UNCHANGED vars PROVE UNCHANGED <<pc, evaluated, record>>
  BY <1>5 DEF vars
<1>6. QED  BY <1>2, <1>3, <1>4, <1>5 DEF Next

\* So does what the ledger keeps and has returned of it.
LEMMA PassedStays ==
  ASSUME IInv, [Next]_vars, NEW c \in Calls, Passed(c)
  PROVE  Passed(c)'
<1>1. /\ pc'[c] \in {"run", "done", "stopped"}
      /\ evaluated'[c] = evaluated[c] /\ record'[c] = record[c]
  BY PassedKeepsLocals DEF Passed
<1>2. /\ returned \subseteq returned'
      /\ \A i \in RecordsOf(c) : i \in RecordsOf(c)' /\ log'[i] = log[i]
  BY LogGrows DEF RecordsOf
<1>3. QED  BY <1>1, <1>2 DEF Passed, IsStrict

\* check_or_raise returns for calls that passed only.
LEMMA RunningHasPassed ==
  ASSUME IInv, NEW c \in Calls, At(c, "run")
  PROVE  Passed(c)
<1>1. decision[c].verdict = "allow" /\ evaluated[c] = "allow"
  BY DEF IInv, CallInv, DecisionInv, At
<1>2. ASSUME IsStrict(c)
      PROVE  /\ record[c] \in returned
             /\ \E i \in RecordsOf(c) : log[i].decision.verdict = "allow"
  <2>1. ~ Denied(c)
    BY <1>1 DEF Denied
  <2>2. /\ record[c] \in returned /\ record[c].decision = decision[c]
        /\ \E i \in RecordsOf(c) : log[i] = record[c]
    BY <1>2, <2>1 DEF IInv, CallInv, ResultInv, At
  <2>3. QED  BY <1>1, <2>2
<1>3. QED  BY <1>1, <1>2 DEF Passed, At

-----------------------------------------------------------------------------
(***************************************************************************)
(* The invariant of the handlers.                                          *)
(***************************************************************************)

\* Every step of handlers, LangChain and gates keeps the invariant.
LEMMA StepKeepsHandlers ==
  ASSUME IInv, HandlersInv, [HandlerNext]_allVars
  PROVE  HandlersInv'
<1>1. [Next]_vars
  BY HandlerStepIsGateStep
<1>2. \A c \in handled \cap ToolCalls : Passed(c)'
  BY <1>1, PassedStays DEF HandlersInv
<1>3. ASSUME UNCHANGED handlerVars PROVE HandlersInv'
  BY <1>2, <1>3 DEF HandlersInv, handlerVars, Reports
<1>4. ASSUME NEW c \in Calls, OnToolStart(c) PROVE HandlersInv'
  <2>1. HandlerOf[c] \in Handlers /\ Reports(c)
    BY <1>4, HandlerAssumption DEF OnToolStart, Reports
  <2>2. c \in ToolCalls => Passed(c)'
    BY <1>1, <1>4, RunningHasPassed, PassedStays DEF OnToolStart
  <2>3. QED  BY <1>2, <1>4, <2>1, <2>2 DEF HandlersInv, OnToolStart, Reports
<1>5. ASSUME NEW c \in Calls, RunTool(c) \/ RunToolAnyway(c) PROVE HandlersInv'
  BY <1>2, <1>5 DEF HandlersInv, RunTool, RunToolAnyway, Reports
<1>6. QED
  BY <1>3, <1>4, <1>5 DEF HandlerNext, Check, StopAll, allVars, handlerVars

\* The invariant of the gates and that of the handlers hold in every state of
\* every behaviour.
THEOREM HandlersInvariant == HandlerSpec => [](IInv /\ HandlersInv)
<1>1. HandlerInit => HandlersInv
  BY DEF HandlerInit, HandlersInv
<1>2. HandlerSpec => []IInv
  BY HandlersMakeCalls, Invariant, PTL
<1>3. IInv /\ HandlersInv /\ [HandlerNext]_allVars => HandlersInv'
  BY StepKeepsHandlers
<1>4. QED  BY <1>1, <1>2, <1>3, PTL DEF HandlerSpec

\* A raising handler's last_result is of a call that the policy allowed and,
\* in a strict gate, whose record was returned, for any number of concurrent
\* tool runs (langchain.py, on_tool_start).
THEOREM LastResultsAreAllowed == HandlerSpec => []LastResultIsAllowed
<1>1. ASSUME HandlersInv, NEW h \in Raising, last[h] # None
      PROVE  last[h] \in handled \cap ToolCalls /\ Passed(last[h])
  BY <1>1, HandlerAssumption DEF HandlersInv, Reports
<1>2. IInv /\ HandlersInv => LastResultIsAllowed
  BY <1>1 DEF LastResultIsAllowed, Passed
<1>3. QED  BY <1>2, HandlersInvariant, PTL

=============================================================================
