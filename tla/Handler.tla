------------------------------- MODULE Handler -------------------------------
(***************************************************************************)
(* PolicyBoundCallbackHandler (langchain.py): handlers that check each     *)
(* tool run against a Gate and keep the last result in one attribute,      *)
(* while LangChain, which is external, runs tools concurrently.            *)
(*                                                                         *)
(* A call of Gate is one on_tool_start, or comes from elsewhere.  Handlers *)
(* with raise_on_deny call check_or_raise: their calls are ToolCalls, and  *)
(* LangChain's tool stands where GovernedTool's function does.             *)
(***************************************************************************)
EXTENDS Gate

CONSTANTS
  Handlers,
  HandlerOf,   \* the handler of a call, or None
  Raising      \* handlers with raise_on_deny=True

ASSUME HandlerAssumption ==
  /\ HandlerOf \in [Calls -> Handlers \cup {None}] /\ None \notin Handlers
  /\ Raising \subseteq Handlers
  /\ \A c \in Calls : HandlerOf[c] # None =>
       /\ c \in ToolCalls <=> HandlerOf[c] \in Raising
       /\ \A d \in Calls : HandlerOf[d] = HandlerOf[c] => GateOf[d] = GateOf[c]

VARIABLES
  last,      \* _last_result of a handler: the call it is the result of
  handled,   \* calls whose on_tool_start returned
  ran        \* calls whose tool LangChain ran

handlerVars == <<last, handled, ran>>
allVars == <<vars, handlerVars>>

HandlerInit ==
  /\ Init
  /\ last = [h \in Handlers |-> None]
  /\ handled = {}
  /\ ran = {}

Reports(c) == HandlerOf[c] # None

\* A step of check_or_raise or check, or of a call from elsewhere.
Check(c) ==
  /\ Reports(c) => ~ At(c, "run")
  /\ Proceed(c)
  /\ UNCHANGED handlerVars

\* Mutation: the result is kept whatever it is.
OnToolStartKeepsAll(c) ==
  /\ Reports(c) /\ c \notin handled
  /\ pc[c] \in {"run", "done", "refused", "raised"}
  /\ last' = [last EXCEPT ![HandlerOf[c]] = c]
  /\ handled' = handled \cup {c}
  /\ UNCHANGED <<vars, ran>>

\* check_or_raise or check returned its result.
OnToolStart(c) ==
  /\ Reports(c)
  /\ At(c, IF c \in ToolCalls THEN "run" ELSE "done")
  /\ c \notin handled
  /\ last' = [last EXCEPT ![HandlerOf[c]] = c]
  /\ handled' = handled \cup {c}
  /\ UNCHANGED <<vars, ran>>

\* LangChain runs the tool of a start that was handled.
RunTool(c) ==
  /\ c \in handled \ ran
  /\ IF c \in ToolCalls THEN Run(c) ELSE pc[c] # "stopped" /\ UNCHANGED vars
  /\ ran' = ran \cup {c}
  /\ UNCHANGED <<last, handled>>

\* LangChain logs the handler's exception and runs the tool: langchain_core
\* defaults raise_error to False, and the class leaves it alone.
RunToolAnyway(c) ==
  /\ Reports(c)
  /\ pc[c] \in {"refused", "raised"}
  /\ c \notin ran
  /\ ran' = ran \cup {c}
  /\ UNCHANGED <<vars, last, handled>>

StopAll == Stop /\ UNCHANGED handlerVars

HandlerNext ==
  \/ \E c \in Calls : Check(c) \/ OnToolStart(c) \/ RunTool(c) \/ RunToolAnyway(c)
  \/ StopAll
  \/ Done /\ UNCHANGED allVars

HandlerSpec == HandlerInit /\ [][HandlerNext]_allVars

-----------------------------------------------------------------------------
(***************************************************************************)
(* Properties.                                                             *)
(***************************************************************************)

\* A raising handler's last_result is never a denial, an escalation or the
\* result of a check that failed, in whatever order its concurrent tool runs
\* are checked and report, and whichever of them the result is of
\* (langchain.py, on_tool_start).
LastResultIsAllowed ==
  \A h \in Raising : last[h] # None =>
    /\ evaluated[last[h]] = "allow"
    /\ IsStrict(last[h]) => record[last[h]] \in returned

\* "Denied actions raise PolicyDeniedError, preventing execution": no tool
\* runs whose check a raising handler saw refused (langchain.py,
\* PolicyBoundCallbackHandler).
DeniedDoesNotRun ==
  \A c \in ran : HandlerOf[c] \in Raising => ~ At(c, "refused")

=============================================================================
