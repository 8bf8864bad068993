---------------------------- MODULE CheckCommand ----------------------------
(***************************************************************************)
(* `policybound check` (cli.py): one run of the command, from the policy   *)
(* file over key=value pairs to its exit code, on the engine of Policy.    *)
(* A behavior has a command line, or none: then the engine is in a program *)
(* that asks what it likes.                                                *)
(*                                                                         *)
(* A pair is <<key, text>>, or <<text>> when it has no "=".  What int() and*)
(* float() read in a text is a parameter.                                  *)
(***************************************************************************)
EXTENDS Policy, SequencesExt

CONSTANTS
  One,           \* the number 1 in Policy's unit
  CommandLines,  \* [policy, tool, agent, arg, context], the last two lists
                 \* of pairs
  Ints, Floats   \* functions from the texts that int() and float() accept to
                 \* integers of Policy's unit, and to numbers or Nan

ASSUME CommandAssumption ==
  /\ \A line \in CommandLines : {line.arg, line.context} \subseteq Seq(Seq(STRING))
  /\ \A line \in CommandLines : \A pair \in ToSet(line.arg) \cup ToSet(line.context) :
       Len(pair) \in {1, 2}
  /\ None \notin 0 .. 2

VARIABLES
  argv,   \* the command line, or None
  exit    \* the exit code, None while the command runs

commandVars == <<vars, argv, exit>>

CoerceValue(text) ==
  IF text \in {"true", "True", "TRUE"} THEN Number(One, "bool")
  ELSE IF text \in {"false", "False", "FALSE"} THEN Number(0, "bool")
  ELSE IF text \in DOMAIN Ints THEN Number(Ints[text], "int")
  ELSE IF text \in DOMAIN Floats THEN Floats[text]
  ELSE Text(text)

Malformed(pairs) == \E pair \in ToSet(pairs) : Len(pair) = 1

IndexesOf(pairs, key) == {i \in 1 .. Len(pairs) : pairs[i][1] = key}

\* Mutation: the first pair of a key stays.
ParseKeepsFirst(pairs) ==
  [key \in {pair[1] : pair \in ToSet(pairs)} |->
     CoerceValue(pairs[Min(IndexesOf(pairs, key))][2])]

\* _parse_key_values: a later pair replaces an earlier one.
ParseKeyValues(pairs) ==
  [key \in {pair[1] : pair \in ToSet(pairs)} |->
     CoerceValue(pairs[Max(IndexesOf(pairs, key))][2])]

\* denied, escalated or neither; every exception ends in 1.
ExitCode(answer) ==
  IF answer \in {"deny", "error"} \cup Errors THEN 1
  ELSE IF answer = "escalate" THEN 2 ELSE 0

-----------------------------------------------------------------------------

CommandInit ==
  /\ exit = None
  /\ \/ argv = None
     \/ argv \in CommandLines /\ policy = argv.policy
  /\ Init

Library ==
  /\ argv = None
  /\ Next
  /\ UNCHANGED <<argv, exit>>

LoadPolicy == argv # None /\ Load /\ UNCHANGED <<argv, exit>>

Exit(code) ==
  /\ exit' = code
  /\ UNCHANGED <<policy, patterns, request, rule, answers, argv>>

\* from_file raises InvalidPolicyError.
PolicyInvalid ==
  /\ argv # None
  /\ pc = "load" /\ ~ Loadable
  /\ pc' = "exited"
  /\ Exit(1)

\* "Invalid argument format"
BadFormat ==
  /\ argv # None
  /\ pc = "ready" /\ request = None
  /\ Malformed(argv.arg) \/ Malformed(argv.context)
  /\ pc' = "exited"
  /\ Exit(1)

Ask ==
  /\ argv # None /\ request = None
  /\ ~ Malformed(argv.arg) /\ ~ Malformed(argv.context)
  /\ Evaluate([tool |-> argv.tool, agent |-> argv.agent,
               arguments |-> ParseKeyValues(argv.arg),
               context |-> ParseKeyValues(argv.context)])
  /\ UNCHANGED <<argv, exit>>

Scan ==
  /\ argv # None
  /\ NextRule \/ Match \/ RaiseError \/ Default
  /\ UNCHANGED <<argv, exit>>

\* Mutation: whatever is not denied ends well.
AnswerUnlessDenied ==
  /\ argv # None
  /\ pc = "ready"
  /\ \E answer \in answers : Exit(IF answer[2] = "escalate" THEN 0 ELSE ExitCode(answer[2]))
  /\ pc' = "exited"

Answer ==
  /\ argv # None
  /\ pc = "ready"
  /\ \E answer \in answers : Exit(ExitCode(answer[2]))
  /\ pc' = "exited"

CommandNext ==
  \/ Library
  \/ LoadPolicy
  \/ PolicyInvalid
  \/ BadFormat
  \/ Ask
  \/ Scan
  \/ Answer
  \/ pc = "exited" /\ UNCHANGED commandVars

CommandSpec == CommandInit /\ [][CommandNext]_commandVars

-----------------------------------------------------------------------------
(***************************************************************************)
(* Properties.                                                             *)
(***************************************************************************)

\* The request that a command line means: of the pairs with a key the last
\* one counts.
Means(pairs, values) ==
  /\ ~ Malformed(pairs)
  /\ \A i \in 1 .. Len(pairs) :
       \/ \E j \in i + 1 .. Len(pairs) : pairs[j][1] = pairs[i][1]
       \/ values[pairs[i][1]] = CoerceValue(pairs[i][2])

Meant(r) == Means(argv.arg, r.arguments) /\ Means(argv.context, r.context)

\* A shell that goes on when check exits with 0 does what the policy allows:
\* the first rule that the given pairs satisfy allows them, and no error of
\* policy, pairs or evaluation ends in 0 (cli.py, check).
ZeroIsAllowed == exit = 0 => Meant(request) /\ IsFirstMatch(request, "allow")

\* With a policy that has no mistake and pairs that can be read, the exit code
\* tells the verdict of the first match (cli.py, check).
ExitTellsVerdict ==
  exit # None /\ WellMade /\ Loadable /\ request # None =>
    \E verdict \in Verdicts :
      exit = ExitCode(verdict) /\ Meant(request) /\ IsFirstMatch(request, verdict)

=============================================================================
