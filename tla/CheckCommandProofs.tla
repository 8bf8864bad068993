------------------------- MODULE CheckCommandProofs -------------------------
(***************************************************************************)
(* Proofs about CheckCommand: for any policy, any command line and any     *)
(* reading of numbers, on the engine of PolicyProofs.                      *)
(***************************************************************************)
EXTENDS CheckCommand, PolicyProofs

\* The command line has pairs that can be read.
Readable == ~ Malformed(argv.arg) /\ ~ Malformed(argv.context)

\* The one request that the command asks the engine about.
Asked ==
  [tool |-> argv.tool, agent |-> argv.agent,
   arguments |-> ParseKeyValues(argv.arg), context |-> ParseKeyValues(argv.context)]

\* The engine of a command has that request and answers to it.
AskedInv ==
  argv # None =>
    /\ argv \in CommandLines
    /\ pc = "scan" => request = Asked /\ Readable
    /\ \A answer \in answers :
         /\ request = Asked /\ Readable
         /\ answer[1] = Asked /\ answer[2] \in Verdicts \cup Errors

\* Only a command has an exit code, and it has ended.
ExitInv == exit # None => argv # None /\ pc = "exited"

CommandInv == IInv /\ AskedInv /\ ExitInv /\ ZeroIsAllowed /\ ExitTellsVerdict

-----------------------------------------------------------------------------

\* What _parse_key_values makes of pairs is what they mean: an index that no
\* later pair of its key follows is the last of that key.
LEMMA LastPairCounts ==
  ASSUME NEW pairs \in Seq(Seq(STRING)), ~ Malformed(pairs)
  PROVE  Means(pairs, ParseKeyValues(pairs))
<1>1. SUFFICES ASSUME NEW i \in 1 .. Len(pairs),
                      \A j \in i + 1 .. Len(pairs) : pairs[j][1] # pairs[i][1]
               PROVE  ParseKeyValues(pairs)[pairs[i][1]] = CoerceValue(pairs[i][2])
  BY DEF Means
<1> DEFINE key == pairs[i][1]
<1>2. Len(pairs) \in Nat /\ DOMAIN pairs = 1 .. Len(pairs)
  OBVIOUS
<1>3. i \in IndexesOf(pairs, key) /\ \A j \in IndexesOf(pairs, key) : i >= j
  BY <1>1, <1>2 DEF IndexesOf
<1>4. \A m \in IndexesOf(pairs, key) : (\A j \in IndexesOf(pairs, key) : m >= j) => m = i
  BY <1>1, <1>2, <1>3 DEF IndexesOf
<1>5. Max(IndexesOf(pairs, key)) = i
  BY <1>3, <1>4 DEF Max
<1>6. key \in {pair[1] : pair \in ToSet(pairs)}
  BY <1>1, <1>2 DEF ToSet
<1>7. QED  BY <1>5, <1>6 DEF ParseKeyValues

\* So the request is the one that a readable command line means.
LEMMA AskedIsMeant ==
  ASSUME argv \in CommandLines, Readable
  PROVE  Meant(Asked)
<1>1. argv.arg \in Seq(Seq(STRING)) /\ argv.context \in Seq(Seq(STRING))
  BY CommandAssumption
<1>2. QED  BY <1>1, LastPairCounts DEF Meant, Readable, Asked

-----------------------------------------------------------------------------

\* What a policy and a command line ask for changes with them only.
LEMMA SameQuestion ==
  ASSUME UNCHANGED <<policy, request, argv>>
  PROVE  /\ \A verdict : IsFirstMatch(request, verdict)' <=> IsFirstMatch(request, verdict)
         /\ Meant(request)' <=> Meant(request)
         /\ (WellMade /\ Loadable)' <=> (WellMade /\ Loadable)
<1>1. \A verdict : IsFirstMatch(request, verdict)' <=> IsFirstMatch(request, verdict)
  BY DEF IsFirstMatch, IsFirst, SatisfiedBy, Tests, Rules
<1>2. Meant(request)' <=> Meant(request)
  BY DEF Meant
<1>3. WellMade' <=> WellMade
  BY DEF WellMade, Tests, Rules
<1>4. Loadable' <=> Loadable
  BY DEF Loadable, PatternTests, Rules
<1>5. QED  BY <1>1, <1>2, <1>3, <1>4

\* While a command has no exit code, nothing is claimed of it.
LEMMA NoExitYet == ASSUME exit = None PROVE ZeroIsAllowed /\ ExitTellsVerdict
BY CommandAssumption DEF ZeroIsAllowed, ExitTellsVerdict

\* A step of the engine under a command.
LEMMA EngineKeeps ==
  ASSUME CommandInv, LoadPolicy \/ Ask \/ Scan
  PROVE  CommandInv'
<1>1. /\ argv # None /\ pc # "exited" /\ exit' = None
      /\ UNCHANGED <<argv, policy>>
  <2>1. pc # "exited"
    BY DEF LoadPolicy, Load, Ask, Evaluate, Scan, NextRule, Match, RaiseError, Default, AtRule
  <2>2. UNCHANGED <<argv, policy, exit>>
    BY DEF LoadPolicy, Load, Ask, Evaluate, Scan, NextRule, Match, RaiseError, Default, Give
  <2>3. QED  BY <2>1, <2>2 DEF LoadPolicy, Ask, Scan, CommandInv, ExitInv
<1>2. IInv'
  <2>1. CASE Ask
    BY <2>1, OtherStepsKeep DEF Ask, CommandInv
  <2>2. CASE LoadPolicy \/ Scan
    BY <2>2, NextIInv DEF LoadPolicy, Scan, Next, CommandInv
  <2>3. QED  BY <2>1, <2>2
<1>3. AskedInv'
  <2>1. CASE LoadPolicy
    BY <1>1, <2>1 DEF LoadPolicy, Load, CommandInv, AskedInv, Asked, Readable
  <2>2. CASE Ask
    <3>1. request' = Asked /\ Readable /\ UNCHANGED answers
      BY <2>2 DEF Ask, Evaluate, Asked, Readable
    <3>2. Asked' = Asked /\ Readable' = Readable
      BY <1>1 DEF Asked, Readable
    <3>3. QED  BY <1>1, <3>1, <3>2 DEF CommandInv, AskedInv
  <2>3. CASE Scan
    <3>1. Asked' = Asked /\ Readable' = Readable /\ argv \in CommandLines
      BY <1>1 DEF Asked, Readable, CommandInv, AskedInv
    <3>2. pc = "scan" /\ request' = request /\ request = Asked /\ Readable
      BY <1>1, <2>3
      DEF Scan, NextRule, Match, RaiseError, Default, AtRule, Give, CommandInv, AskedInv
    <3>3. \/ answers' = answers
          \/ \E a \in Verdicts \cup Errors : answers' = answers \cup {<<request, a>>}
      BY <2>3 DEF Scan, NextRule, Match, RaiseError, Default, Give, ParseVerdict, Errors
    <3>4. QED  BY <1>1, <3>1, <3>2, <3>3 DEF CommandInv, AskedInv
  <2>4. QED  BY <2>1, <2>2, <2>3
<1>4. QED
  BY <1>1, <1>2, <1>3, NoExitYet, CommandAssumption
  DEF CommandInv, ExitInv, ZeroIsAllowed, ExitTellsVerdict

\* A command that ends with a code for which the two properties hold.
LEMMA ExitKeeps ==
  ASSUME CommandInv, argv # None, pc' = "exited", NEW code, Exit(code),
         code = 0 => Meant(request) /\ IsFirstMatch(request, "allow"),
         WellMade /\ Loadable /\ request # None =>
           \E verdict \in Verdicts :
             code = ExitCode(verdict) /\ Meant(request) /\ IsFirstMatch(request, verdict)
  PROVE  CommandInv'
<1>1. /\ exit' = code /\ argv' = argv
      /\ UNCHANGED <<policy, patterns, request, rule, answers>>
  BY DEF Exit
<1>2. IInv'
  BY <1>1, SameAnswers DEF CommandInv, IInv, ScanInv
<1>3. AskedInv' /\ ExitInv'
  BY <1>1 DEF CommandInv, AskedInv, ExitInv, Asked, Readable
<1>4. ZeroIsAllowed' /\ ExitTellsVerdict'
  BY <1>1, SameQuestion DEF ZeroIsAllowed, ExitTellsVerdict
<1>5. QED  BY <1>2, <1>3, <1>4 DEF CommandInv

\* The exit code of an answer tells what the engine's answer was.
LEMMA AnswerKeeps ==
  ASSUME CommandInv, Answer
  PROVE  CommandInv'
<1>1. PICK answer \in answers : Exit(ExitCode(answer[2])) /\ argv # None /\ pc' = "exited"
  BY DEF Answer
<1>2. /\ argv \in CommandLines /\ Readable
      /\ request = Asked /\ answer[1] = request
      /\ answer[2] \in Verdicts \cup Errors
  BY <1>1 DEF CommandInv, AskedInv
<1>3. Meant(request)
  BY <1>2, AskedIsMeant
<1>4. answer[2] \notin Errors => IsFirstMatch(request, answer[2])
  BY <1>2 DEF CommandInv, IInv, AnswersAreFirstMatch
<1>5. ExitCode(answer[2]) = 0 => answer[2] = "allow"
  BY <1>2 DEF ExitCode, Verdicts
<1>6. answer[2] = "allow" => answer[2] \notin Errors
  BY DEF Errors
<1>7. WellMade => answer[2] \in Verdicts /\ answer[2] \notin Errors
  BY <1>2 DEF CommandInv, IInv, WellMadeNeverFails
<1>8. ExitCode(answer[2]) = 0 => Meant(request) /\ IsFirstMatch(request, "allow")
  BY <1>3, <1>4, <1>5, <1>6
<1>9. WellMade => \E verdict \in Verdicts :
        /\ ExitCode(answer[2]) = ExitCode(verdict)
        /\ Meant(request) /\ IsFirstMatch(request, verdict)
  BY <1>3, <1>4, <1>7
<1>10. QED  BY <1>1, <1>8, <1>9, ExitKeeps

\* Commands that end before they have asked exit with 1.
LEMMA ErrorKeeps ==
  ASSUME CommandInv, PolicyInvalid \/ BadFormat
  PROVE  CommandInv'
BY ExitKeeps DEF PolicyInvalid, BadFormat

\* Every step keeps the invariant.
LEMMA NextCommandInv == CommandInv /\ [CommandNext]_commandVars => CommandInv'
<1>1. ASSUME CommandInv, Library PROVE CommandInv'
  <2>1. IInv' /\ argv' = None /\ exit' = None
    BY <1>1, NextIInv DEF Library, CommandInv, ExitInv
  <2>2. QED
    BY <2>1, CommandAssumption
    DEF CommandInv, AskedInv, ExitInv, ZeroIsAllowed, ExitTellsVerdict
<1>2. ASSUME CommandInv, UNCHANGED commandVars PROVE CommandInv'
  <2>1. UNCHANGED vars /\ UNCHANGED <<policy, patterns, pc, request, rule, answers, argv, exit>>
    BY <1>2 DEF commandVars, vars
  <2>2. IInv'
    BY <1>2, <2>1, NextIInv DEF CommandInv
  <2>3. AskedInv' /\ ExitInv'
    BY <1>2, <2>1 DEF CommandInv, AskedInv, ExitInv, Asked, Readable
  <2>4. ZeroIsAllowed' /\ ExitTellsVerdict'
    BY <1>2, <2>1, SameQuestion DEF CommandInv, ZeroIsAllowed, ExitTellsVerdict
  <2>5. QED  BY <2>2, <2>3, <2>4 DEF CommandInv
<1>3. QED  BY <1>1, <1>2, EngineKeeps, AnswerKeeps, ErrorKeeps DEF CommandNext

\* The invariant holds in every state of every command.
THEOREM CommandInvariant == CommandSpec => []CommandInv
<1>1. CommandInit => CommandInv
  <2>1. CommandInit => IInv
    BY InitIInv DEF CommandInit
  <2>2. CommandInit => AskedInv /\ ExitInv
    BY DEF CommandInit, Init, AskedInv, ExitInv
  <2>3. CommandInit => ZeroIsAllowed /\ ExitTellsVerdict
    BY NoExitYet DEF CommandInit
  <2>4. QED  BY <2>1, <2>2, <2>3 DEF CommandInv
<1>2. QED  BY <1>1, NextCommandInv, PTL DEF CommandSpec

\* A shell that goes on after exit code 0 does what the first rule that its
\* pairs satisfy allows, for every policy and command line (cli.py, check).
THEOREM ZeroMeansAllowed == CommandSpec => []ZeroIsAllowed
<1>1. CommandInv => ZeroIsAllowed
  BY DEF CommandInv
<1>2. QED  BY <1>1, CommandInvariant, PTL

\* The exit code tells the verdict, unless policy or pairs have a mistake
\* (cli.py, check).
THEOREM ExitTells == CommandSpec => []ExitTellsVerdict
<1>1. CommandInv => ExitTellsVerdict
  BY DEF CommandInv
<1>2. QED  BY <1>1, CommandInvariant, PTL

\* The engine keeps its promises under a command as in a program (policy.py,
\* evaluate).
THEOREM CommandsGetFirstMatch == CommandSpec => [](AnswersAreFirstMatch /\ WellMadeNeverFails)
<1>1. CommandInv => AnswersAreFirstMatch /\ WellMadeNeverFails
  BY DEF CommandInv, IInv
<1>2. QED  BY <1>1, CommandInvariant, PTL

=============================================================================
