---------------------------- MODULE StartupProofs ----------------------------
(***************************************************************************)
(* Proofs about Startup, for any command lines and any files: what         *)
(* Validate accepts starts, and its patterns format into subjects.         *)
(***************************************************************************)
EXTENDS Startup, TLAPS

-----------------------------------------------------------------------------
(* The configuration                                                       *)

\* Whatever the file holds, the configuration read from it has the fields of AppConfig.
LEMMA DecodedFields ==
    ASSUME NEW fields
    PROVE  DOMAIN Decode(fields) = DOMAIN DefaultAppConfig
  BY DEF Decode

\* AppConfig has a target, and it is no duration.
LEMMA TargetIsAField ==
    /\ "target" \in DOMAIN DefaultAppConfig
    /\ "target" \notin DurationFields /\ "target" # "ttl"
  BY DEF DefaultAppConfig, DurationFields

\* Validate makes every later test of the configuration hold.
LEMMA ValidatedIsUsable ==
    ASSUME NEW c, Validate(c)
    PROVE  /\ Converts(c)
           /\ LoggerSupports(c)
           /\ EnginesSupport(c)
           /\ c.enabled \subseteq Executors
           /\ ~IsBlank(c.target)
<1>1. Converts(c)
  BY DEF Validate, ValidDurations, Converts
<1>2. LoggerSupports(c) /\ EnginesSupport(c)
  BY DEF Validate, ValidAgent, LoggerSupports, EnginesSupport
<1>3. c.enabled \subseteq Executors /\ ~IsBlank(c.target)
  BY DEF Validate, ValidAgent, Executors
<1> QED
  BY <1>1, <1>2, <1>3

\* The conversion keeps the target.
LEMMA ConversionKeepsTarget ==
    ASSUME NEW c, DOMAIN c = DOMAIN DefaultAppConfig
    PROVE  ToAgentCoreConfig(c).target = c.target
  BY TargetIsAField DEF ToAgentCoreConfig

\* What Validate's scan of a pattern accepts, Go's formatting takes without a mark: every
\* "%" starts a directive, and all of them are placeholders.
LEMMA ScannedPatternFormats ==
    ASSUME NEW pattern, NEW n \in Nat, validateFormatPlaceholders(pattern, n)
    PROVE  Formats(pattern, n)
<1> DEFINE percents == {i \in DOMAIN pattern : pattern[i] = "%"}
<1>1. /\ \A i \in percents : i + 1 \in DOMAIN pattern /\ pattern[i + 1] = "s"
      /\ Cardinality(percents) = n
  BY DEF validateFormatPlaceholders, Placeholders
<1>2. AreDirectives(percents, pattern)
  <2>1. \A i, d \in percents : d + 1 # i
    BY <1>1
  <2> QED
    BY <2>1 DEF AreDirectives
<1>3. {d \in percents : pattern[d + 1] = "s"} = percents
  BY <1>1
<1> QED
  BY <1>1, <1>2, <1>3 DEF Formats

\* So do the patterns of a validated configuration, and those of subjects hold neither
\* blanks nor wildcards.
LEMMA ValidatedPatterns ==
    ASSUME NEW c, Validate(c)
    PROVE  /\ IsSubject(c.configure_pattern, 1)
           /\ IsSubject(c.action_pattern, 2)
           /\ IsSubject(c.result_pattern, 1)
           /\ IsSubject(c.status_pattern, 1)
           /\ IsSubject(c.health_pattern, 1)
           /\ Formats(c.key_pattern, 1)
<1>1. ASSUME NEW pattern, NEW n \in Nat, validateSubjectPattern(pattern, n)
      PROVE  IsSubject(pattern, n)
  BY <1>1, ScannedPatternFormats DEF validateSubjectPattern, IsSubject
<1>2. ValidSubjects(c) /\ validateKeyPattern(c.key_pattern)
  BY DEF Validate, ValidKV
<1> QED
  BY <1>1, <1>2, ScannedPatternFormats DEF ValidSubjects, validateKeyPattern

\* The conversion keeps the patterns.
LEMMA ConversionKeepsPatterns ==
    ASSUME NEW c, DOMAIN c = DOMAIN DefaultAppConfig,
           NEW f \in {"configure_pattern", "action_pattern", "result_pattern",
                      "status_pattern", "health_pattern", "key_pattern"}
    PROVE  ToAgentCoreConfig(c)[f] = c[f]
<1>1. f \in DOMAIN DefaultAppConfig
  BY DEF DefaultAppConfig
<1>2. f \notin DurationFields /\ f # "ttl"
  BY DEF DurationFields
<1> QED
  BY <1>1, <1>2 DEF ToAgentCoreConfig

-----------------------------------------------------------------------------
(* The inductive invariant                                                 *)

\* The command ends with an exit code, and blames a call exactly when it fails.
ExitInv ==
    /\ stage \in {"parse", "load", "convert", "validated", "logger", "new", "run", "done"}
    /\ exit \in {Running, 0, 1, 2}
    /\ (stage = "done") = (exit # Running)
    /\ (exit \in {1, 2}) = (failed # "nothing")

\* Nothing is made before the configuration is accepted, and only from it.
ConfigInv ==
    /\ cfg # None => Validate(cfg) /\ DOMAIN cfg = DOMAIN DefaultAppConfig
    /\ core # None => cfg # None /\ core = ToAgentCoreConfig(cfg)
    /\ stage \in {"parse", "load"} => cfg = None
    /\ stage \in {"convert", "validated", "logger", "new", "run"} => cfg # None
    /\ stage \in {"parse", "load", "convert"} => core = None
    /\ stage \in {"validated", "logger", "new", "run"} => core # None
    /\ runtime # None =>
          /\ core # None /\ stage \in {"run", "done"}
          /\ runtime.core = core /\ runtime.enabled = cfg.enabled
          /\ runtime.executors = Executors

\* No later step finds fault with what Validate accepted.
BlameInv == failed \notin {"convert", "logger", "engines"}

IInv == ExitInv /\ ConfigInv /\ BlameInv

\* A configuration, converted or not, is not the absence of one.
LEMMA ConfigIsSomething ==
    ASSUME NEW c, DOMAIN c = DOMAIN DefaultAppConfig
    PROVE  c # None /\ ToAgentCoreConfig(c) # None
<1>1. "target" \notin DOMAIN None
  BY DEF None
<1>2. DOMAIN ToAgentCoreConfig(c) = DOMAIN c
  BY DEF ToAgentCoreConfig
<1> QED
  BY <1>1, <1>2, TargetIsAField

\* The inductive invariant holds initially.
LEMMA IInvInit == Init => IInv
  BY DEF Init, IInv, ExitInv, ConfigInv, BlameInv, Running

\* Every call keeps it: none after Load can fail because of the file.
LEMMA IInvStep == IInv /\ [Next]_vars => IInv'
<1> SUFFICES ASSUME IInv, [Next]_vars PROVE IInv'
  OBVIOUS
<1> USE DEF IInv, ExitInv, ConfigInv, BlameInv, Running
<1>1. CASE ParseArgs
  <2>1. UNCHANGED <<cfg, core, runtime>> /\ stage = "parse"
    BY <1>1 DEF ParseArgs
  <2>2. Goto("load") \/ Exit(0, "nothing") \/ Exit(2, "parse")
    BY <1>1 DEF ParseArgs
  <2>3. CASE Goto("load")
    BY <2>1, <2>3 DEF Goto
  <2>4. CASE Exit(0, "nothing")
    BY <2>1, <2>4 DEF Exit
  <2>5. CASE Exit(2, "parse")
    BY <2>1, <2>5 DEF Exit
  <2> QED
    BY <2>2, <2>3, <2>4, <2>5
<1>2. CASE Load
  <2> DEFINE file == disk[ResolvePath(args.config)]
             c == Decode(file.fields)
  <2>1. /\ UNCHANGED <<core, runtime>> /\ stage = "load"
        /\ cfg = None /\ core = None /\ runtime = None
    BY <1>2 DEF Load
  <2>2. \/ UNCHANGED cfg /\ (Exit(1, "load") \/ Exit(1, "validate"))
        \/ Validate(c) /\ cfg' = c /\ Goto("convert")
    BY <1>2 DEF Load
  <2>3. DOMAIN c = DOMAIN DefaultAppConfig /\ c # None
    BY DecodedFields, ConfigIsSomething
  <2> HIDE DEF c
  <2>4. CASE UNCHANGED cfg /\ (Exit(1, "load") \/ Exit(1, "validate"))
    BY <2>1, <2>4 DEF Exit
  <2>5. CASE Validate(c) /\ cfg' = c /\ Goto("convert")
    BY <2>1, <2>3, <2>5 DEF Goto
  <2> QED
    BY <2>2, <2>4, <2>5
<1>3. CASE Convert
  <2>1. Converts(cfg) /\ ToAgentCoreConfig(cfg) # None
    BY <1>3, ValidatedIsUsable, ConfigIsSomething DEF Convert
  <2> QED
    BY <1>3, <2>1 DEF Convert, Goto
<1>4. CASE Validated
  BY <1>4 DEF Validated, Goto, Exit
<1>5. CASE MakeLogger
  <2>1. LoggerSupports(cfg)
    BY <1>5, ValidatedIsUsable DEF MakeLogger
  <2> QED
    BY <1>5, <2>1 DEF MakeLogger, Goto
<1>6. CASE NewFails
  BY <1>6 DEF NewFails, Exit
<1>7. CASE New
  <2>1. EnginesSupport(cfg)
    BY <1>7, ValidatedIsUsable DEF New
  <2> QED
    BY <1>7, <2>1 DEF New, Goto
<1>8. CASE Run
  BY <1>8 DEF Run, Exit
<1>9. CASE UNCHANGED vars
  BY <1>9 DEF vars
<1> QED
  BY <1>1, <1>2, <1>3, <1>4, <1>5, <1>6, <1>7, <1>8, <1>9 DEF Next

-----------------------------------------------------------------------------
(* The theorems                                                            *)

\* Everything the command makes is made from one accepted configuration.
THEOREM InvariantHolds == Spec => []IInv
  BY IInvInit, IInvStep, PTL DEF Spec

\* Every variable keeps to its values in every state.
THEOREM TypeCorrect == Spec => []TypeOK
<1>1. IInv => TypeOK
  BY DEF IInv, ExitInv, ConfigInv, TypeOK
<1> QED
  BY InvariantHolds, <1>1, PTL

\* A configuration that Validate accepts is refused neither by the conversion nor by
\* the logger nor by the choice of the engines, and the runtime built from it has an
\* executor for every enabled action and a target that is not blank.
THEOREM AcceptedConfigsStart == Spec => []AcceptedConfigStarts
<1>1. IInv => AcceptedConfigStarts
  <2> SUFFICES ASSUME IInv, runtime # None
               PROVE  /\ runtime.enabled \subseteq runtime.executors
                      /\ ~IsBlank(runtime.core.target)
    BY DEF IInv, BlameInv, AcceptedConfigStarts
  <2>1. /\ Validate(cfg) /\ DOMAIN cfg = DOMAIN DefaultAppConfig
        /\ core = ToAgentCoreConfig(cfg) /\ runtime.core = core
        /\ runtime.enabled = cfg.enabled /\ runtime.executors = Executors
    BY DEF IInv, ConfigInv
  <2> QED
    BY <2>1, ValidatedIsUsable, ConversionKeepsTarget
<1> QED
  BY InvariantHolds, <1>1, PTL

\* The patterns of a runtime make subjects and keys that name exactly the target: for every
\* file, what Validate's scan of the characters accepts formats without a mark, a blank
\* or a wildcard.
THEOREM SubjectsAreWellFormed == Spec => []SubjectsWellFormed
<1>1. IInv => SubjectsWellFormed
  <2> SUFFICES ASSUME IInv, runtime # None PROVE SubjectsWellFormed
    BY DEF SubjectsWellFormed
  <2>1. /\ Validate(cfg) /\ DOMAIN cfg = DOMAIN DefaultAppConfig
        /\ runtime.core = ToAgentCoreConfig(cfg)
    BY DEF IInv, ConfigInv
  <2>2. /\ runtime.core.configure_pattern = cfg.configure_pattern
        /\ runtime.core.action_pattern = cfg.action_pattern
        /\ runtime.core.result_pattern = cfg.result_pattern
        /\ runtime.core.status_pattern = cfg.status_pattern
        /\ runtime.core.health_pattern = cfg.health_pattern
        /\ runtime.core.key_pattern = cfg.key_pattern
    BY <2>1, ConversionKeepsPatterns
  <2> QED
    BY <2>1, <2>2, ValidatedPatterns DEF SubjectsWellFormed
<1> QED
  BY InvariantHolds, <1>1, PTL

=============================================================================
