------------------------------ MODULE Startup ------------------------------
(***************************************************************************)
(* The command vyos-nats-agent, from its arguments to the moment it hands  *)
(* over to Runtime.Run (cmd/vyos-nats-agent/main.go): which configuration  *)
(* file it reads, the defaults under it, Validate, the conversion to       *)
(* agentcore.Config, --validate-config, the logger and agent.New.  What is *)
(* printed on the way (usage, errors, the redacted configuration) is left  *)
(* out.                                                                    *)
(*                                                                         *)
(* A configuration is a record of its YAML fields.  A value is abstracted  *)
(* to the classes the code tells apart: a string is empty, blank (" ") or  *)
(* not, a duration is a string of DOMAIN Parsed, missing from it when it   *)
(* is malformed, and a pattern is a sequence of characters, since          *)
(* Validate reads patterns character by character.                         *)
(***************************************************************************)
EXTENDS Integers, Sequences, SequencesExt, TLC

CONSTANTS
    Scenarios   \* the command lines tried, each with the files on the disk

VARIABLES
    args,       \* the command line
    env,        \* VYOS_NATS_AGENT_CONFIG
    disk,       \* what each path holds
    stage,      \* the call that runConfigCLI makes next
    cfg,        \* the effective configuration, None before it is accepted
    core,       \* the agentcore.Config made from it
    runtime,    \* the runtime built by agent.New
    exit,       \* the exit code, Running before there is one
    failed      \* the call whose error ended the command

vars == <<args, env, disk, stage, cfg, core, runtime, exit, failed>>

None == [none |-> TRUE]
Running == -1

IsBlank(s) == s \in {"", " "}

-----------------------------------------------------------------------------
(* Defaults, and the file read over them.                                  *)

DurationFields ==
    {"connect_timeout", "reconnect_wait", "default_timeout", "publish_timeout",
     "subscribe_timeout", "kv_timeout", "shutdown_timeout",
     "handler_warn_after", "publish_backoff"}

\* The literal text of the default patterns is shortened to one dot.
DefaultPattern == <<".", "%", "s">>
DefaultActionPattern == <<".", "%", "s", ".", "%", "s">>

DefaultAppConfig ==
    [target |-> "vyos", state_file |-> "state.json",
     logging |-> TRUE, level |-> "info", format |-> "text",
     configure_mode |-> "placeholder", save_after_commit |-> FALSE,
     actions_mode |-> "placeholder", enabled |-> {"trace"},
     servers |-> <<"nats://127.0.0.1:4222">>,
     retry_on_failed_connect |-> FALSE,
     max_reconnects |-> -1, reconnect_buf_size |-> 0,
     configure_pattern |-> DefaultPattern,
     action_pattern |-> DefaultActionPattern,
     result_pattern |-> DefaultPattern, status_pattern |-> DefaultPattern,
     health_pattern |-> DefaultPattern,
     bucket |-> "cfg_desired", key_pattern |-> DefaultPattern,
     history |-> 1, max_value_size |-> 0, storage |-> "file", replicas |-> 1,
     ttl |-> "", publish_attempts |-> 1, handler_mode |-> "sync",
     connect_timeout |-> "5s", reconnect_wait |-> "5s", default_timeout |-> "5s",
     publish_timeout |-> "5s", subscribe_timeout |-> "5s", kv_timeout |-> "5s",
     shutdown_timeout |-> "5s", handler_warn_after |-> "5s", publish_backoff |-> "5s"]

\* The decoder writes the fields of the file into the defaults; a field that
\* AppConfig does not have makes a file malformed (KnownFields).
Decode(fields) ==
    [f \in DOMAIN DefaultAppConfig |->
        IF f \in DOMAIN fields THEN fields[f] ELSE DefaultAppConfig[f]]

ResolvePath(flagPath) ==
    IF flagPath # "" THEN flagPath
    ELSE IF env # "" THEN env
    ELSE "default"

-----------------------------------------------------------------------------
(* Validate.                                                               *)

Spaces == {" "}
Wildcards == {"*", ">"}

\* time.ParseDuration, on the strings it accepts.
Parsed == ("-1s" :> -1) @@ ("0s" :> 0) @@ ("5s" :> 5)

ParseError == -1

parseDurationField(raw, optional) ==
    IF IsBlank(raw) THEN IF optional THEN 0 ELSE ParseError
    ELSE IF raw \in DOMAIN Parsed /\ Parsed[raw] >= 0 THEN Parsed[raw]
    ELSE ParseError

\* Mutant: the directives that are not "%s" are passed over.
CountPlaceholders(pattern) ==
    Cardinality({i \in 1 .. Len(pattern) - 1 :
                    pattern[i] = "%" /\ pattern[i + 1] = "s"})

\* The number of placeholders, or -1 if there is any other format directive: the
\* scan resumes behind the "s" of a placeholder, so it passes over no "%".
Placeholders(pattern) ==
    LET percents == {i \in DOMAIN pattern : pattern[i] = "%"}
    IN  IF \A i \in percents : i + 1 \in DOMAIN pattern /\ pattern[i + 1] = "s"
        THEN Cardinality(percents) ELSE -1

validateFormatPlaceholders(pattern, placeholders) ==
    Placeholders(pattern) = placeholders

validateKeyPattern(pattern) ==
    /\ pattern # <<>>
    /\ ToSet(pattern) \cap Spaces = {}
    /\ validateFormatPlaceholders(pattern, 1)

validateSubjectPattern(pattern, placeholders) ==
    /\ pattern # <<>>
    /\ ToSet(pattern) \cap (Spaces \cup Wildcards) = {}
    /\ validateFormatPlaceholders(pattern, placeholders)

ValidAgent(c) ==
    /\ ~IsBlank(c.target)
    /\ ~IsBlank(c.state_file)
    /\ c.level \in {"debug", "info", "warn", "error"}
    /\ c.format \in {"text", "json"}
    /\ c.configure_mode \in {"placeholder", "real"}
    /\ c.actions_mode \in {"placeholder", "real"}
    /\ c.enabled \subseteq {"trace"}

ValidNATS(c) ==
    /\ \E server \in ToSet(c.servers) : ~IsBlank(server)
    /\ ~c.retry_on_failed_connect
    /\ c.max_reconnects >= -1
    /\ c.reconnect_buf_size >= 0

ValidSubjects(c) ==
    /\ validateSubjectPattern(c.configure_pattern, 1)
    /\ validateSubjectPattern(c.action_pattern, 2)
    /\ validateSubjectPattern(c.result_pattern, 1)
    /\ validateSubjectPattern(c.status_pattern, 1)
    /\ validateSubjectPattern(c.health_pattern, 1)

ValidKV(c) ==
    /\ ~IsBlank(c.bucket)
    /\ validateKeyPattern(c.key_pattern)
    /\ c.history \in 1 .. 64
    /\ c.max_value_size >= 0
    /\ c.storage \in {"file", "memory"}
    /\ c.replicas >= 1

\* Mutant: the optional duration is not looked at.
RequiredDurations(c) ==
    \A f \in DurationFields : parseDurationField(c[f], FALSE) # ParseError

ValidDurations(c) ==
    /\ \A f \in DurationFields : parseDurationField(c[f], FALSE) # ParseError
    /\ parseDurationField(c.ttl, TRUE) # ParseError

Validate(c) ==
    /\ ValidAgent(c)
    /\ ValidNATS(c)
    /\ ValidSubjects(c)
    /\ ValidKV(c)
    /\ c.publish_attempts >= 1
    /\ c.handler_mode = "sync"
    /\ ValidDurations(c)

-----------------------------------------------------------------------------
(* What the accepted configuration is turned into.                         *)

\* convert.go parses the durations again, with the same helper, and gives up
\* at the first it cannot parse.
Converts(c) ==
    /\ \A f \in DurationFields : parseDurationField(c[f], FALSE) # ParseError
    /\ parseDurationField(c.ttl, TRUE) # ParseError

ToAgentCoreConfig(c) ==
    [f \in DOMAIN c |->
        IF f \in DurationFields THEN parseDurationField(c[f], FALSE)
        ELSE IF f = "ttl" THEN parseDurationField(c.ttl, TRUE)
        ELSE c[f]]

\* The switches of NewLogger and newConfigureEngines have an error of their own.
LoggerSupports(c) ==
    /\ c.level \in {"debug", "info", "warn", "error"}
    /\ c.format \in {"text", "json"}

EnginesSupport(c) == c.configure_mode \in {"placeholder", "real"}

\* The executors agent.New registers, whatever the mode.
Executors == {"trace"}

-----------------------------------------------------------------------------
(* runConfigCLI.                                                           *)

Init ==
    /\ \E s \in Scenarios :
          /\ args = s.args
          /\ env = s.env
          /\ disk = s.disk
    /\ stage = "parse"
    /\ cfg = None
    /\ core = None
    /\ runtime = None
    /\ exit = Running
    /\ failed = "nothing"

\* Mutant: the error is printed, but the command succeeds.
ExitZero(code, by) ==
    /\ stage' = "done"
    /\ exit' = IF code = 1 THEN 0 ELSE code
    /\ failed' = by
    /\ UNCHANGED <<args, env, disk>>

\* Return with code, because of the error of the call named by.
Exit(code, by) ==
    /\ stage' = "done"
    /\ exit' = code
    /\ failed' = by
    /\ UNCHANGED <<args, env, disk>>

Goto(next) ==
    /\ stage' = next
    /\ UNCHANGED <<args, env, disk, exit, failed>>

ParseArgs ==
    /\ stage = "parse"
    /\ UNCHANGED <<cfg, core, runtime>>
    /\ \/ args.form = "options" /\ Goto("load")
       \/ args.form = "help" /\ Exit(0, "nothing")
       \/ args.form \in {"unknown flag", "positional"} /\ Exit(2, "parse")

\* An empty file is malformed too: the YAML decoder reports the end of input.
Load ==
    /\ stage = "load"
    /\ UNCHANGED <<core, runtime>>
    /\ LET file == disk[ResolvePath(args.config)]
           c == Decode(file.fields)
       IN  \/ /\ file.kind \in {"missing", "malformed"}
              /\ Exit(1, "load")
              /\ UNCHANGED cfg
           \/ /\ file.kind = "yaml"
              /\ ~Validate(c)
              /\ Exit(1, "validate")
              /\ UNCHANGED cfg
           \/ /\ file.kind = "yaml"
              /\ Validate(c)
              /\ cfg' = c
              /\ Goto("convert")

Convert ==
    /\ stage = "convert"
    /\ IF Converts(cfg)
       THEN Goto("validated") /\ core' = ToAgentCoreConfig(cfg)
       ELSE Exit(1, "convert") /\ UNCHANGED core
    /\ UNCHANGED <<cfg, runtime>>

Validated ==
    /\ stage = "validated"
    /\ UNCHANGED <<cfg, core, runtime>>
    /\ \/ args.validate /\ Exit(0, "nothing")
       \/ ~args.validate /\ Goto("logger")

MakeLogger ==
    /\ stage = "logger"
    /\ IF cfg.logging => LoggerSupports(cfg) THEN Goto("new")
       ELSE Exit(1, "logger")
    /\ UNCHANGED <<cfg, core, runtime>>

\* agentcore.New, and the constructors of the real backends, can fail for
\* reasons of their own.
NewFails ==
    /\ stage = "new"
    /\ \/ Exit(1, "agentcore.New")
       \/ cfg.configure_mode = "real" /\ Exit(1, "backend")
    /\ UNCHANGED <<cfg, core, runtime>>

New ==
    /\ stage = "new"
    /\ IF EnginesSupport(cfg)
       THEN /\ runtime' = [core |-> core, enabled |-> cfg.enabled,
                           executors |-> Executors]
            /\ Goto("run")
       ELSE Exit(1, "engines") /\ UNCHANGED runtime
    /\ UNCHANGED <<cfg, core>>

\* Module Runtime is about what happens meanwhile.
Run ==
    /\ stage = "run"
    /\ UNCHANGED <<cfg, core, runtime>>
    /\ Exit(0, "nothing") \/ Exit(1, "run")

Next ==
    \/ ParseArgs
    \/ Load
    \/ Convert
    \/ Validated
    \/ MakeLogger
    \/ NewFails
    \/ New
    \/ Run

Spec == Init /\ [][Next]_vars

-----------------------------------------------------------------------------
(* Properties.                                                             *)

\* Every variable keeps to its values: the exit codes are 0, 1 and 2, an exit
\* code other than 0 has a call to blame, and a runtime has a configuration.
TypeOK ==
    /\ stage \in {"parse", "load", "convert", "validated", "logger", "new",
                  "run", "done"}
    /\ exit \in {Running, 0, 1, 2}
    /\ (stage = "done") = (exit # Running)
    /\ (exit \in {1, 2}) = (failed # "nothing")
    /\ cfg # None => DOMAIN cfg = DOMAIN DefaultAppConfig
    /\ core # None => cfg # None
    /\ runtime # None => core # None

\* What Validate accepts, the rest of the program can use: the conversion, the
\* logger and the choice of the engines have error returns of their own, kept
\* in three other files, and none is taken for a validated configuration.  So
\* after a file that --validate-config calls valid a start fails only in
\* agentcore.New or in reading the file, and the runtime has what its parts
\* need: an executor for every enabled action, and a target that Reconcile
\* does not refuse.
AcceptedConfigStarts ==
    /\ failed \notin {"convert", "logger", "engines"}
    /\ runtime # None =>
          /\ runtime.enabled \subseteq runtime.executors
          /\ ~IsBlank(runtime.core.target)

\* fmt.Sprintf, which agentcore calls on the patterns: a "%" starts a directive
\* unless it is the second character of one.
AreDirectives(D, pattern) ==
    D = {i \in DOMAIN pattern : pattern[i] = "%" /\ \A d \in D : d + 1 # i}

\* Each of so many arguments takes its place, and nothing is marked: Sprintf marks
\* a directive other than "%s" and "%%", and an argument missing or left over.
Formats(pattern, arguments) ==
    \E D \in SUBSET DOMAIN pattern :
        /\ AreDirectives(D, pattern)
        /\ \A d \in D : d + 1 \in DOMAIN pattern /\ pattern[d + 1] \in {"s", "%"}
        /\ Cardinality({d \in D : pattern[d + 1] = "s"}) = arguments

\* No token of the subject is blank, or a wildcard that would subscribe to or
\* publish on the subjects of other targets.
IsSubject(pattern, arguments) ==
    /\ Formats(pattern, arguments)
    /\ ToSet(pattern) \cap (Spaces \cup Wildcards) = {}

\* The patterns a runtime is built with make, of a target (and of an action),
\* subjects and keys that name it once: what Validate's scan of the characters
\* accepts is what the formatting of Go takes without a mark.  This is about the
\* patterns; a target that is itself a wildcard or holds dots is not looked at.
SubjectsWellFormed ==
    runtime # None =>
        /\ IsSubject(runtime.core.configure_pattern, 1)
        /\ IsSubject(runtime.core.action_pattern, 2)
        /\ IsSubject(runtime.core.result_pattern, 1)
        /\ IsSubject(runtime.core.status_pattern, 1)
        /\ IsSubject(runtime.core.health_pattern, 1)
        /\ Formats(runtime.core.key_pattern, 1)
=============================================================================
