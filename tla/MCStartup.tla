------------------------------ MODULE MCStartup ------------------------------
(* The command lines and configuration files on which TLC runs Startup.    *)
EXTENDS Startup

CONSTANT MaxPattern     \* the longest pattern tried

\* The values tried for each field, next to its default.
Values ==
    [target |-> {"", " "}, state_file |-> {" "},
     logging |-> {FALSE}, level |-> {"debug", "trace"}, format |-> {"json", "xml"},
     configure_mode |-> {"real", "other"}, actions_mode |-> {"real", "other"},
     enabled |-> {{}, {"trace", "reboot"}},
     servers |-> {<<>>, <<" ">>, <<" ", "nats://controller">>},
     retry_on_failed_connect |-> {TRUE},
     max_reconnects |-> {-2, 0}, reconnect_buf_size |-> {-1},
     result_pattern |-> {<<>>, DefaultActionPattern},
     status_pattern |-> {<<>>}, health_pattern |-> {<<>>, <<"%", "s", ">">>},
     bucket |-> {" "}, history |-> {0, 64, 65}, max_value_size |-> {-1},
     storage |-> {"memory", "disk"}, replicas |-> {0},
     publish_attempts |-> {0, 2}, handler_mode |-> {"async"}]
        @@ [f \in DurationFields |-> {"0s", "soon"}]
        @@ [ttl |-> {"0s", "-1s", "soon"}]

\* The files that set one or two fields.
Edits ==
    UNION {{(f :> v) @@ (g :> w) : v \in Values[f], w \in Values[g]} :
               f, g \in DOMAIN Values}

Characters == {"%", "s", ".", "*", " "}

Patterns == UNION {[1 .. n -> Characters] : n \in 0 .. MaxPattern}

\* The files that set one pattern.
PatternEdits ==
    {f :> p : f \in {"configure_pattern", "action_pattern", "key_pattern"},
              p \in Patterns}

Yaml(fields) == [kind |-> "yaml", fields |-> fields]

NoFields == [f \in {} |-> ""]

MissingFile == [kind |-> "missing", fields |-> NoFields]

MalformedFile == [kind |-> "malformed", fields |-> NoFields]

CommandLine(form, config, validate) ==
    [form |-> form, config |-> config, validate |-> validate]

\* One file, named on the command line.
OneFile ==
    {[args |-> CommandLine("options", "flag", FALSE), env |-> "",
      disk |-> [flag |-> Yaml(fields), env |-> MissingFile,
                default |-> MissingFile]] :
        fields \in Edits \cup PatternEdits}

\* Every command line, with a usable or an unusable file at each path.
SomeFiles ==
    {Yaml(NoFields), Yaml("target" :> " "), MissingFile, MalformedFile}

ManyPaths ==
    [args : {CommandLine(form, config, validate) :
                form \in {"options", "help", "unknown flag", "positional"},
                config \in {"", "flag"}, validate \in BOOLEAN},
     env : {"", "env"},
     disk : [flag : SomeFiles, env : SomeFiles, default : SomeFiles]]

MCScenarios == OneFile \cup ManyPaths
=============================================================================
