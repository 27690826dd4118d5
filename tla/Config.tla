-------------------------------- MODULE Config --------------------------------
(***************************************************************************)
(* The flags a command runs with: PersistentPreRunE and                    *)
(* loadAndApplyConfig (cmd/root.go), Load, validate and FlagValues         *)
(* (internal/config/config.go) and the validation at the head of RunE      *)
(* (cmd/client.go, cmd/pem.go).                                            *)
(*                                                                         *)
(* A value is where it came from, or "bad" for one the validators refuse.  *)
(* One key stands for each kind of key: "output" is known to all three     *)
(* sections and both commands, "connect-timeout" to global, client and the *)
(* client command, "concurrency" to client alone.                          *)
(***************************************************************************)
EXTENDS Naturals, FiniteSets

VARIABLES
    command,    \* "client" or "pem"
    explicit,   \* --config PATH was given
    configDir,  \* os.UserConfigDir knows a directory: HOME or XDG_CONFIG_HOME is set
    configFile, \* what os.ReadFile and the decoder make of the file
    settings,   \* the decoded file: per section and key, a value or "absent"
    cli,        \* the flags set on the command line, "absent" if not
    pc,         \* where the run is
    values,     \* FlagValues: what is left to apply, "absent" when applied
    flags,      \* the values of the command's flags
    result      \* "pending", "running" past all validation, or "error"

configVars ==
    <<command, explicit, configDir, configFile, settings, cli, pc, values, flags, result>>

-----------------------------------------------------------------------------
Keys     == {"output", "connect-timeout", "concurrency"}
Sections == {"global", "client", "pem"}

\* The keys of GlobalSettings, ClientSettings and PemSettings.
SectionKeys(section) ==
    IF section = "client" THEN Keys
    ELSE IF section = "global" THEN {"output", "connect-timeout"}
    ELSE {"output"}

\* The flags the commands define.
CommandKeys(cmd) == IF cmd = "client" THEN Keys ELSE {"output"}

ValueFrom(source) == {"absent", "bad", source}

FileSettings ==
    {s \in [Sections -> [Keys -> {"absent", "bad"} \cup Sections]] :
        \A sec \in Sections, k \in Keys :
            s[sec][k] \in IF k \in SectionKeys(sec) THEN ValueFrom(sec) ELSE {"absent"}}
NoSettings == [sec \in Sections |-> [k \in Keys |-> "absent"]]

\* missing: no such file; unreadable: any other error of ReadFile; invalid: an
\* unknown key, a malformed value or a second document.
File == {"missing", "unreadable", "invalid", "ok"}

ConfigInit ==
    /\ command \in {"client", "pem"}
    /\ explicit \in BOOLEAN /\ configDir \in BOOLEAN
    /\ configFile \in IF explicit \/ configDir THEN File ELSE {"missing"}
    /\ settings \in IF configFile = "ok" THEN FileSettings ELSE {NoSettings}
    /\ cli \in {c \in [Keys -> ValueFrom("cli")] :
                   \A k \in Keys \ CommandKeys(command) : c[k] = "absent"}
    /\ pc = "load"
    /\ values = [k \in Keys |-> "absent"]
    /\ flags = [k \in Keys |-> IF cli[k] = "absent" THEN "default" ELSE cli[k]]
    /\ result = "pending"

\* Mutant: the check of the client's own connect-timeout is forgotten.
ValidButOne ==
    /\ \A sec \in Sections : settings[sec]["output"] # "bad"
    /\ settings["client"]["concurrency"] # "bad"
    /\ settings["global"]["connect-timeout"] # "bad"

\* Settings.validate, check by check.
Valid ==
    /\ \A sec \in Sections : settings[sec]["output"] # "bad"
    /\ settings["client"]["concurrency"] # "bad"
    /\ settings["global"]["connect-timeout"] # "bad"
    /\ settings["client"]["connect-timeout"] # "bad"

\* Mutant: the global section is applied last.
FlagValuesGlobalLast ==
    [k \in Keys |-> IF settings["global"][k] # "absent" THEN settings["global"][k]
                                                        ELSE settings[command][k]]

\* FlagValues: the command's section over the global one, key by key.
FlagValues ==
    [k \in Keys |-> IF settings[command][k] # "absent" THEN settings[command][k]
                                                       ELSE settings["global"][k]]

Reject == pc' = "ended" /\ result' = "error" /\ UNCHANGED <<values, flags>>

\* DefaultPath, unless a path was given, and config.Load return no error.
LoadAccepts ==
    /\ explicit \/ configDir
    /\ \/ configFile = "missing" /\ ~explicit
       \/ configFile = "ok" /\ Valid

\* The head of loadAndApplyConfig, up to FlagValues.
Load ==
    /\ pc = "load"
    /\ IF LoadAccepts
       THEN values' = FlagValues /\ pc' = "apply" /\ UNCHANGED <<flags, result>>
       ELSE Reject
    /\ UNCHANGED <<command, explicit, configDir, configFile, settings, cli>>

\* f.Changed: set on the command line; Value.Set leaves it alone.
Changed(k) == cli[k] # "absent"

\* One turn of the loop over the map, whose order Go leaves open: a flag the
\* command has and the user has not set takes the value.
Apply(k) ==
    /\ pc = "apply"
    /\ values[k] # "absent"
    /\ values' = [values EXCEPT ![k] = "absent"]
    /\ flags' = IF k \in CommandKeys(command) /\ ~Changed(k)
                THEN [flags EXCEPT ![k] = values[k]] ELSE flags
    /\ UNCHANGED <<command, explicit, configDir, configFile, settings, cli, pc, result>>

Applied ==
    /\ pc = "apply"
    /\ \A k \in Keys : values[k] = "absent"
    /\ pc' = "validate"
    /\ UNCHANGED <<command, explicit, configDir, configFile, settings, cli>>
    /\ UNCHANGED <<values, flags, result>>

\* RunE validates its flags before it reads an input or opens a connection.
ValidateFlags ==
    /\ pc = "validate"
    /\ IF \E k \in CommandKeys(command) : flags[k] = "bad"
       THEN Reject
       ELSE pc' = "ended" /\ result' = "running" /\ UNCHANGED <<values, flags>>
    /\ UNCHANGED <<command, explicit, configDir, configFile, settings, cli>>

Ended == pc = "ended" /\ UNCHANGED configVars

ConfigNext == Load \/ (\E k \in Keys : Apply(k)) \/ Applied \/ ValidateFlags \/ Ended

ConfigSpec == ConfigInit /\ [][ConfigNext]_configVars

-----------------------------------------------------------------------------
FlagValue == {"default", "cli", "bad"} \cup Sections

\* README, Configuration: "Precedence is explicit CLI flags, then the command
\* section, then global, then built-in defaults", in whichever order the map of
\* values is walked, and never from the other command's section.
Precedence ==
    result = "running" =>
        \A k \in CommandKeys(command) :
            LET Gives(source) == IF source = "cli" THEN cli[k] # "absent"
                                 ELSE settings[source][k] # "absent"
            IN  flags[k] = IF Gives("cli") THEN "cli"
                           ELSE IF Gives(command) THEN command
                           ELSE IF Gives("global") THEN "global"
                           ELSE "default"

\* README: "A missing default file is allowed; a missing explicitly selected file
\* is an error", and "all supplied values are validated, including settings
\* overridden by CLI flags": a command is refused exactly when something the
\* user supplied is bad, be it for the other command or overridden, whichever of
\* the checks of Settings.validate is the one that has to see it; or when there is
\* no directory to look for the default file in (DefaultPath), with nothing bad.
RefusedExactlyWhenBad ==
    pc = "ended" =>
        (result = "error" <=>
            \/ configFile \in {"unreadable", "invalid"} \/ (configFile = "missing" /\ explicit)
            \/ ~explicit /\ ~configDir
            \/ \E sec \in Sections, k \in Keys : settings[sec][k] = "bad"
            \/ \E k \in Keys : cli[k] = "bad")
=============================================================================
