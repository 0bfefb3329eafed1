-------------------------- MODULE LayeredSettings --------------------------
(***************************************************************************)
(* The layered configuration (src/src/paperless_assistant/config.py):      *)
(* built-in defaults, then the YAML file, then the environment, then the   *)
(* overrides of a run.                                                     *)
(*                                                                         *)
(* A setting has one of three values, so that a default, a value and a     *)
(* different value can be told apart; a block of the file is its keys; a   *)
(* file that cannot be used is "broken" (not YAML, or not a mapping) or    *)
(* "barred" (a secret, or delete_originals, somewhere in it).              *)
(***************************************************************************)
EXTENDS Integers, FiniteSets

CONSTANTS
    Keys,           \* settings
    WithVariable,   \* those an environment variable overrides
    Listed,         \* those of them in ENV_OVERRIDE_KEYS
    EmptyCounts,    \* those whose variable counts even when it is empty
    Editable        \* those the dashboard may write

ASSUME SettingsAssumption ==
    /\ IsFiniteSet(Keys)
    /\ EmptyCounts \subseteq WithVariable /\ Listed \subseteq WithVariable
    /\ WithVariable \subseteq Keys /\ Editable \subseteq Keys

Values == {"default", "on", "off"}
Junk == "junk"                  \* a value that int() or float() refuses
Empty == "empty"
Unset == "unset"

\* Bound: a variable that has a value has this one.
Environments == [WithVariable -> {Unset, Empty, "off"}]

\* The built-in defaults.
Defaults == [k \in Keys |-> "default"]

Overlay(low, high) ==
    [k \in DOMAIN low \cup DOMAIN high |->
        IF k \in DOMAIN high THEN high[k] ELSE low[k]]

NoText == [k \in {} |-> Junk]
Absent == [kind |-> "text", text |-> NoText, moves |-> FALSE]

\* _load_yaml_file and the end of _apply_yaml raise ConfigError.
Refused(file) == file.kind \in {"broken", "barred"}
\* _apply_yaml casts, and the cast raises ValueError.
Uncastable(file) ==
    file.kind = "text" /\ \E k \in DOMAIN file.text : file.text[k] = Junk
Loads(file) == ~Refused(file) /\ ~Uncastable(file)

\* _apply_yaml; it ignores keys it does not know.
ApplyYaml(s, file) == Overlay(s, file.text)

\* Fault: a variable beats the file as soon as it is there.
BeatsIfPresent(env, k) == k \in WithVariable /\ env[k] # Unset

\* _apply_env: most variables count only when they are not empty.
EnvBeats(env, k) ==
    k \in WithVariable /\ env[k] # Unset /\ (env[k] = Empty => k \in EmptyCounts)

\* Fault: what the variable says is taken as it is.
ApplyEnvUncast(s, env) == [k \in Keys |-> IF EnvBeats(env, k) THEN env[k] ELSE s[k]]

ApplyEnv(s, env) ==
    [k \in Keys |-> IF ~EnvBeats(env, k) THEN s[k]
                    ELSE IF env[k] = Empty THEN "off" ELSE env[k]]

\* _apply_overrides.
ApplyOverrides(s, overrides) == Overlay(s, overrides)

\* load_settings, of a file that loads.
Resolve(file, env, overrides) ==
    ApplyOverrides(ApplyEnv(ApplyYaml(Defaults, file), env), overrides)

\* env_overridden_fields: what the dashboard shows as locked.
Locked(env, k) == k \in Listed /\ env[k] \notin {Unset, Empty}

\* A variable that beats the file without being shown as a lock.
Silent(env, k) ==
    \/ k \in EmptyCounts /\ env[k] = Empty
    \/ k \in WithVariable \ Listed /\ env[k] \notin {Unset, Empty}
=============================================================================
