--------------------------- MODULE SettingsStore ---------------------------
(* The operator's settings: three layers (defaults, environment, file), the   *)
(* patches the window sends, the file that keeps them, and the AppConfig that *)
(* the running program was given and that a save changes in place.            *)
(*                                                                            *)
(* A field is what its validator makes of it, its kind.  Values are names:    *)
(* "v0" is the default of a field that has one and "v1" another good value;   *)
(* "blank", "spaces" and "null" are what a form or a hand can leave in place  *)
(* of one; "bad" is out of the kind's range and "junk" is not even of its     *)
(* type.                                                                      *)
EXTENDS Naturals, FiniteSets

CONSTANT Fields        \* the fields that vary

VARIABLES
    env,               \* what the environment says of each field
    base,              \* defaults and environment, as the last start resolved them
    settings,          \* the settings in force
    file,              \* settings.json: {} or the snapshot it holds
    damaged,           \* somebody's edit left the file unreadable
    conf,              \* the AppConfig the sockets and the Autopilot are built from
    up,                \* the program runs
    told               \* what the window was answered last

storeVars == <<env, base, settings, file, damaged, conf, up, told>>

Kind == [region |-> "enum", speechModel |-> "required", mode |-> "enum", keyterms |-> "list",
         languageCodes |-> "list", vadThreshold |-> "fraction", minTurnSilence |-> "silence",
         maxTurnSilence |-> "silence", sessionHeartbeat |-> "switch",
         agentEnabled |-> "switch", agentId |-> "uuid", agentVoice |-> "enum",
         agentGreeting |-> "text", agentPrompt |-> "text",
         llmApiKey |-> "secret", llmModel |-> "text", llmBaseUrl |-> "url",
         llmPrompt |-> "text", llmGreeting |-> "text",
         ttsProvider |-> "enum", ttsApiKey |-> "secret", ttsModel |-> "text",
         ttsVoice |-> "text", ttsBaseUrl |-> "url",
         captureSource |-> "enum", injectSink |-> "text",
         autoStart |-> "switch", maxCallMs |-> "ms", stallMs |-> "ms",
         countryCode |-> "code", healthPort |-> "port"]

ASSUME FieldsKnown == Fields \subseteq DOMAIN Kind

Nullable == {"fraction", "silence", "port"}
Blankable == {"text", "url", "code", "uuid", "list", "secret"}

Defaults ==
    [f \in Fields |-> CASE Kind[f] \in Nullable -> "null"
                        [] Kind[f] \in Blankable -> "blank"
                        [] OTHER -> "v0"]

----------------------------------------------------------------------------
(* Validation *)

\* Number("  ") is 0: spaces are a threshold of 0, and out of range everywhere else.
Parsed(kind, raw) ==
    CASE raw \in {"v0", "v1"} -> raw
      [] raw = "null" /\ kind \in Nullable \cup {"secret"} -> "null"
      [] raw = "blank" /\ kind \in Nullable -> "null"
      [] raw \in {"blank", "spaces"} /\ kind \in Blankable -> "blank"
      [] raw \in {"spaces", "zero"} /\ kind = "fraction" -> "zero"
      [] OTHER -> "rejected"

ParsePatch(raw) == [f \in Fields |-> IF raw[f] = "absent" THEN "absent" ELSE Parsed(Kind[f], raw[f])]

Valid(patch) == \A f \in Fields : patch[f] # "rejected"

Lenient == Nullable

\* A tuning variable that makes no sense says nothing; a duration that is no number does, too.
FromEnv(kind, e) ==
    IF e = "unset" \/ (e = "bad" /\ kind \in Lenient) \/ (e = "junk" /\ kind \in Lenient \cup {"ms"})
    THEN "absent" ELSE e

SettingsFromEnv(e) == [f \in Fields |-> FromEnv(Kind[f], e[f])]

----------------------------------------------------------------------------
(* The layers *)

MergeSecret(kept, incoming) ==
    CASE incoming = "blank" -> kept
      [] incoming = "null" -> "blank"
      [] OTHER -> incoming

MergeLayer_LikePatch(below, layer) ==
    [f \in Fields |-> CASE layer[f] = "absent" -> below[f]
                        [] layer[f] # "absent" /\ Kind[f] = "secret" -> MergeSecret(below[f], layer[f])
                        [] OTHER -> layer[f]]

MergeLayer(below, layer) ==
    [f \in Fields |-> CASE layer[f] = "absent" -> below[f]
                        [] Kind[f] = "secret" /\ layer[f] = "null" -> "blank"
                        [] OTHER -> layer[f]]

ApplyPatch(current, patch) ==
    [f \in Fields |-> CASE patch[f] = "absent" -> current[f]
                        [] patch[f] # "absent" /\ Kind[f] = "secret" -> MergeSecret(current[f], patch[f])
                        [] OTHER -> patch[f]]

Baseline(e) ==
    LET layer == ParsePatch(SettingsFromEnv(e))
    IN IF Valid(layer) THEN MergeLayer(Defaults, layer) ELSE Defaults

\* A file that is missing or unreadable leaves the program on the lower layers.
Load(below) ==
    IF damaged \/ file = {} THEN below
    ELSE LET layer == ParsePatch(CHOOSE s \in file : TRUE)
         IN IF Valid(layer) THEN MergeLayer(below, layer) ELSE below

----------------------------------------------------------------------------
(* The program's configuration *)

\* "absent" is not sent on the socket, where "" and null would be refused.
AbsentWhenUnset ==
    {"languageCodes", "vadThreshold", "minTurnSilence", "maxTurnSilence", "sessionHeartbeat",
     "agentId", "agentGreeting", "agentPrompt", "llmApiKey", "ttsApiKey"}

ConfFields ==
    Fields \cap (AbsentWhenUnset \cup {"region", "speechModel", "agentEnabled", "agentVoice",
                                       "llmModel", "ttsModel"})

BuildAppConfig(s) ==
    [f \in ConfFields |->
        IF f \in AbsentWhenUnset
           /\ (s[f] \in {"null", "blank"} \/ (Kind[f] = "switch" /\ s[f] = "v0"))
        THEN "absent" ELSE s[f]]

\* The fields that are landed one by one; the rest of the section is Object.assign'ed.
Landed == DOMAIN Kind \ {"region", "speechModel"}

ApplyConfig(old, s) ==
    LET merged == BuildAppConfig(s)
    IN [f \in ConfFields |-> IF f \in Landed \/ merged[f] # "absent" THEN merged[f] ELSE old[f]]

----------------------------------------------------------------------------
\* At most two variables of the environment say anything.
Environments ==
    {[f \in Fields |-> IF f = g THEN a ELSE IF f = h THEN b ELSE "unset"] :
        g \in Fields, h \in Fields, a \in {"v1"}, b \in {"unset", "v1", "bad", "junk"}}

StoreInit ==
    /\ env \in Environments
    /\ base = Defaults /\ settings = Defaults
    /\ file = {} /\ damaged = FALSE
    /\ conf = BuildAppConfig(Defaults)
    /\ up = FALSE /\ told = "nothing"

Boot ==
    /\ ~up
    /\ up' = TRUE
    /\ base' = Baseline(env)
    /\ settings' = Load(Baseline(env))
    /\ conf' = BuildAppConfig(Load(Baseline(env)))
    /\ told' = "nothing"
    /\ UNCHANGED <<env, file, damaged>>

Adopt(next) ==
    /\ file' = {next} /\ damaged' = FALSE
    /\ settings' = next
    /\ conf' = ApplyConfig(conf, next)
    /\ told' = "saved"
    /\ UNCHANGED <<env, base, up>>

Refuse(answer) == told' = answer /\ UNCHANGED <<env, base, settings, file, damaged, conf, up>>

\* The untouched form: every key reads as "", and the tuning fields are not in it.
NotInForm == {"languageCodes", "vadThreshold", "minTurnSilence", "maxTurnSilence", "sessionHeartbeat"}
UntouchedForm(s) ==
    [f \in Fields |-> CASE f \in NotInForm -> "absent"
                        [] Kind[f] = "secret" -> "blank"
                        [] OTHER -> s[f]]

Typed == {"null", "blank", "spaces", "v0", "v1", "bad"}

\* A form with one field changed, or a patch of that field alone.
Patches(s) ==
    {[UntouchedForm(s) EXCEPT ![f] = raw] : f \in Fields, raw \in Typed}
        \cup {[g \in Fields |-> IF g = f THEN raw ELSE "absent"] : f \in Fields, raw \in Typed}

Save(raw) ==
    /\ up
    /\ IF Valid(ParsePatch(raw)) THEN Adopt(ApplyPatch(settings, ParsePatch(raw)))
       ELSE Refuse("invalid")

ResetSettings == up /\ Adopt(base)

\* The temporary file cannot be written or renamed.
WriteFails == up /\ told # "not written" /\ Refuse("not written")

\* The rename is the only step a crash can come before or after.
CrashWhileSaving(raw) ==
    /\ up /\ Valid(ParsePatch(raw))
    /\ \/ UNCHANGED <<file, damaged>>
       \/ file' = {ApplyPatch(settings, ParsePatch(raw))} /\ damaged' = FALSE
    /\ up' = FALSE /\ told' = "nothing"
    /\ base' = Defaults /\ settings' = Defaults /\ conf' = BuildAppConfig(Defaults)
    /\ UNCHANGED env

EditEnvironment ==
    /\ ~up
    /\ env' \in Environments
    /\ UNCHANGED <<base, settings, file, damaged, conf, up, told>>

DamageFile ==
    /\ ~up /\ file # {} /\ ~damaged
    /\ damaged' = TRUE
    /\ UNCHANGED <<env, base, settings, file, conf, up, told>>

StoreNext ==
    \/ Boot \/ ResetSettings \/ WriteFails \/ DamageFile \/ EditEnvironment
    \/ \E raw \in Patches(settings) : Save(raw) \/ CrashWhileSaving(raw)

StoreSpec == StoreInit /\ [][StoreNext]_storeVars

----------------------------------------------------------------------------
(* Properties *)

\* What the program runs on after a restart is what the file was last given, whatever the
\* environment says by then: a key cleared in the window is not brought back by .env, and nothing
\* the store writes is refused when it is read (mergeLayer, parseSettingsPatch, settings.ts:402).
RestartKeeps == up /\ file # {} /\ ~damaged => file = {settings}

\* "Saved" is said only of settings that would survive a crash at that moment (settings.ts:646-651:
\* the file is written before the settings are adopted).
SavedIsDurable == up /\ told = "saved" => file = {settings} /\ ~damaged

\* Saving a form nobody touched changes nothing, whatever is stored: no key is wiped, no tuning
\* field is reset, no value is refused (settings.ts:340, settingsPatch.ts:63).
UntouchedFormIsIdentity ==
    up => /\ Valid(ParsePatch(UntouchedForm(settings)))
          /\ ApplyPatch(settings, ParsePatch(UntouchedForm(settings))) = settings

\* The configuration changed in place, save after save, is the one a restart would build: a value
\* that was cleared does not stay on the socket (runtime.ts:470).
InPlaceIsFresh == up => conf = BuildAppConfig(settings)

\* A tuning variable that makes no sense costs the environment nothing but itself: the other
\* variables still count (settings.ts:1319, :1337, :1347).
TuningNeverCostsTheLayer ==
    up /\ (\A f \in Fields : env[f] \in {"bad", "junk"} => Kind[f] \in Nullable)
       => \A f \in Fields : env[f] = "v1" => base[f] = "v1"
=============================================================================
