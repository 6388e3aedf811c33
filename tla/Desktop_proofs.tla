---------------------------- MODULE Desktop_proofs -----------------------------
(* The desktop app keeps what it is told, and shows what is.  Each component   *)
(* has its inductive invariant: the settings form, the places the phones'     *)
(* agents are kept in, the life cycle of the runtime, the metrics, the        *)
(* address book and the settings on disk; MCDesktop composes them.            *)
EXTENDS MCDesktop, FiniteSetTheorems, SequenceTheorems, WellFoundedInduction, TLAPS

-----------------------------------------------------------------------------
(* The settings on disk: what is stored is read back as it is *)

Values == {"v0", "v1", "null", "blank", "zero"}

\* What a validated field of this kind can hold.
Kept(kind, v) ==
    \/ v \in {"v0", "v1"}
    \/ v = "null" /\ kind \in Nullable
    \/ v = "blank" /\ kind \in Blankable
    \/ v = "zero" /\ kind = "fraction"

AllKept(s) == s \in [Fields -> Values] /\ \A f \in Fields : Kept(Kind[f], s[f])

\* What a validated patch can say.
PatchFits(p) ==
    /\ p \in [Fields -> Values \cup {"absent"}]
    /\ \A f \in Fields : p[f] = "absent" \/ Kept(Kind[f], p[f]) \/ (Kind[f] = "secret" /\ p[f] = "null")

StoreInv ==
    /\ env \in [Fields -> {"unset", "v1", "bad", "junk"}]
    /\ AllKept(base) /\ AllKept(settings)
    /\ file = {} \/ \E s : AllKept(s) /\ file = {s}
    /\ damaged \in BOOLEAN /\ up \in BOOLEAN
    /\ up => base = Baseline(env)
    /\ RestartKeeps /\ SavedIsDurable /\ InPlaceIsFresh

LEMMA KindsApart ==
    /\ \A kind : kind \in Nullable => kind \notin Blankable /\ kind # "secret"
    /\ "secret" \in Blankable /\ "fraction" \in Nullable
  BY DEF Nullable, Blankable

LEMMA KeptParses ==
    ASSUME NEW kind, NEW v, Kept(kind, v) PROVE Parsed(kind, v) = v /\ v \in Values
<1>1. CASE v \in {"v0", "v1"}
  BY <1>1 DEF Parsed, Values
<1>2. CASE v = "null" /\ kind \in Nullable
  BY <1>2 DEF Parsed, Values
<1>3. CASE v = "blank" /\ kind \in Blankable
  BY <1>3, KindsApart DEF Parsed, Values
<1>4. CASE v = "zero" /\ kind = "fraction"
  BY <1>4 DEF Parsed, Values
<1> QED
  BY <1>1, <1>2, <1>3, <1>4 DEF Kept

LEMMA ParsedIsKept ==
    ASSUME NEW kind, NEW raw, Parsed(kind, raw) # "rejected"
    PROVE  Kept(kind, Parsed(kind, raw)) \/ (kind = "secret" /\ Parsed(kind, raw) = "null")
<1>1. CASE raw \in {"v0", "v1"}
  BY <1>1 DEF Parsed, Kept
<1>2. CASE raw = "null" /\ kind \in Nullable \cup {"secret"}
  BY <1>2 DEF Parsed, Kept
<1>3. CASE raw = "blank" /\ kind \in Nullable
  BY <1>3, KindsApart DEF Parsed, Kept
<1>4. CASE raw \in {"blank", "spaces"} /\ kind \in Blankable
  <2>1. kind \notin Nullable /\ kind # "fraction"
    BY <1>4, KindsApart
  <2> QED
    BY <1>4, <2>1 DEF Parsed, Kept
<1>5. CASE raw \in {"spaces", "zero"} /\ kind = "fraction"
  <2>1. kind \notin Blankable
    BY <1>5, KindsApart
  <2> QED
    BY <1>5, <2>1 DEF Parsed, Kept
<1> QED
  BY <1>1, <1>2, <1>3, <1>4, <1>5 DEF Parsed

LEMMA ParsedPatchFits ==
    ASSUME NEW raw, Valid(ParsePatch(raw)) PROVE PatchFits(ParsePatch(raw))
<1> DEFINE p == ParsePatch(raw)
<1>1. p = [f \in Fields |-> IF raw[f] = "absent" THEN "absent" ELSE Parsed(Kind[f], raw[f])]
  BY DEF ParsePatch
<1>2. \A f \in Fields : p[f] # "rejected"
  BY DEF Valid
<1>3. ASSUME NEW f \in Fields
      PROVE  /\ p[f] \in Values \cup {"absent"}
             /\ p[f] = "absent" \/ Kept(Kind[f], p[f]) \/ (Kind[f] = "secret" /\ p[f] = "null")
  <2> HIDE DEF p
  <2>1. p[f] = "absent" \/ p[f] = Parsed(Kind[f], raw[f])
    BY <1>1
  <2>2. CASE p[f] = "absent"
    BY <2>2
  <2>3. CASE p[f] = Parsed(Kind[f], raw[f])
    <3>1. Kept(Kind[f], p[f]) \/ (Kind[f] = "secret" /\ p[f] = "null")
      BY <1>2, <2>3, ParsedIsKept
    <3>2. p[f] \in Values
      BY <3>1, KeptParses DEF Values
    <3> QED
      BY <3>1, <3>2
  <2> QED
    BY <2>1, <2>2, <2>3
<1> HIDE DEF p
<1>4. p \in [Fields -> Values \cup {"absent"}]
  BY <1>1, <1>3
<1> QED
  BY <1>3, <1>4 DEF PatchFits, p

\* Nothing that is stored is refused, or changed, when it is read.
LEMMA StoredIsRead ==
    ASSUME NEW s, AllKept(s) PROVE ParsePatch(s) = s /\ Valid(s)
<1>0. s \in [Fields -> Values] /\ \A f \in Fields : Kept(Kind[f], s[f])
  BY DEF AllKept
<1>1. \A f \in Fields : s[f] # "absent" /\ s[f] # "rejected"
  BY <1>0 DEF Values
<1>2. \A f \in Fields : Parsed(Kind[f], s[f]) = s[f]
  BY <1>0, KeptParses
<1>3. ParsePatch(s) = [f \in Fields |-> s[f]]
  BY <1>1, <1>2 DEF ParsePatch
<1> QED
  BY <1>0, <1>1, <1>3 DEF Valid

LEMMA LayersFit ==
    ASSUME NEW s, AllKept(s), NEW p, PatchFits(p)
    PROVE  AllKept(MergeLayer(s, p)) /\ AllKept(ApplyPatch(s, p))
<1>0. /\ s \in [Fields -> Values] /\ \A f \in Fields : Kept(Kind[f], s[f])
      /\ \A f \in Fields : /\ p[f] \in Values \cup {"absent"}
                           /\ p[f] = "absent" \/ Kept(Kind[f], p[f]) \/ (Kind[f] = "secret" /\ p[f] = "null")
  BY DEF AllKept, PatchFits
<1>1. Kept("secret", "blank") /\ "blank" \in Values
  BY KindsApart DEF Kept, Values
<1>2. ASSUME NEW f \in Fields
      PROVE  MergeLayer(s, p)[f] \in Values /\ Kept(Kind[f], MergeLayer(s, p)[f])
  <2>1. MergeLayer(s, p)[f] =
           CASE p[f] = "absent" -> s[f]
             [] Kind[f] = "secret" /\ p[f] = "null" -> "blank"
             [] OTHER -> p[f]
    BY DEF MergeLayer
  <2>2. CASE p[f] = "absent"
    <3>1. MergeLayer(s, p)[f] = s[f]
      BY <2>1, <2>2
    <3> QED
      BY <1>0, <3>1
  <2>3. CASE Kind[f] = "secret" /\ p[f] = "null"
    <3>1. MergeLayer(s, p)[f] = "blank"
      BY <2>1, <2>3
    <3> QED
      BY <1>1, <2>3, <3>1
  <2>4. CASE p[f] # "absent" /\ ~(Kind[f] = "secret" /\ p[f] = "null")
    <3>1. MergeLayer(s, p)[f] = p[f]
      BY <2>1, <2>4
    <3> QED
      BY <1>0, <2>4, <3>1
  <2> QED
    BY <2>2, <2>3, <2>4
<1>3. MergeLayer(s, p) \in [Fields -> Values]
  BY <1>2 DEF MergeLayer
<1>4. ASSUME NEW f \in Fields
      PROVE  ApplyPatch(s, p)[f] \in Values /\ Kept(Kind[f], ApplyPatch(s, p)[f])
  <2>1. ApplyPatch(s, p)[f] =
           CASE p[f] = "absent" -> s[f]
             [] p[f] # "absent" /\ Kind[f] = "secret" -> MergeSecret(s[f], p[f])
             [] OTHER -> p[f]
    BY DEF ApplyPatch
  <2>2. CASE p[f] = "absent"
    <3>1. ApplyPatch(s, p)[f] = s[f]
      BY <2>1, <2>2
    <3> QED
      BY <1>0, <3>1
  <2>3. CASE p[f] # "absent" /\ Kind[f] = "secret"
    <3>1. ApplyPatch(s, p)[f] = MergeSecret(s[f], p[f])
      BY <2>1, <2>3
    <3>2. \/ p[f] = "blank" /\ MergeSecret(s[f], p[f]) = s[f]
          \/ p[f] = "null" /\ MergeSecret(s[f], p[f]) = "blank"
          \/ p[f] \notin {"blank", "null"} /\ MergeSecret(s[f], p[f]) = p[f]
      BY DEF MergeSecret
    <3> QED
      BY <1>0, <1>1, <2>3, <3>1, <3>2
  <2>4. CASE p[f] # "absent" /\ Kind[f] # "secret"
    <3>1. ApplyPatch(s, p)[f] = p[f]
      BY <2>1, <2>4
    <3> QED
      BY <1>0, <2>4, <3>1
  <2> QED
    BY <2>2, <2>3, <2>4
<1>5. ApplyPatch(s, p) \in [Fields -> Values]
  BY <1>4 DEF ApplyPatch
<1> QED
  BY <1>2, <1>3, <1>4, <1>5 DEF AllKept

\* A whole snapshot covers whatever is below it.
LEMMA SnapshotCovers ==
    ASSUME NEW s, AllKept(s), NEW below PROVE MergeLayer(below, s) = s
<1>0. s \in [Fields -> Values] /\ \A f \in Fields : Kept(Kind[f], s[f])
  BY DEF AllKept
<1>1. ASSUME NEW f \in Fields PROVE s[f] # "absent" /\ ~(Kind[f] = "secret" /\ s[f] = "null")
  <2>1. s[f] # "absent"
    BY <1>0 DEF Values
  <2>2. Kind[f] = "secret" => s[f] # "null"
    BY <1>0, KindsApart DEF Kept
  <2> QED
    BY <2>1, <2>2
<1>2. MergeLayer(below, s) = [f \in Fields |-> s[f]]
  BY <1>1 DEF MergeLayer
<1> QED
  BY <1>0, <1>2

LEMMA DefaultsFit == AllKept(Defaults)
<1>1. ASSUME NEW f \in Fields PROVE Defaults[f] \in Values /\ Kept(Kind[f], Defaults[f])
  <2>1. Defaults[f] = CASE Kind[f] \in Nullable -> "null"
                        [] Kind[f] \in Blankable -> "blank"
                        [] OTHER -> "v0"
    BY DEF Defaults
  <2>2. CASE Kind[f] \in Nullable
    <3>1. Defaults[f] = "null"
      BY <2>1, <2>2, KindsApart
    <3> QED
      BY <2>2, <3>1 DEF Kept, Values
  <2>3. CASE Kind[f] \in Blankable
    <3>1. Defaults[f] = "blank"
      BY <2>1, <2>3, KindsApart
    <3> QED
      BY <2>3, <3>1 DEF Kept, Values
  <2>4. CASE Kind[f] \notin Nullable /\ Kind[f] \notin Blankable
    <3>1. Defaults[f] = "v0"
      BY <2>1, <2>4
    <3> QED
      BY <3>1 DEF Kept, Values
  <2> QED
    BY <2>2, <2>3, <2>4
<1>2. Defaults \in [Fields -> Values]
  BY <1>1 DEF Defaults
<1> QED
  BY <1>1, <1>2 DEF AllKept

LEMMA BaselineFits ==
    ASSUME NEW e PROVE AllKept(Baseline(e))
<1> DEFINE layer == ParsePatch(SettingsFromEnv(e))
<1>1. Baseline(e) = IF Valid(layer) THEN MergeLayer(Defaults, layer) ELSE Defaults
  BY DEF Baseline
<1>2. Valid(layer) => PatchFits(layer)
  BY ParsedPatchFits
<1> HIDE DEF layer
<1>3. Valid(layer) => AllKept(MergeLayer(Defaults, layer))
  BY <1>2, DefaultsFit, LayersFit
<1> QED
  BY <1>1, <1>3, DefaultsFit

LEMMA LoadIs ==
    ASSUME StoreInv, NEW below
    PROVE  /\ damaged \/ file = {} => Load(below) = below
           /\ ~damaged /\ file # {} => file = {Load(below)} /\ AllKept(Load(below))
<1>1. ASSUME damaged \/ file = {} PROVE Load(below) = below
  BY <1>1 DEF Load
<1>2. ASSUME ~damaged, file # {} PROVE file = {Load(below)} /\ AllKept(Load(below))
  <2>1. PICK s : AllKept(s) /\ file = {s}
    BY <1>2 DEF StoreInv
  <2>2. (CHOOSE x \in file : TRUE) = s
    BY <2>1
  <2>3. ParsePatch(s) = s /\ Valid(s) /\ MergeLayer(below, s) = s
    BY <2>1, StoredIsRead, SnapshotCovers
  <2>4. Load(below) = s
    BY <1>2, <2>2, <2>3 DEF Load
  <2> QED
    BY <2>1, <2>4
<1> QED
  BY <1>1, <1>2

\* Region and speech model are never absent, and all others are landed as they come.
LEMMA ConfigIsFresh ==
    ASSUME NEW s, AllKept(s), NEW old PROVE ApplyConfig(old, s) = BuildAppConfig(s)
<1>0. s \in [Fields -> Values]
  BY DEF AllKept
<1> DEFINE merged == BuildAppConfig(s)
<1>1. merged = [f \in ConfFields |->
                  IF f \in AbsentWhenUnset /\ (s[f] \in {"null", "blank"} \/ (Kind[f] = "switch" /\ s[f] = "v0"))
                  THEN "absent" ELSE s[f]]
  BY DEF BuildAppConfig
<1>2. ASSUME NEW f \in ConfFields PROVE f \in Landed \/ merged[f] # "absent"
  <2>1. f \in Fields /\ f \in DOMAIN Kind
    BY FieldsKnown DEF ConfFields
  <2>2. CASE f \in {"region", "speechModel"}
    <3>1. f \notin AbsentWhenUnset
      BY <2>2 DEF AbsentWhenUnset
    <3>2. merged[f] = s[f]
      BY <1>1, <3>1
    <3> QED
      BY <1>0, <2>1, <3>2 DEF Values
  <2>3. CASE f \notin {"region", "speechModel"}
    BY <2>1, <2>3 DEF Landed
  <2> QED
    BY <2>2, <2>3
<1>3. ApplyConfig(old, s) = [f \in ConfFields |-> IF f \in Landed \/ merged[f] # "absent" THEN merged[f] ELSE old[f]]
  BY DEF ApplyConfig
<1>4. merged = [f \in ConfFields |-> merged[f]]
  BY <1>1
<1> HIDE DEF merged
<1>5. ApplyConfig(old, s) = [f \in ConfFields |-> merged[f]]
  BY <1>2, <1>3
<1> QED
  BY <1>4, <1>5 DEF merged

-----------------------------------------------------------------------------
LEMMA StoreStarts == StoreInit => StoreInv
<1> SUFFICES ASSUME StoreInit PROVE StoreInv
  OBVIOUS
<1>1. env \in [Fields -> {"unset", "v1", "bad", "junk"}]
  BY DEF StoreInit, Environments
<1>2. base = Defaults /\ settings = Defaults /\ file = {} /\ damaged = FALSE /\ up = FALSE
  BY DEF StoreInit
<1>3. AllKept(base) /\ AllKept(settings)
  BY <1>2, DefaultsFit
<1> QED
  BY <1>1, <1>2, <1>3 DEF StoreInv, RestartKeeps, SavedIsDurable, InPlaceIsFresh

LEMMA AdoptKeeps ==
    ASSUME StoreInv, up, NEW next, AllKept(next), Adopt(next) PROVE StoreInv'
<1>1. /\ file' = {next} /\ damaged' = FALSE /\ settings' = next /\ conf' = ApplyConfig(conf, next)
      /\ env' = env /\ base' = base /\ up' = up
  BY DEF Adopt
<1>2. conf' = BuildAppConfig(settings')
  BY <1>1, ConfigIsFresh
<1>3. RestartKeeps' /\ SavedIsDurable' /\ InPlaceIsFresh'
  BY <1>1, <1>2 DEF RestartKeeps, SavedIsDurable, InPlaceIsFresh
<1> QED
  BY <1>1, <1>3 DEF StoreInv

LEMMA RefuseKeeps ==
    ASSUME StoreInv, NEW answer, answer # "saved", Refuse(answer) PROVE StoreInv'
<1>1. told' = answer /\ UNCHANGED <<env, base, settings, file, damaged, conf, up>>
  BY DEF Refuse
<1> QED
  BY <1>1 DEF StoreInv, RestartKeeps, SavedIsDurable, InPlaceIsFresh

LEMMA StoreKeeps == StoreInv /\ [StoreNext]_storeVars => StoreInv'
<1> SUFFICES ASSUME StoreInv, [StoreNext]_storeVars PROVE StoreInv'
  OBVIOUS
<1>0. /\ env \in [Fields -> {"unset", "v1", "bad", "junk"}] /\ AllKept(base) /\ AllKept(settings)
      /\ file = {} \/ \E s : AllKept(s) /\ file = {s}
      /\ damaged \in BOOLEAN /\ up \in BOOLEAN
  BY DEF StoreInv
<1>1. CASE Boot
  <2>1. /\ up' = TRUE /\ base' = Baseline(env) /\ settings' = Load(Baseline(env))
        /\ conf' = BuildAppConfig(Load(Baseline(env))) /\ told' = "nothing"
        /\ env' = env /\ file' = file /\ damaged' = damaged
    BY <1>1 DEF Boot
  <2>2. AllKept(Baseline(env))
    BY BaselineFits
  <2>3. /\ damaged \/ file = {} => settings' = Baseline(env)
        /\ ~damaged /\ file # {} => file = {settings'} /\ AllKept(settings')
    BY <2>1, LoadIs
  <2>4. AllKept(settings')
    BY <1>0, <2>2, <2>3
  <2>5. RestartKeeps' /\ SavedIsDurable' /\ InPlaceIsFresh'
    BY <2>1, <2>3 DEF RestartKeeps, SavedIsDurable, InPlaceIsFresh
  <2> QED
    BY <1>0, <2>1, <2>2, <2>4, <2>5 DEF StoreInv
<1>2. CASE ResetSettings
  BY <1>0, <1>2, AdoptKeeps DEF ResetSettings
<1>3. CASE WriteFails
  BY <1>3, RefuseKeeps DEF WriteFails
<1>4. CASE DamageFile
  <2>1. ~up /\ damaged' = TRUE /\ UNCHANGED <<env, base, settings, file, conf, up, told>>
    BY <1>4 DEF DamageFile
  <2> QED
    BY <1>0, <2>1 DEF StoreInv, RestartKeeps, SavedIsDurable, InPlaceIsFresh
<1>5. CASE EditEnvironment
  <2>1. ~up /\ env' \in Environments /\ UNCHANGED <<base, settings, file, damaged, conf, up, told>>
    BY <1>5 DEF EditEnvironment
  <2>2. env' \in [Fields -> {"unset", "v1", "bad", "junk"}]
    BY <2>1 DEF Environments
  <2> QED
    BY <1>0, <2>1, <2>2 DEF StoreInv, RestartKeeps, SavedIsDurable, InPlaceIsFresh
<1>6. ASSUME NEW raw, Save(raw) PROVE StoreInv'
  <2>1. CASE Valid(ParsePatch(raw))
    <3>1. up /\ Adopt(ApplyPatch(settings, ParsePatch(raw)))
      BY <1>6, <2>1 DEF Save
    <3>2. AllKept(ApplyPatch(settings, ParsePatch(raw)))
      BY <1>0, <2>1, ParsedPatchFits, LayersFit
    <3> QED
      BY <3>1, <3>2, AdoptKeeps
  <2>2. CASE ~Valid(ParsePatch(raw))
    BY <1>6, <2>2, RefuseKeeps DEF Save
  <2> QED
    BY <2>1, <2>2
<1>7. ASSUME NEW raw, CrashWhileSaving(raw) PROVE StoreInv'
  <2>1. /\ Valid(ParsePatch(raw))
        /\ \/ file' = file /\ damaged' = damaged
           \/ file' = {ApplyPatch(settings, ParsePatch(raw))} /\ damaged' = FALSE
        /\ up' = FALSE /\ base' = Defaults /\ settings' = Defaults /\ env' = env
    BY <1>7 DEF CrashWhileSaving
  <2>2. AllKept(ApplyPatch(settings, ParsePatch(raw)))
    BY <1>0, <2>1, ParsedPatchFits, LayersFit
  <2>3. file' = {} \/ \E s : AllKept(s) /\ file' = {s}
    BY <1>0, <2>1, <2>2
  <2>4. damaged' \in BOOLEAN
    BY <1>0, <2>1
  <2> QED
    BY <1>0, <2>1, <2>3, <2>4, DefaultsFit DEF StoreInv, RestartKeeps, SavedIsDurable, InPlaceIsFresh
<1>8. CASE UNCHANGED storeVars
  BY <1>0, <1>8 DEF storeVars, StoreInv, RestartKeeps, SavedIsDurable, InPlaceIsFresh
<1> QED
  BY <1>1, <1>2, <1>3, <1>4, <1>5, <1>6, <1>7, <1>8 DEF StoreNext

\* A form that nobody touched says nothing.
LEMMA NotInFormAreNoSecrets ==
    \A f \in NotInForm : Kind[f] # "secret"
  BY DEF NotInForm, Kind

LEMMA FormSaysNothing ==
    ASSUME NEW s, AllKept(s)
    PROVE  /\ Valid(ParsePatch(UntouchedForm(s)))
           /\ ApplyPatch(s, ParsePatch(UntouchedForm(s))) = s
<1>0. s \in [Fields -> Values] /\ \A f \in Fields : Kept(Kind[f], s[f])
  BY DEF AllKept
<1> DEFINE u == UntouchedForm(s)
           p == ParsePatch(u)
<1>1. u = [f \in Fields |-> CASE f \in NotInForm -> "absent"
                              [] Kind[f] = "secret" -> "blank"
                              [] OTHER -> s[f]]
  BY DEF UntouchedForm
<1>2. p = [f \in Fields |-> IF u[f] = "absent" THEN "absent" ELSE Parsed(Kind[f], u[f])]
  BY DEF ParsePatch
<1> HIDE DEF u, p
<1>3. ASSUME NEW f \in Fields
      PROVE  \/ p[f] = "absent"
             \/ Kind[f] = "secret" /\ p[f] = "blank"
             \/ Kind[f] # "secret" /\ p[f] = s[f] /\ s[f] # "rejected"
  <2>1. CASE f \in NotInForm
    <3>1. u[f] = "absent"
      BY <1>1, <2>1, NotInFormAreNoSecrets
    <3> QED
      BY <1>2, <3>1
  <2>2. CASE f \notin NotInForm /\ Kind[f] = "secret"
    <3>1. u[f] = "blank"
      BY <1>1, <2>2
    <3>2. p[f] = Parsed("secret", "blank")
      BY <1>2, <2>2, <3>1
    <3>3. Parsed("secret", "blank") = "blank"
      BY KindsApart, KeptParses DEF Kept
    <3> QED
      BY <2>2, <3>2, <3>3
  <2>3. CASE f \notin NotInForm /\ Kind[f] # "secret"
    <3>1. u[f] = s[f]
      BY <1>1, <2>3
    <3>2. s[f] # "absent" /\ s[f] # "rejected" /\ Parsed(Kind[f], s[f]) = s[f]
      BY <1>0, KeptParses DEF Values
    <3> QED
      BY <1>2, <2>3, <3>1, <3>2
  <2> QED
    BY <2>1, <2>2, <2>3
<1>4. Valid(p)
  BY <1>3 DEF Valid
<1>5. ASSUME NEW f \in Fields
      PROVE  (CASE p[f] = "absent" -> s[f]
                [] p[f] # "absent" /\ Kind[f] = "secret" -> MergeSecret(s[f], p[f])
                [] OTHER -> p[f]) = s[f]
  <2>1. MergeSecret(s[f], "blank") = s[f]
    BY DEF MergeSecret
  <2> QED
    BY <1>3, <2>1
<1>6. ApplyPatch(s, p) = [f \in Fields |-> s[f]]
  BY <1>5 DEF ApplyPatch
<1> QED
  BY <1>0, <1>4, <1>6 DEF p, u

\* Only a field that is not lenient can cost the environment its layer.
LEMMA TuningCostsNothing == StoreInv => TuningNeverCostsTheLayer
<1> SUFFICES ASSUME StoreInv, up, \A f \in Fields : env[f] \in {"bad", "junk"} => Kind[f] \in Nullable,
                    NEW g \in Fields, env[g] = "v1"
             PROVE  base[g] = "v1"
  BY DEF TuningNeverCostsTheLayer
<1>0. env \in [Fields -> {"unset", "v1", "bad", "junk"}] /\ base = Baseline(env)
  BY DEF StoreInv
<1> DEFINE raw == SettingsFromEnv(env)
           layer == ParsePatch(raw)
<1>1. raw = [f \in Fields |-> FromEnv(Kind[f], env[f])]
  BY DEF SettingsFromEnv
<1>2. layer = [f \in Fields |-> IF raw[f] = "absent" THEN "absent" ELSE Parsed(Kind[f], raw[f])]
  BY DEF ParsePatch
<1>3. Baseline(env) = IF Valid(layer) THEN MergeLayer(Defaults, layer) ELSE Defaults
  BY DEF Baseline
<1> HIDE DEF raw, layer
<1>4. ASSUME NEW f \in Fields PROVE raw[f] = "absent" \/ raw[f] = "v1"
  <2>1. env[f] \in {"unset", "v1", "bad", "junk"} /\ (env[f] \in {"bad", "junk"} => Kind[f] \in Lenient)
    BY <1>0 DEF Lenient
  <2>2. raw[f] = FromEnv(Kind[f], env[f])
    BY <1>1
  <2> QED
    BY <2>1, <2>2 DEF FromEnv
<1>5. \A f \in Fields : layer[f] = "absent" \/ layer[f] = "v1"
  BY <1>2, <1>4 DEF Parsed
<1>6. Valid(layer)
  BY <1>5 DEF Valid
<1>7. layer[g] = "v1"
  <2>1. raw[g] = "v1"
    BY <1>1 DEF FromEnv
  <2> QED
    BY <1>2, <2>1 DEF Parsed
<1>8. MergeLayer(Defaults, layer)[g] = "v1"
  BY <1>7 DEF MergeLayer
<1> QED
  BY <1>0, <1>3, <1>6, <1>8

LEMMA StoreFits ==
    StoreInv => /\ RestartKeeps /\ SavedIsDurable /\ TuningNeverCostsTheLayer /\ InPlaceIsFresh
                /\ UntouchedFormIsIdentity
<1> SUFFICES ASSUME StoreInv PROVE RestartKeeps /\ SavedIsDurable /\ InPlaceIsFresh /\ UntouchedFormIsIdentity
  BY TuningCostsNothing
<1>1. AllKept(settings)
  BY DEF StoreInv
<1> QED
  BY <1>1, FormSaysNothing DEF StoreInv, UntouchedFormIsIdentity
-----------------------------------------------------------------------------
(* The settings page: it is told of what the main process keeps, or is going to be *)

Telling == {"changed", "save", "reset", "refresh", "get"}
Messages == [kind : Telling \cup {"agent", "refused"}, version : Nat]

Forms == [of : Nat, typed : BOOLEAN]

FormTypes ==
    /\ stored \in Nat /\ inbox \in Seq(Messages) /\ unsaid \in BOOLEAN
    /\ posted \in [Kinds -> Nat] /\ reloading \in [Changes -> Nat]
    /\ shown \in Nat /\ form \in Forms
    /\ dirty \in BOOLEAN /\ drifted \in BOOLEAN

NothingTold == \A i \in 1..Len(inbox) : inbox[i].kind \notin Telling

\* The last message that tells of the settings tells of those that are stored.
LastIsTold ==
    \E i \in 1..Len(inbox) :
        /\ inbox[i].kind \in Telling /\ inbox[i].version = stored
        /\ \A j \in 1..Len(inbox) : i < j => inbox[j].kind \notin Telling

\* Somebody is still going to tell of them.
ToBeTold == posted["get"] > 0 \/ \E k \in Changes : reloading[k] > 0

\* The page is, or will be, told of them, or they were kept from it.
WillBeShown ==
    \/ LastIsTold
    \/ NothingTold /\ shown = stored
    \/ ToBeTold
    \/ unsaid

FormInv == FormTypes /\ WillBeShown /\ DriftIsSaid /\ (~dirty => form.of = shown)

LEMMA FormStarts == FormInit => FormInv
<1> SUFFICES ASSUME FormInit PROVE FormInv
  OBVIOUS
<1>1. inbox \in Seq(Messages)
  BY DEF FormInit
<1>2. posted \in [Kinds -> Nat] /\ reloading \in [Changes -> Nat] /\ posted["get"] > 0
  BY DEF FormInit, Kinds, Reads, Changes
<1>3. stored \in Nat /\ shown \in Nat /\ form \in Forms /\ form.of = shown
  BY DEF FormInit, Forms
<1>4. unsaid \in BOOLEAN /\ dirty \in BOOLEAN /\ drifted \in BOOLEAN
  BY DEF FormInit
<1> QED
  BY <1>1, <1>2, <1>3, <1>4 DEF FormInv, FormTypes, WillBeShown, ToBeTold, DriftIsSaid

LEMMA FilledIsAForm ==
    ASSUME NEW v \in Nat PROVE Filled(v) \in Forms /\ Filled(v).of = v
  BY DEF Filled, Forms

LEMMA FormFits == FormInv => DriftIsSaid /\ QuietFormIsCurrent
<1> SUFFICES ASSUME FormInv PROVE DriftIsSaid /\ QuietFormIsCurrent
  OBVIOUS
<1>1. AtRest => ~LastIsTold
  BY DEF AtRest, LastIsTold
<1>2. AtRest => ~ToBeTold
  BY DEF AtRest, ToBeTold, Kinds, Reads
<1> QED
  BY <1>1, <1>2 DEF FormInv, WillBeShown, QuietFormIsCurrent

LEMMA Counted ==
    ASSUME NEW S, NEW c \in [S -> Nat], NEW k \in S
    PROVE  /\ More(c, k) \in [S -> Nat] /\ More(c, k)[k] > 0
           /\ \A j \in S : c[j] > 0 => More(c, k)[j] > 0
           /\ c[k] > 0 => Fewer(c, k) \in [S -> Nat]
           /\ \A j \in S \ {k} : Fewer(c, k)[j] = c[j]
  BY DEF More, Fewer

\* A message that is sent is the last one there.
LEMMA MessageSent ==
    ASSUME NEW q \in Seq(Messages), NEW m \in Messages
    PROVE  /\ Append(q, m) \in Seq(Messages) /\ Len(Append(q, m)) = Len(q) + 1 /\ Len(q) \in Nat
           /\ Append(q, m)[Len(q) + 1] = m
           /\ \A i \in 1..Len(q) : Append(q, m)[i] = q[i]
  OBVIOUS

LEMMA HeadTaken ==
    ASSUME NEW q \in Seq(Messages), q # <<>>
    PROVE  /\ Tail(q) \in Seq(Messages) /\ Len(Tail(q)) = Len(q) - 1 /\ Len(q) \in Nat \ {0}
           /\ Head(q) = q[1] /\ Head(q) \in Messages
           /\ \A i \in 1..(Len(q) - 1) : Tail(q)[i] = q[i + 1]
  OBVIOUS

\* A message that tells of what is stored leaves nothing to tell.
LEMMA TellingTells ==
    ASSUME FormTypes, NEW k \in Telling, inbox' = Append(inbox, Message(k, stored)), stored' = stored
    PROVE  inbox' \in Seq(Messages) /\ LastIsTold'
<1> DEFINE m == Message(k, stored)
<1>1. m \in Messages /\ m.kind \in Telling /\ m.version = stored
  BY DEF FormTypes, Message, Messages, Telling
<1> HIDE DEF m
<1>2. /\ inbox' \in Seq(Messages) /\ Len(inbox') = Len(inbox) + 1 /\ Len(inbox) \in Nat
      /\ inbox'[Len(inbox) + 1] = m
  BY <1>1, MessageSent DEF FormTypes, m
<1> QED
  BY <1>1, <1>2 DEF LastIsTold

\* One that does not changes nothing of what was told.
LEMMA OtherTellsNothing ==
    ASSUME FormTypes, NEW k \in {"agent", "refused"}, inbox' = Append(inbox, Message(k, stored)),
           stored' = stored
    PROVE  inbox' \in Seq(Messages) /\ (LastIsTold => LastIsTold') /\ (NothingTold => NothingTold')
<1> DEFINE m == Message(k, stored)
<1>1. m \in Messages /\ m.kind \notin Telling
  BY DEF FormTypes, Message, Messages, Telling
<1> HIDE DEF m
<1>2. /\ inbox' \in Seq(Messages) /\ Len(inbox') = Len(inbox) + 1 /\ Len(inbox) \in Nat
      /\ inbox'[Len(inbox) + 1] = m /\ \A i \in 1..Len(inbox) : inbox'[i] = inbox[i]
  BY <1>1, MessageSent DEF FormTypes, m
<1>3. LastIsTold => LastIsTold'
  BY <1>1, <1>2 DEF LastIsTold
<1>4. NothingTold => NothingTold'
  BY <1>1, <1>2 DEF NothingTold
<1> QED
  BY <1>2, <1>3, <1>4

\* The message that announces a change is followed by the answer to whoever asked for it.
LEMMA AnnouncedIsTold ==
    ASSUME FormTypes, NEW k \in Changes, stored' = stored,
           inbox' = inbox \o <<Message("changed", stored), Message(k, stored)>>
    PROVE  inbox' \in Seq(Messages) /\ LastIsTold'
<1>0. \A j \in Telling \cup {"agent"} : /\ Message(j, stored) \in Messages
                                         /\ Message(j, stored).kind = j /\ Message(j, stored).version = stored
  BY DEF FormTypes, Message, Messages, Telling
<1>1. PICK a \in Messages : a = Message("changed", stored) /\ a.kind \in Telling /\ a.version = stored
  BY <1>0, Zenon DEF Telling
<1>2. PICK b \in Messages : b = Message(k, stored) /\ b.version = stored
  <2>1. k \in Telling \cup {"agent"}
    BY DEF Telling, Changes
  <2> QED
    BY <1>0, <2>1, Zenon
<1>3. PICK q \in Seq(Messages) :
        /\ q = Append(inbox, a) /\ Len(q) = Len(inbox) + 1 /\ Len(inbox) \in Nat
        /\ q[Len(inbox) + 1] = a
  BY MessageSent DEF FormTypes
<1>4. PICK w \in Seq(Messages) :
        /\ w = Append(q, b) /\ Len(w) = Len(q) + 1 /\ w[Len(q) + 1] = b
        /\ \A i \in 1..Len(q) : w[i] = q[i]
  BY MessageSent
<1>5. inbox' = w
  BY <1>1, <1>2, <1>3, <1>4 DEF FormTypes
<1>6. Len(inbox') = Len(inbox) + 2 /\ inbox'[Len(inbox) + 1] = a /\ inbox'[Len(inbox) + 2] = b
  BY <1>3, <1>4, <1>5
<1> PICK n \in Nat : n = Len(inbox)
  BY <1>3
<1>7. CASE b.kind \in Telling
  <2>1. n + 2 \in 1..Len(inbox') /\ inbox'[n + 2].kind \in Telling /\ inbox'[n + 2].version = stored'
    BY <1>2, <1>6, <1>7
  <2>2. \A j \in 1..Len(inbox') : ~(n + 2 < j)
    BY <1>6
  <2> QED
    BY <1>5, <2>1, <2>2 DEF LastIsTold
<1>8. CASE b.kind \notin Telling
  <2>1. n + 1 \in 1..Len(inbox') /\ inbox'[n + 1].kind \in Telling /\ inbox'[n + 1].version = stored'
    BY <1>1, <1>6
  <2>2. ASSUME NEW j \in 1..Len(inbox'), n + 1 < j PROVE inbox'[j].kind \notin Telling
    <3>1. j = n + 2
      BY <1>6, <2>2
    <3> QED
      BY <1>6, <1>8, <3>1
  <2> QED
    BY <1>5, <2>1, <2>2 DEF LastIsTold
<1> QED
  BY <1>4, <1>5, <1>7, <1>8

\* What the main process does.
LEMMA MainTells ==
    ASSUME FormInv,
           \/ NothingToDelete
           \/ \E k \in Reads : AnswerRead(k)
           \/ \E k \in Changes : RefuseChange(k) \/ StoreChange(k) \/ Announce(k) \/ ReloadFails(k)
    PROVE  FormTypes' /\ WillBeShown' /\ viewVars' = viewVars
<1>0. FormTypes /\ WillBeShown
  BY DEF FormInv
<1> USE DEF viewVars
<1>1. ASSUME NEW k \in Reads, AnswerRead(k) PROVE FormTypes' /\ WillBeShown' /\ UNCHANGED viewVars
  <2>1. k \in Telling /\ k \in Kinds
    BY DEF Reads, Telling, Kinds
  <2>2. inbox' \in Seq(Messages) /\ LastIsTold'
    BY <1>0, <1>1, <2>1, TellingTells DEF AnswerRead
  <2>3. posted' \in [Kinds -> Nat]
    BY <1>0, <1>1, <2>1, Counted DEF AnswerRead, TakenUp, FormTypes
  <2> QED
    BY <1>0, <1>1, <2>2, <2>3 DEF AnswerRead, FormTypes, WillBeShown
<1>2. ASSUME NEW k \in Changes, RefuseChange(k) \/ (k = "agent" /\ NothingToDelete)
      PROVE  FormTypes' /\ WillBeShown' /\ UNCHANGED viewVars
  <2>1. k \in Kinds /\ "get" \in Kinds \ {k}
    BY DEF Kinds, Changes, Reads
  <2>2. TakenUp(k) /\ UNCHANGED <<stored, reloading, unsaid, viewVars>>
    BY <1>2 DEF RefuseChange, NothingToDelete
  <2>3. posted' \in [Kinds -> Nat] /\ posted'["get"] = posted["get"]
    BY <1>0, <2>1, <2>2, Counted DEF TakenUp, FormTypes
  <2>4. inbox' \in Seq(Messages) /\ (LastIsTold => LastIsTold') /\ (NothingTold => NothingTold')
    BY <1>0, <1>2, <2>2, OtherTellsNothing DEF RefuseChange, NothingToDelete
  <2>5. FormTypes'
    BY <1>0, <2>2, <2>3, <2>4 DEF FormTypes
  <2>6. ToBeTold => ToBeTold'
    BY <2>2, <2>3 DEF ToBeTold
  <2> QED
    BY <1>0, <2>2, <2>4, <2>5, <2>6 DEF WillBeShown
<1>3. ASSUME NEW k \in Changes, StoreChange(k) PROVE FormTypes' /\ WillBeShown' /\ UNCHANGED viewVars
  <2>1. k \in Kinds
    BY DEF Kinds
  <2>2. posted' \in [Kinds -> Nat]
    BY <1>0, <1>3, <2>1, Counted DEF StoreChange, TakenUp, FormTypes
  <2>3. reloading' \in [Changes -> Nat] /\ reloading'[k] > 0
    BY <1>0, <1>3, Counted DEF StoreChange, FormTypes
  <2> QED
    BY <1>0, <1>3, <2>2, <2>3 DEF StoreChange, FormTypes, WillBeShown, ToBeTold
<1>4. ASSUME NEW k \in Changes, Announce(k) PROVE FormTypes' /\ WillBeShown' /\ UNCHANGED viewVars
  <2>1. reloading' \in [Changes -> Nat]
    BY <1>0, <1>4, Counted DEF Announce, ReloadIsOver, FormTypes
  <2>2. inbox' \in Seq(Messages) /\ LastIsTold'
    BY <1>0, <1>4, AnnouncedIsTold DEF Announce
  <2> QED
    BY <1>0, <1>4, <2>1, <2>2 DEF Announce, FormTypes, WillBeShown
<1>5. ASSUME NEW k \in Changes, ReloadFails(k) PROVE FormTypes' /\ WillBeShown' /\ UNCHANGED viewVars
  <2>1. reloading' \in [Changes -> Nat]
    BY <1>0, <1>5, Counted DEF ReloadFails, ReloadIsOver, FormTypes
  <2>2. inbox' \in Seq(Messages)
    BY <1>0, <1>5, OtherTellsNothing DEF ReloadFails
  <2> QED
    BY <1>0, <1>5, <2>1, <2>2 DEF ReloadFails, FormTypes, WillBeShown
<1> QED
  BY <1>1, <1>2, <1>3, <1>4, <1>5 DEF Changes

\* A message that has come has been shown, if it tells of anything.
LEMMA ReceiveShows ==
    ASSUME FormInv, Receive PROVE FormInv'
<1>0. FormTypes /\ WillBeShown /\ DriftIsSaid /\ (~dirty => form.of = shown)
  BY DEF FormInv
<1> DEFINE m == Head(inbox)
<1>1. /\ inbox' = Tail(inbox) /\ UNCHANGED <<stored, reloading, unsaid>> /\ inbox \in Seq(Messages)
      /\ inbox' \in Seq(Messages) /\ Len(inbox') = Len(inbox) - 1 /\ Len(inbox) \in Nat \ {0}
      /\ m = inbox[1] /\ m \in Messages
      /\ \A i \in 1..(Len(inbox) - 1) : inbox'[i] = inbox[i + 1]
  BY <1>0, HeadTaken DEF FormTypes, Receive
<1>2. m.version \in Nat /\ m.kind \in Telling \cup {"agent", "refused"}
  BY <1>1 DEF Messages
<1>3. /\ m.kind \in Telling =>
           shown' = m.version /\ posted' = posted /\ DriftIsSaid' /\ (~dirty' => form'.of = shown')
             /\ form' \in Forms /\ dirty' \in BOOLEAN /\ drifted' \in BOOLEAN
      /\ m.kind \notin Telling =>
           shown' = shown /\ posted' \in [Kinds -> Nat] /\ (posted["get"] > 0 => posted'["get"] > 0)
             /\ form' = form /\ dirty' = dirty /\ drifted' = drifted
  <2>1. CASE m.kind = "changed" /\ Told(m.version) /\ posted' = posted
    <3>1. shown' = m.version /\ dirty' = dirty
      BY <2>1 DEF Told
    <3>2. CASE dirty
      <4>1. drifted' = TRUE /\ form' = form
        BY <2>1, <3>2 DEF Told
      <4> QED
        BY <1>0, <2>1, <3>1, <3>2, <4>1, Zenon DEF FormTypes, DriftIsSaid, Telling
    <3>3. CASE ~dirty
      <4>1. drifted' = drifted /\ form' = Filled(m.version)
        BY <2>1, <3>3 DEF Told
      <4>2. form' \in Forms /\ form'.of = shown'
        BY <1>2, <3>1, <4>1, FilledIsAForm
      <4> QED
        BY <1>0, <2>1, <3>1, <4>1, <4>2, Zenon DEF FormTypes, DriftIsSaid, Telling
    <3> QED
      BY <3>2, <3>3
  <2>2. CASE m.kind \in {"save", "reset", "refresh"} /\ Reload(m.version) /\ posted' = posted
    <3>1. shown' = m.version /\ form' = Filled(m.version) /\ dirty' = FALSE /\ drifted' = FALSE
      BY <2>2 DEF Reload
    <3>2. form' \in Forms /\ form'.of = shown'
      BY <1>2, <3>1, FilledIsAForm
    <3> QED
      BY <2>2, <3>1, <3>2, Zenon DEF DriftIsSaid, Telling
  <2>3. CASE /\ m.kind = "get" /\ shown' = m.version /\ form' = Filled(m.version) /\ dirty' = FALSE
             /\ drifted' = drifted /\ posted' = posted
    <3>2. form' \in Forms /\ form'.of = shown'
      BY <1>2, <2>3, FilledIsAForm
    <3> QED
      BY <1>0, <2>3, <3>2, Zenon DEF FormTypes, DriftIsSaid, Telling
  <2>4. CASE m.kind = "agent" /\ posted' = More(posted, "refresh") /\ UNCHANGED viewVars
    <3>1. "refresh" \in Kinds /\ "get" \in Kinds
      BY DEF Kinds, Reads
    <3>2. posted' \in [Kinds -> Nat] /\ (posted["get"] > 0 => posted'["get"] > 0)
      BY <1>0, <2>4, <3>1, Counted DEF FormTypes
    <3> QED
      BY <2>4, <3>2 DEF Telling, viewVars
  <2>5. CASE m.kind = "refused" /\ UNCHANGED <<posted, viewVars>>
    BY <1>0, <2>5 DEF FormTypes, Telling, viewVars
  <2> QED
    BY <2>1, <2>2, <2>3, <2>4, <2>5 DEF Receive
<1> HIDE DEF m
<1>4. FormTypes'
  BY <1>0, <1>1, <1>2, <1>3 DEF FormTypes
<1>5. DriftIsSaid' /\ (~dirty' => form'.of = shown')
  BY <1>0, <1>2, <1>3 DEF DriftIsSaid
<1>6. WillBeShown'
  <2>1. CASE LastIsTold
    <3>1. PICK i \in 1..Len(inbox) :
            /\ inbox[i].kind \in Telling /\ inbox[i].version = stored
            /\ \A j \in 1..Len(inbox) : i < j => inbox[j].kind \notin Telling
      BY <2>1 DEF LastIsTold
    <3>2. CASE i = 1
      <4>1. m.kind \in Telling /\ m.version = stored
        BY <1>1, <3>1, <3>2
      <4>2. NothingTold'
        BY <1>1, <3>1, <3>2 DEF NothingTold
      <4> QED
        BY <1>1, <1>3, <4>1, <4>2 DEF WillBeShown
    <3>3. CASE i # 1
      <4>1. i - 1 \in 1..Len(inbox') /\ inbox'[i - 1] = inbox[i]
        BY <1>1, <3>3
      <4>2. \A j \in 1..Len(inbox') : i - 1 < j => inbox'[j].kind \notin Telling
        BY <1>1, <3>1
      <4> QED
        BY <1>1, <3>1, <4>1, <4>2 DEF WillBeShown, LastIsTold
    <3> QED
      BY <3>2, <3>3
  <2>2. CASE NothingTold /\ shown = stored
    <3>1. m.kind \notin Telling /\ NothingTold'
      BY <1>1, <2>2 DEF NothingTold
    <3> QED
      BY <1>1, <1>3, <2>2, <3>1 DEF WillBeShown
  <2>3. CASE ToBeTold
    BY <1>1, <1>3, <2>3 DEF ToBeTold, WillBeShown
  <2>4. CASE unsaid
    BY <1>1, <2>4 DEF WillBeShown
  <2> QED
    BY <1>0, <2>1, <2>2, <2>3, <2>4 DEF WillBeShown
<1> QED
  BY <1>4, <1>5, <1>6 DEF FormInv

\* What the operator does leaves alone what was told, and at most asks for more.
LEMMA OperatorKeeps ==
    ASSUME FormInv, UNCHANGED <<stored, reloading, inbox, unsaid, shown>>, FormTypes',
           posted["get"] > 0 => posted'["get"] > 0, form'.of = form.of \/ form'.of = shown,
           (form'.of = form.of /\ (dirty => dirty') /\ drifted' = drifted) \/ form'.of = shown
    PROVE  FormInv'
<1>1. WillBeShown'
  <2>1. LastIsTold => LastIsTold'
    BY DEF LastIsTold
  <2>2. NothingTold => NothingTold'
    BY DEF NothingTold
  <2>3. ToBeTold => ToBeTold'
    BY DEF ToBeTold
  <2> QED
    BY <2>1, <2>2, <2>3 DEF FormInv, WillBeShown
<1> QED
  BY <1>1 DEF FormInv, FormTypes, DriftIsSaid

LEMMA FormKeeps == FormInv /\ [FormNext]_formVars => FormInv'
<1> SUFFICES ASSUME FormInv, [FormNext]_formVars PROVE FormInv'
  OBVIOUS
<1>0. FormTypes
  BY DEF FormInv
<1>1. CASE Type
  <2>1. form' \in Forms /\ form'.of = form.of
    BY <1>0, <1>1 DEF Type, FormTypes, Forms
  <2>2. FormTypes'
    BY <1>0, <1>1, <2>1 DEF Type, FormTypes
  <2> QED
    BY <1>1, <2>1, <2>2, OperatorKeeps DEF Type
<1>2. CASE ClickSaveOrReset
  <2>1. PICK k \in Kinds : posted' = More(posted, k)
    BY <1>2 DEF ClickSaveOrReset, PageAsks, Kinds, Changes
  <2>2. "get" \in Kinds
    BY DEF Kinds, Reads
  <2>3. posted' \in [Kinds -> Nat] /\ (posted["get"] > 0 => posted'["get"] > 0)
    BY <1>0, <2>1, <2>2, Counted DEF FormTypes
  <2>4. form' \in Forms /\ form'.of = form.of
    BY <1>0, <1>2 DEF ClickSaveOrReset, FormTypes, Forms
  <2>5. FormTypes'
    BY <1>0, <1>2, <2>3, <2>4 DEF ClickSaveOrReset, FormTypes
  <2> QED
    BY <1>2, <2>3, <2>4, <2>5, OperatorKeeps DEF ClickSaveOrReset
<1>3. CASE ClickAgent
  <2>1. "get" \in Kinds /\ "agent" \in Kinds
    BY DEF Kinds, Reads, Changes
  <2>2. posted' \in [Kinds -> Nat] /\ (posted["get"] > 0 => posted'["get"] > 0)
    BY <1>0, <1>3, <2>1, Counted DEF FormTypes, ClickAgent, PageAsks
  <2>3. UNCHANGED <<stored, reloading, inbox, unsaid, shown, form, dirty, drifted>>
    BY <1>3 DEF ClickAgent, viewVars
  <2>4. FormTypes'
    BY <1>0, <2>2, <2>3 DEF FormTypes
  <2> QED
    BY <2>2, <2>3, <2>4, OperatorKeeps
<1>4. CASE DiscardEdits
  <2>1. form' \in Forms /\ form'.of = shown
    BY <1>0, <1>4, FilledIsAForm DEF FormTypes, DiscardEdits
  <2>2. FormTypes'
    BY <1>0, <1>4, <2>1 DEF FormTypes, DiscardEdits
  <2> QED
    BY <1>4, <2>1, <2>2, OperatorKeeps DEF DiscardEdits
<1>5. CASE Receive
  BY <1>5, ReceiveShows
<1>6. CASE \/ NothingToDelete
           \/ \E k \in Reads : AnswerRead(k)
           \/ \E k \in Changes : RefuseChange(k) \/ StoreChange(k) \/ Announce(k) \/ ReloadFails(k)
  <2>1. FormTypes' /\ WillBeShown' /\ viewVars' = viewVars
    BY <1>6, MainTells
  <2> QED
    BY <2>1 DEF FormInv, DriftIsSaid, viewVars
<1>7. CASE UNCHANGED formVars
  <2>1. UNCHANGED <<stored, posted, reloading, inbox, unsaid, shown, form, dirty, drifted>>
    BY <1>7 DEF formVars, viewVars
  <2>2. FormTypes'
    BY <1>0, <2>1 DEF FormTypes
  <2> QED
    BY <2>1, <2>2, OperatorKeeps
<1> QED
  BY <1>1, <1>2, <1>3, <1>4, <1>5, <1>6, <1>7 DEF FormNext
-----------------------------------------------------------------------------
(* The agent of a phone: what the places agree on, and where they cannot *)

OnlyAgent(id) == IF id = 0 THEN {} ELSE {id}

AgentTask == [op : {"none", "create", "update", "delete", "file"}, id : Nat]

AgentTypes ==
    /\ remote \subseteq Nat /\ filed \in Nat /\ adopted \in Nat /\ listed \in Nat /\ made \in Nat
    /\ task \in [Clicks -> AgentTask]

\* What a failed reload has not left behind has the agent that is in the file.
NoneIsBehind ==
    /\ "runtime" \notin behind => adopted = filed
    /\ "page" \notin behind => listed = filed

\* A request fits the file: an agent is created for none, and another is the one that is filed; the
\* service has what the request is about to file.
InMind(q) ==
    /\ task[q].op = "file" => remote = OnlyAgent(task[q].id)
    /\ task[q].op = "create" => filed = 0
    /\ task[q].op \in {"update", "delete"} => task[q].id = filed /\ filed # 0

\* Requests that come one by one, from a page that knows the file, all fit.
OfOneMind ==
    flawed = {} =>
        /\ \A q, r \in Clicks : task[q].op # "none" /\ task[r].op # "none" => q = r
        /\ (\A q \in Clicks : task[q].op # "file") => remote = OnlyAgent(filed)
        /\ \A q \in Clicks : InMind(q)

AgentsInv == AgentTypes /\ NoneIsBehind /\ OfOneMind

LEMMA AgentsStart == AgentsInit => AgentsInv
<1> SUFFICES ASSUME AgentsInit PROVE AgentsInv
  OBVIOUS
<1>1. Idle \in AgentTask /\ Idle.op = "none"
  BY DEF Idle, AgentTask
<1>2. task = [q \in Clicks |-> Idle] /\ remote = {} /\ filed = 0 /\ adopted = 0 /\ listed = 0 /\ made = 0
  BY DEF AgentsInit
<1>3. AgentTypes /\ NoneIsBehind
  BY <1>1, <1>2 DEF AgentTypes, NoneIsBehind
<1>4. \A q \in Clicks : task[q].op = "none"
  BY <1>1, <1>2
<1>5. OfOneMind
  BY <1>2, <1>4 DEF OfOneMind, InMind, OnlyAgent
<1> QED
  BY <1>3, <1>5 DEF AgentsInv

LEMMA AgentsFit == AgentsInv => PlacesAgree
  BY DEF AgentsInv, NoneIsBehind, OfOneMind, OnlyAgent, PlacesAgree, NoneUnderWay

\* A request changes, and no other.
LEMMA TaskMoves ==
    ASSUME AgentTypes, NEW q \in Clicks, NEW new \in AgentTask, task' = [task EXCEPT ![q] = new]
    PROVE  /\ task' \in [Clicks -> AgentTask] /\ task'[q] = new
           /\ \A r \in Clicks \ {q} : task'[r] = task[r]
  BY DEF AgentTypes

LEMMA TaskIs ==
    ASSUME NEW op \in {"none", "create", "update", "delete", "file"}, NEW id \in Nat
    PROVE  LET new == [op |-> op, id |-> id] IN new \in AgentTask /\ new.op = op /\ new.id = id
  BY DEF AgentTask

\* The only request under way becomes another, or ends, and the rest fits as before.
LEMMA OnlyOneMoves ==
    ASSUME AgentTypes, OfOneMind, flawed' = {} => flawed = {},
           NEW q \in Clicks, NEW new \in AgentTask, task' = [task EXCEPT ![q] = new],
           flawed' = {} => \A r \in Clicks \ {q} : task[r].op = "none",
           flawed' = {} => /\ new.op # "file" => remote' = OnlyAgent(filed')
                           /\ new.op = "file" => remote' = OnlyAgent(new.id)
                           /\ new.op = "create" => filed' = 0
                           /\ new.op \in {"update", "delete"} => new.id = filed' /\ filed' # 0
    PROVE  OfOneMind'
<1> SUFFICES ASSUME flawed' = {}
             PROVE  /\ \A p, r \in Clicks : task'[p].op # "none" /\ task'[r].op # "none" => p = r
                    /\ (\A p \in Clicks : task'[p].op # "file") => remote' = OnlyAgent(filed')
                    /\ \A p \in Clicks : InMind(p)'
  BY DEF OfOneMind
<1>1. task'[q] = new /\ \A r \in Clicks \ {q} : task'[r].op = "none"
  BY TaskMoves
<1>2. \A p \in Clicks : InMind(p)'
  BY <1>1 DEF InMind
<1> QED
  BY <1>1, <1>2

\* While nothing is flawed, a request that is under way is the only one, and none is about to file
\* but it.
LEMMA OthersRest ==
    ASSUME OfOneMind, flawed = {}, NEW q \in Clicks, task[q].op # "none"
    PROVE  /\ \A r \in Clicks \ {q} : task[r].op = "none"
           /\ task[q].op # "file" => remote = OnlyAgent(filed)
           /\ InMind(q)
  BY DEF OfOneMind

LEMMA ClickKeeps ==
    ASSUME AgentsInv, NEW q \in Clicks, ClickSaveAgent(q) \/ ClickDeleteAgent(q)
    PROVE  AgentsInv'
<1>0. AgentTypes /\ NoneIsBehind /\ OfOneMind
  BY DEF AgentsInv
<1>1. CASE ClickDeleteAgent(q) /\ filed = 0
  <2>1. /\ listed' = 0 /\ behind' = behind \ {"page"}
        /\ UNCHANGED <<task, flawed, remote, filed, adopted, made>>
    BY <1>1 DEF ClickDeleteAgent
  <2>2. AgentTypes' /\ NoneIsBehind'
    BY <1>0, <1>1, <2>1 DEF AgentTypes, NoneIsBehind
  <2>3. OfOneMind'
    BY <1>0, <2>1 DEF OfOneMind, InMind
  <2> QED
    BY <2>2, <2>3 DEF AgentsInv
<1>2. CASE ClickSaveAgent(q) \/ (ClickDeleteAgent(q) /\ filed # 0)
  <2> DEFINE op == IF ClickSaveAgent(q) THEN (IF listed = 0 THEN "create" ELSE "update") ELSE "delete"
             id == IF ClickSaveAgent(q) THEN listed ELSE filed
  <2>1. PICK new \in AgentTask : new.op = op /\ new.id = id /\ task' = [task EXCEPT ![q] = new]
    <3> DEFINE new == [op |-> op, id |-> id]
    <3>1. op \in {"none", "create", "update", "delete", "file"} /\ id \in Nat
      BY <1>0 DEF AgentTypes
    <3>2. task' = [task EXCEPT ![q] = new]
      <4>1. CASE ClickSaveAgent(q)
        BY <4>1 DEF ClickSaveAgent, Becomes
      <4>2. CASE ~ClickSaveAgent(q)
        BY <1>2, <4>2 DEF ClickDeleteAgent, Becomes
      <4> QED
        BY <4>1, <4>2
    <3> HIDE DEF op, id
    <3>3. new \in AgentTask /\ new.op = op /\ new.id = id
      BY <3>1, TaskIs
    <3> HIDE DEF new
    <3> QED
      BY <3>2, <3>3
  <2>2. UNCHANGED <<remote, filed, adopted, listed, made, behind>> /\ flawed' = flawed \cup Flaws
    BY <1>2 DEF ClickSaveAgent, ClickDeleteAgent
  <2>3. AgentTypes' /\ NoneIsBehind'
    BY <1>0, <2>1, <2>2, TaskMoves DEF AgentTypes, NoneIsBehind
  <2>4. flawed' = {} => /\ flawed = {} /\ listed = filed /\ \A r \in Clicks : task[r].op = "none"
    BY <2>2 DEF Flaws
  <2>5. flawed' = {} => remote' = OnlyAgent(filed')
    BY <1>0, <2>2, <2>4 DEF OfOneMind
  <2>6. flawed' = {} => /\ new.op # "file"
                        /\ new.op = "create" => filed' = 0
                        /\ new.op \in {"update", "delete"} => new.id = filed' /\ filed' # 0
    BY <1>2, <2>1, <2>2, <2>4
  <2>7. OfOneMind'
    BY <1>0, <2>1, <2>4, <2>5, <2>6, OnlyOneMoves
  <2> QED
    BY <2>3, <2>7 DEF AgentsInv
<1> QED
  BY <1>1, <1>2

LEMMA ServiceKeeps ==
    ASSUME AgentsInv, NEW q \in Clicks, ServiceDoes(q)
    PROVE  AgentsInv'
<1>0. AgentTypes /\ NoneIsBehind /\ OfOneMind /\ UNCHANGED <<filed, adopted, listed, behind, flawed>>
  BY DEF AgentsInv, ServiceDoes
<1>1. task[q].op \in {"create", "update", "delete"} /\ task[q].id \in Nat /\ made \in Nat
  BY <1>0 DEF ServiceDoes, AgentTypes, AgentTask
<1>2. flawed' = {} => /\ flawed = {} /\ (\A r \in Clicks \ {q} : task[r].op = "none")
                      /\ remote = OnlyAgent(filed) /\ InMind(q)
  BY <1>0, <1>1, OthersRest
<1>3. PICK id \in Nat :
        /\ Becomes(q, "file", id) /\ made' \in Nat /\ remote' \subseteq Nat
        /\ flawed' = {} => remote' = OnlyAgent(id)
  <2>1. CASE task[q].op = "create"
    <3>1. made + 1 \in Nat /\ made + 1 # 0 /\ made' = made + 1 /\ remote' = remote \cup {made + 1}
          /\ Becomes(q, "file", made + 1)
      BY <1>1, <2>1 DEF ServiceDoes
    <3>2. remote' \subseteq Nat
      BY <1>0, <3>1 DEF AgentTypes
    <3>3. flawed' = {} => remote' = OnlyAgent(made + 1)
      BY <1>2, <2>1, <3>1 DEF InMind, OnlyAgent
    <3> QED
      BY <3>1, <3>2, <3>3
  <2>2. CASE task[q].op = "update"
    <3>1. Becomes(q, "file", task[q].id) /\ remote' = remote /\ made' = made
      BY <2>2 DEF ServiceDoes
    <3>2. flawed' = {} => remote' = OnlyAgent(task[q].id)
      BY <1>2, <2>2, <3>1 DEF InMind
    <3> QED
      BY <1>0, <1>1, <3>1, <3>2 DEF AgentTypes
  <2>3. CASE task[q].op = "delete"
    <3>1. Becomes(q, "file", 0) /\ remote' = remote \ {task[q].id} /\ made' = made
      BY <2>3 DEF ServiceDoes
    <3>2. flawed' = {} => remote' = OnlyAgent(0)
      BY <1>2, <2>3, <3>1 DEF InMind, OnlyAgent
    <3> QED
      BY <1>0, <1>1, <3>1, <3>2 DEF AgentTypes
  <2> QED
    BY <1>1, <2>1, <2>2, <2>3
<1>4. PICK new \in AgentTask : new.op = "file" /\ new.id = id /\ task' = [task EXCEPT ![q] = new]
  BY <1>3, TaskIs DEF Becomes
<1>5. AgentTypes' /\ NoneIsBehind'
  BY <1>0, <1>3, <1>4, TaskMoves DEF AgentTypes, NoneIsBehind
<1>6. OfOneMind'
  BY <1>0, <1>2, <1>3, <1>4, OnlyOneMoves
<1> QED
  BY <1>5, <1>6 DEF AgentsInv

LEMMA TaskEnds ==
    ASSUME NEW q \in Clicks, Ends(q)
    PROVE  \E new \in AgentTask : new.op = "none" /\ task' = [task EXCEPT ![q] = new]
<1>1. Idle \in AgentTask /\ Idle.op = "none"
  BY DEF Idle, AgentTask
<1> QED
  BY <1>1 DEF Ends

LEMMA EndKeepsAgents ==
    ASSUME AgentsInv, NEW q \in Clicks,
           ServiceFails(q) \/ AnswerLost(q) \/ FileAgent(q) \/ DiskFull(q)
    PROVE  AgentsInv'
<1>0. AgentTypes /\ NoneIsBehind /\ OfOneMind /\ Ends(q)
  BY DEF AgentsInv, ServiceFails, AnswerLost, FileAgent, DiskFull
<1>1. PICK new \in AgentTask : new.op = "none" /\ task' = [task EXCEPT ![q] = new]
  BY <1>0, TaskEnds
<1>2. task[q].op # "none" /\ task[q].id \in Nat /\ made \in Nat
  BY <1>0 DEF ServiceFails, AnswerLost, FileAgent, DiskFull, AgentTypes, AgentTask
<1>3. flawed' = {} => flawed = {}
  BY DEF ServiceFails, AnswerLost, FileAgent, DiskFull
<1>4. flawed' = {} => /\ \A r \in Clicks \ {q} : task[r].op = "none"
                      /\ task[q].op # "file" => remote = OnlyAgent(filed)
                      /\ InMind(q)
  BY <1>0, <1>2, <1>3, OthersRest
<1>5. AgentTypes' /\ NoneIsBehind' /\ (flawed' = {} => remote' = OnlyAgent(filed'))
  <2>1. CASE ServiceFails(q)
    <3>1. UNCHANGED <<remote, filed, adopted, listed, made, behind, flawed>> /\ task[q].op # "file"
      BY <2>1 DEF ServiceFails
    <3> QED
      BY <1>0, <1>1, <1>4, <3>1, TaskMoves DEF AgentTypes, NoneIsBehind
  <2>2. CASE AnswerLost(q)
    <3>1. /\ UNCHANGED <<filed, adopted, listed, behind>> /\ made' = made + 1
          /\ remote' = remote \cup {made + 1} /\ flawed' # {}
      BY <2>2 DEF AnswerLost
    <3> QED
      BY <1>0, <1>1, <1>2, <3>1, TaskMoves DEF AgentTypes, NoneIsBehind
  <2>3. CASE FileAgent(q)
    <3>1. /\ UNCHANGED <<remote, made>> /\ filed' = task[q].id /\ task[q].op = "file"
          /\ adopted' \in {adopted, filed'} /\ listed' \in {listed, filed'} /\ NoneIsBehind'
      BY <2>3 DEF FileAgent, Reloaded, NoneIsBehind
    <3>2. AgentTypes'
      BY <1>0, <1>1, <1>2, <3>1, TaskMoves DEF AgentTypes
    <3> QED
      BY <1>4, <3>1, <3>2 DEF InMind
  <2>4. CASE DiskFull(q)
    <3>1. UNCHANGED <<remote, filed, adopted, listed, made, behind>> /\ flawed' # {}
      BY <2>4 DEF DiskFull
    <3> QED
      BY <1>0, <1>1, <3>1, TaskMoves DEF AgentTypes, NoneIsBehind
  <2> QED
    BY <2>1, <2>2, <2>3, <2>4
<1>6. OfOneMind'
  BY <1>0, <1>1, <1>3, <1>4, <1>5, OnlyOneMoves
<1> QED
  BY <1>5, <1>6 DEF AgentsInv

LEMMA AgentsKeep == AgentsInv /\ [AgentsNext]_agentVars => AgentsInv'
<1> SUFFICES ASSUME AgentsInv, [AgentsNext]_agentVars PROVE AgentsInv'
  OBVIOUS
<1>1. ASSUME NEW q \in Clicks, ClickSaveAgent(q) \/ ClickDeleteAgent(q) PROVE AgentsInv'
  BY <1>1, ClickKeeps
<1>2. ASSUME NEW q \in Clicks, ServiceDoes(q) PROVE AgentsInv'
  BY <1>2, ServiceKeeps
<1>3. ASSUME NEW q \in Clicks, ServiceFails(q) \/ AnswerLost(q) \/ FileAgent(q) \/ DiskFull(q)
      PROVE  AgentsInv'
  BY <1>3, EndKeepsAgents
<1>4. CASE OtherSave
  <2>1. /\ UNCHANGED <<remote, filed, task, made, flawed>>
        /\ adopted' = filed /\ listed' \in {listed, filed} /\ NoneIsBehind'
    BY <1>4 DEF OtherSave, Reloaded, NoneIsBehind
  <2>2. AgentTypes' /\ OfOneMind'
    BY <2>1 DEF AgentsInv, AgentTypes, OfOneMind, InMind
  <2> QED
    BY <2>1, <2>2 DEF AgentsInv
<1>5. CASE CallComes \/ CallGoes \/ UNCHANGED agentVars
  <2>1. UNCHANGED <<remote, filed, adopted, listed, task, made, behind, flawed>>
    BY <1>5 DEF CallComes, CallGoes, agentVars
  <2> QED
    BY <2>1 DEF AgentsInv, AgentTypes, NoneIsBehind, OfOneMind, InMind
<1> QED
  BY <1>1, <1>2, <1>3, <1>4, <1>5 DEF AgentsNext

\* Between two requests the agent a call is given is one the service has: the one in the file.
LEMMA CallIsAnswered ==
    ASSUME AgentsInv, AgentsNext, session' = "refused", session # "refused"
    PROVE  ~NoneUnderWay \/ flawed # {} \/ "runtime" \in behind
<1>1. CASE CallComes
  <2>1. SUFFICES ASSUME NoneUnderWay, flawed = {}, "runtime" \notin behind PROVE FALSE
    OBVIOUS
  <2>2. adopted = filed /\ remote = IF filed = 0 THEN {} ELSE {filed}
    BY <2>1, AgentsFit DEF PlacesAgree
  <2>3. AgentFor(adopted) # "refused"
    BY <2>2 DEF AgentFor
  <2> QED
    BY <1>1, <2>3 DEF CallComes
<1>2. CASE ~CallComes
  <2>1. session' = session
    BY <1>2 DEF AgentsNext, ClickSaveAgent, ClickDeleteAgent, ServiceDoes, ServiceFails, AnswerLost,
         FileAgent, DiskFull, OtherSave, CallGoes
  <2> QED
    BY <2>1
<1> QED
  BY <1>1, <1>2
-----------------------------------------------------------------------------
(* The running program: one Autopilot answers, and it has the settings in force *)

Autopilot ==
    [of : Nat, running : BOOLEAN, shut : BOOLEAN, polling : BOOLEAN,
     call : {"none", "live", "ending", "late"}, store : {"open", "closed"}]

Reloading ==
    [at : {"idle", "text", "drain", "failed"}, prev : Nat, enabled : BOOLEAN, textOn : BOOLEAN, waits : BOOLEAN]

RuntimeTypes ==
    /\ version \in Nat /\ pilots \in Seq(Autopilot) /\ instance \in 0..Len(pilots)
    /\ text \in [of : Nat, on : BOOLEAN] /\ textWanted \in BOOLEAN
    /\ leftover \in Nat /\ crossed \in BOOLEAN
    /\ save \in [Saves -> Reloading] /\ quit \in {"no", "pilot", "gone"} /\ awaited \in Nat

\* One that is shut down takes no call, and closes its store behind the last record.
Orderly(p) ==
    /\ p.shut => p.call # "live"
    /\ p.store = "closed" => p.shut /\ p.call # "ending"

AllOrderly == \A i \in 1..Len(pilots) : Orderly(pilots[i])

\* Until the program is shut down, nobody answers but the one in use, which was never shut down.
OthersAreOff ==
    quit = "no" =>
        /\ \A i \in 1..Len(pilots) : pilots[i].running => i = instance
        /\ instance # 0 => ~pilots[instance].shut

\* Only a save that has not replaced them yet leaves services with older settings in use.
NewestInUse ==
    quit # "gone" /\ (\A s \in Saves : save[s].at # "text") =>
        /\ text.of = version
        /\ instance # 0 => pilots[instance].of = version

\* Until two saves meet there, one at most waits for the text service; texts are off while it does,
\* and it knows whether they were on.  Only behind two of them a text service is lost.
TextsInTurn ==
    /\ leftover # 0 => crossed
    /\ ~crossed =>
        /\ \A s, t \in Saves : save[s].at = "text" /\ save[t].at = "text" => s = t
        /\ \A s \in Saves : save[s].at = "text" => ~text.on /\ (textWanted => save[s].textOn)
        /\ textWanted /\ (\A s \in Saves : save[s].at # "text") => text.on

RuntimeInv == RuntimeTypes /\ AllOrderly /\ OthersAreOff /\ NewestInUse /\ TextsInTurn

LEMMA PilotIsNew ==
    ASSUME NEW v \in Nat
    PROVE  /\ Pilot(v) \in Autopilot /\ Orderly(Pilot(v)) /\ Pilot(v).of = v
           /\ ~Pilot(v).running /\ ~Pilot(v).shut
  BY DEF Pilot, Autopilot, Orderly

LEMMA SwitchedPilot ==
    ASSUME NEW p \in Autopilot, Orderly(p), NEW q \in {Enabled(p), Disabled(p)}
    PROVE  q \in Autopilot /\ Orderly(q) /\ q.of = p.of /\ q.shut = p.shut
<1> PICK b \in BOOLEAN : q = [p EXCEPT !.running = b]
  BY DEF Enabled, Disabled
<1>1. /\ q \in Autopilot /\ q.of = p.of /\ q.shut = p.shut /\ q.call = p.call /\ q.store = p.store
  BY DEF Autopilot
<1> QED
  BY <1>1 DEF Orderly

LEMMA DisabledIsOff ==
    ASSUME NEW p \in Autopilot PROVE ~Disabled(p).running
  BY DEF Disabled, Autopilot

LEMMA PilotShut ==
    ASSUME NEW p \in Autopilot, Orderly(p)
    PROVE  /\ ShutBegun(p) \in Autopilot /\ Orderly(ShutBegun(p)) /\ ShutBegun(p).of = p.of
           /\ ~p.shut => ~ShutBegun(p).running
<1>1. CASE p.shut
  BY <1>1 DEF ShutBegun
<1>2. CASE ~p.shut
  <2> DEFINE c == IF p.call = "live" THEN "ending" ELSE p.call
  <2>1. ShutBegun(p) = [p EXCEPT !.running = FALSE, !.shut = TRUE, !.call = c]
    BY <1>2 DEF ShutBegun, Disabled, Autopilot
  <2>2. c \in {"none", "ending", "late"} /\ p.store # "closed"
    BY <1>2 DEF Autopilot, Orderly
  <2> HIDE DEF c
  <2>3. /\ ShutBegun(p) \in Autopilot /\ ShutBegun(p).of = p.of /\ ShutBegun(p).running = FALSE
        /\ ShutBegun(p).call = c /\ ShutBegun(p).store = p.store
    BY <2>1, <2>2 DEF Autopilot
  <2> QED
    BY <1>2, <2>2, <2>3 DEF Orderly
<1> QED
  BY <1>1, <1>2

LEMMA RuntimeStarts == RuntimeInit => RuntimeInv
<1> SUFFICES ASSUME RuntimeInit PROVE RuntimeInv
  OBVIOUS
<1>1. PICK autoStart \in BOOLEAN :
        /\ instance = IF autoStart THEN 1 ELSE 0
        /\ pilots = IF autoStart THEN <<Enabled(Pilot(1))>> ELSE <<>>
  BY DEF RuntimeInit
<1> DEFINE p == Enabled(Pilot(1))
<1>2. p \in Autopilot /\ Orderly(p) /\ p.of = 1 /\ p.shut = FALSE
  BY PilotIsNew, SwitchedPilot
<1> HIDE DEF p
<1>3. /\ text.of = 1 /\ text.on = TRUE /\ text \in [of : Nat, on : BOOLEAN] /\ textWanted \in BOOLEAN
      /\ leftover = 0 /\ crossed = FALSE
  BY DEF RuntimeInit
<1>4. save \in [Saves -> Reloading] /\ \A s \in Saves : save[s].at = "idle"
  BY DEF RuntimeInit, NotSaving, Reloading
<1>9. /\ version \in Nat /\ quit \in {"no", "pilot", "gone"} /\ awaited \in Nat
      /\ leftover \in Nat /\ crossed \in BOOLEAN
  BY DEF RuntimeInit
<1>8. TextsInTurn
  BY <1>3, <1>4 DEF TextsInTurn
<1>5. version = 1 /\ quit = "no" /\ awaited = 0
  BY DEF RuntimeInit
<1>6. CASE autoStart
  <2>1. instance = 1 /\ pilots = <<p>>
    BY <1>1, <1>6 DEF p
  <2>2. pilots \in Seq(Autopilot) /\ Len(pilots) = 1 /\ pilots[1] = p
    BY <1>2, <2>1
  <2>3. instance \in 0..Len(pilots)
    BY <2>1, <2>2
  <2>4. RuntimeTypes
    BY <1>3, <1>4, <1>9, <2>2, <2>3 DEF RuntimeTypes
  <2>5. AllOrderly /\ OthersAreOff /\ NewestInUse
    BY <1>2, <1>3, <1>5, <2>1, <2>2 DEF AllOrderly, OthersAreOff, NewestInUse
  <2> QED
    BY <1>8, <2>4, <2>5 DEF RuntimeInv
<1>7. CASE ~autoStart
  <2>1. instance = 0 /\ pilots = <<>>
    BY <1>1, <1>7
  <2>2. pilots \in Seq(Autopilot) /\ Len(pilots) = 0
    BY <2>1
  <2>3. instance \in 0..Len(pilots)
    BY <2>1, <2>2
  <2>4. RuntimeTypes
    BY <1>3, <1>4, <1>9, <2>2, <2>3 DEF RuntimeTypes
  <2>5. AllOrderly /\ OthersAreOff /\ NewestInUse
    BY <1>3, <1>5, <2>1, <2>2 DEF AllOrderly, OthersAreOff, NewestInUse
  <2> QED
    BY <1>8, <2>4, <2>5 DEF RuntimeInv
<1> QED
  BY <1>6, <1>7

\* The one that answers alone is the only one.
LEMMA RuntimeFits == RuntimeInv => OneAnswers /\ NewSettingsReachAll /\ RecordsLand
<1> SUFFICES ASSUME RuntimeTypes, AllOrderly, OthersAreOff, NewestInUse, TextsInTurn
             PROVE  OneAnswers /\ NewSettingsReachAll /\ RecordsLand
  BY DEF RuntimeInv
<1>1. OneAnswers
  <2> SUFFICES ASSUME quit = "no"
               PROVE  Cardinality({p \in 1..Len(pilots) : pilots[p].running}) <= 1
    BY DEF OneAnswers
  <2> DEFINE S == {p \in 1..Len(pilots) : pilots[p].running}
  <2>1. S \subseteq {instance}
    BY DEF OthersAreOff
  <2> HIDE DEF S
  <2>2. IsFiniteSet({instance}) /\ Cardinality({instance}) = 1
    BY FS_Singleton
  <2>3. Cardinality(S) <= Cardinality({instance})
    BY <2>1, <2>2, FS_Subset
  <2>4. Cardinality(S) \in Nat
    BY <2>1, <2>2, FS_Subset, FS_CardinalityType
  <2> QED
    BY <2>2, <2>3, <2>4 DEF S
<1>2. NewSettingsReachAll
  <2>1. ~Saving => \A s \in Saves : save[s].at # "text"
    BY DEF Saving
  <2> QED
    BY <2>1 DEF NewSettingsReachAll, NewestInUse, TextsInTurn
<1>3. RecordsLand
  BY DEF RecordsLand, AllOrderly, Orderly
<1> QED
  BY <1>1, <1>2, <1>3

\* One that is asked for is in use, and is a new one only if there was none.
LEMMA AutopilotsGiven ==
    ASSUME RuntimeTypes, AllOrderly
    PROVE  /\ Autopilots \in Seq(Autopilot) /\ InUse \in 1..Len(Autopilots) /\ InUse # 0
           /\ Len(pilots) <= Len(Autopilots) /\ Len(pilots) \in Nat /\ Len(Autopilots) \in Nat
           /\ \A i \in 1..Len(Autopilots) :
                 Orderly(Autopilots[i]) /\ (i # InUse => i \in 1..Len(pilots) /\ Autopilots[i] = pilots[i])
           /\ instance # 0 => InUse = instance /\ Autopilots[InUse] = pilots[instance]
           /\ instance = 0 => Autopilots[InUse] = Pilot(version)
<1>1. Len(pilots) \in Nat /\ pilots \in Seq(Autopilot) /\ instance \in 0..Len(pilots) /\ version \in Nat
  BY DEF RuntimeTypes
<1>2. CASE instance # 0
  <2>1. Autopilots = pilots /\ InUse = instance
    BY <1>2 DEF Autopilots, InUse
  <2> QED
    BY <1>1, <1>2, <2>1 DEF AllOrderly
<1>3. CASE instance = 0
  <2> DEFINE n == Pilot(version)
  <2>1. n \in Autopilot /\ Orderly(n)
    BY <1>1, PilotIsNew
  <2> HIDE DEF n
  <2>2. Autopilots = Append(pilots, n) /\ InUse = Len(pilots) + 1
    BY <1>3 DEF Autopilots, InUse, n
  <2>3. /\ Autopilots \in Seq(Autopilot) /\ Len(Autopilots) = Len(pilots) + 1
        /\ Autopilots[Len(pilots) + 1] = n /\ \A i \in 1..Len(pilots) : Autopilots[i] = pilots[i]
    BY <1>1, <2>1, <2>2
  <2>4. \A i \in 1..Len(Autopilots) :
            Orderly(Autopilots[i]) /\ (i # InUse => i \in 1..Len(pilots) /\ Autopilots[i] = pilots[i])
    BY <1>1, <2>1, <2>2, <2>3 DEF AllOrderly
  <2> QED
    BY <1>1, <1>3, <2>2, <2>3, <2>4 DEF n
<1> QED
  BY <1>2, <1>3

\* Enabling, disabling and looking use the one there is, or build it.
LEMMA GetKeeps ==
    ASSUME RuntimeInv, Get,
           pilots' \in {Autopilots, [Autopilots EXCEPT ![InUse] = Enabled(@)],
                        [Autopilots EXCEPT ![InUse] = Disabled(@)]}
    PROVE  /\ pilots' \in Seq(Autopilot) /\ instance' \in 0..Len(pilots')
           /\ AllOrderly'
           /\ quit = "no" => /\ \A i \in 1..Len(pilots') : pilots'[i].running => i = instance'
                             /\ instance' # 0 => ~pilots'[instance'].shut
           /\ pilots'[instance'].of = IF instance = 0 THEN version ELSE pilots[instance].of
<1>0. RuntimeTypes /\ AllOrderly /\ OthersAreOff
  BY DEF RuntimeInv
<1>1. /\ Autopilots \in Seq(Autopilot) /\ InUse \in 1..Len(Autopilots)
      /\ \A i \in 1..Len(Autopilots) :
            Orderly(Autopilots[i]) /\ (i # InUse => i \in 1..Len(pilots) /\ Autopilots[i] = pilots[i])
      /\ instance # 0 => InUse = instance /\ Autopilots[InUse] = pilots[instance]
      /\ instance = 0 => Autopilots[InUse] = Pilot(version)
  BY <1>0, AutopilotsGiven
<1> DEFINE A == Autopilots
           u == InUse
           p == A[u]
<1>2. instance' = u
  BY DEF Get
<1> HIDE DEF A, u
<1>3. PICK q \in {p, Enabled(p), Disabled(p)} : pilots' = [A EXCEPT ![u] = q]
  <2>1. A = [A EXCEPT ![u] = p]
    BY <1>1 DEF A, u
  <2> QED
    BY <2>1 DEF A, u
<1>4. A \in Seq(Autopilot) /\ u \in 1..Len(A) /\ p \in Autopilot /\ Orderly(p)
  BY <1>1 DEF A, u
<1>5. q \in Autopilot /\ Orderly(q) /\ q.of = p.of /\ q.shut = p.shut
  BY <1>3, <1>4, SwitchedPilot
<1> HIDE DEF p
<1>6. /\ pilots' \in Seq(Autopilot) /\ Len(pilots') = Len(A)
      /\ pilots'[u] = q /\ \A i \in 1..Len(A) : i # u => pilots'[i] = A[i]
  BY <1>3, <1>4, <1>5
<1>7. AllOrderly'
  BY <1>1, <1>5, <1>6 DEF AllOrderly, A, u
<1>8. p.shut = FALSE \/ quit # "no"
  <2>1. CASE instance = 0
    <3>1. p = Pilot(version) /\ version \in Nat
      BY <1>0, <1>1, <2>1 DEF p, A, u, RuntimeTypes
    <3> QED
      BY <3>1, PilotIsNew, <1>4 DEF Autopilot
  <2>2. CASE instance # 0
    BY <1>0, <1>1, <1>4, <2>2 DEF p, A, u, OthersAreOff, Autopilot
  <2> QED
    BY <2>1, <2>2
<1>9. p.of = IF instance = 0 THEN version ELSE pilots[instance].of
  <2>1. CASE instance = 0
    <3>1. p = Pilot(version) /\ version \in Nat
      BY <1>0, <1>1, <2>1 DEF p, A, u, RuntimeTypes
    <3> QED
      BY <2>1, <3>1, PilotIsNew
  <2>2. CASE instance # 0
    BY <1>1, <2>2 DEF p, A, u
  <2> QED
    BY <2>1, <2>2
<1>10. quit = "no" => \A i \in 1..Len(pilots') : pilots'[i].running => i = instance'
  <2> SUFFICES ASSUME quit = "no", NEW i \in 1..Len(pilots'), pilots'[i].running, i # u PROVE FALSE
    BY <1>2
  <2>1. i \in 1..Len(A) /\ pilots'[i] = A[i]
    BY <1>6
  <2>2. i \in 1..Len(pilots) /\ pilots'[i] = pilots[i] /\ i # InUse
    BY <1>1, <2>1 DEF A, u
  <2>3. i = instance
    BY <1>0, <2>2 DEF OthersAreOff
  <2>4. instance = 0
    BY <1>1, <2>2, <2>3
  <2> QED
    BY <2>2, <2>3, <2>4
<1> QED
  BY <1>2, <1>4, <1>5, <1>6, <1>7, <1>8, <1>9, <1>10

\* A call of one Autopilot moves.
LEMMA CallMoveKeeps ==
    ASSUME RuntimeInv, NEW p \in 1..Len(pilots), NEW new \in Autopilot, ChangePilot(p, new), Orderly(new),
           new.of = pilots[p].of, new.running = pilots[p].running, new.shut = pilots[p].shut
    PROVE  RuntimeInv'
<1>0. RuntimeTypes /\ AllOrderly /\ OthersAreOff /\ NewestInUse /\ TextsInTurn
  BY DEF RuntimeInv
<1>1. /\ pilots' = [pilots EXCEPT ![p] = new]
      /\ UNCHANGED <<version, instance, text, textWanted, leftover, crossed, save, quit, awaited>>
  BY DEF ChangePilot, textVars
<1>2. /\ pilots' \in Seq(Autopilot) /\ Len(pilots') = Len(pilots)
      /\ pilots'[p] = new /\ \A i \in 1..Len(pilots) : i # p => pilots'[i] = pilots[i]
  BY <1>0, <1>1 DEF RuntimeTypes
<1>3. \A i \in 1..Len(pilots) : /\ pilots'[i].of = pilots[i].of /\ pilots'[i].running = pilots[i].running
                                /\ pilots'[i].shut = pilots[i].shut
  BY <1>2
<1>4. instance # 0 => instance \in 1..Len(pilots)
  BY <1>0 DEF RuntimeTypes
<1>5. RuntimeTypes'
  BY <1>0, <1>1, <1>2 DEF RuntimeTypes
<1>6. AllOrderly'
  BY <1>0, <1>2 DEF AllOrderly
<1>7. OthersAreOff'
  <2> SUFFICES ASSUME quit = "no"
               PROVE  /\ \A i \in 1..Len(pilots) : pilots'[i].running => i = instance
                      /\ instance # 0 => ~pilots'[instance].shut
    BY <1>1, <1>2 DEF OthersAreOff
  <2> QED
    BY <1>0, <1>3, <1>4 DEF OthersAreOff
<1>8. NewestInUse'
  BY <1>0, <1>1, <1>3, <1>4 DEF NewestInUse
<1>9. TextsInTurn'
  BY <1>0, <1>1 DEF TextsInTurn
<1> QED
  BY <1>5, <1>6, <1>7, <1>8, <1>9 DEF RuntimeInv

LEMMA CallStepsKeep ==
    ASSUME RuntimeInv, NEW p \in 1..Len(pilots),
           PollStarts(p) \/ PollEnds(p) \/ CallIsEnded(p) \/ TeardownDone(p) \/ ShutDone(p)
    PROVE  RuntimeInv'
<1> DEFINE o == pilots[p]
<1>1. o \in Autopilot /\ Orderly(o)
  BY DEF RuntimeInv, RuntimeTypes, AllOrderly
<1>2. PICK new \in Autopilot :
        ChangePilot(p, new) /\ Orderly(new) /\ new.of = o.of /\ new.running = o.running /\ new.shut = o.shut
  <2>1. CASE PollStarts(p)
    <3> DEFINE n == [o EXCEPT !.polling = TRUE]
    <3>1. ChangePilot(p, n)
      BY <2>1 DEF PollStarts
    <3> HIDE DEF o
    <3>2. /\ n \in Autopilot /\ n.of = o.of /\ n.running = o.running /\ n.shut = o.shut
          /\ n.call = o.call /\ n.store = o.store
      BY <1>1 DEF Autopilot
    <3> HIDE DEF n
    <3>3. Orderly(n)
      BY <1>1, <3>2 DEF Orderly
    <3> QED
      BY <3>1, <3>2, <3>3
  <2>2. CASE PollEnds(p)
    <3>1. PICK answered \in BOOLEAN :
            ChangePilot(p, [o EXCEPT !.polling = FALSE,
                                     !.call = IF answered THEN (IF o.shut THEN "late" ELSE "live") ELSE @])
      BY <2>2 DEF PollEnds
    <3> DEFINE c == IF answered THEN (IF o.shut THEN "late" ELSE "live") ELSE o.call
               n == [o EXCEPT !.polling = FALSE, !.call = c]
    <3>2. ChangePilot(p, n)
      BY <3>1, <1>1 DEF Autopilot
    <3> HIDE DEF o
    <3>3. c \in {"none", "live", "ending", "late"}
      BY <1>1 DEF Autopilot
    <3>4. c = o.call \/ c = (IF o.shut THEN "late" ELSE "live")
      OBVIOUS
    <3> HIDE DEF c
    <3>5. /\ n \in Autopilot /\ n.of = o.of /\ n.running = o.running /\ n.shut = o.shut
          /\ n.call = c /\ n.store = o.store
      BY <1>1, <3>3 DEF Autopilot
    <3> HIDE DEF n
    <3>6. Orderly(n)
      BY <1>1, <3>4, <3>5 DEF Orderly
    <3> QED
      BY <3>2, <3>5, <3>6
  <2>3. CASE CallIsEnded(p)
    <3> DEFINE n == [o EXCEPT !.call = "ending"]
    <3>1. ChangePilot(p, n) /\ o.call = "live"
      BY <2>3 DEF CallIsEnded
    <3> HIDE DEF o
    <3>2. /\ n \in Autopilot /\ n.of = o.of /\ n.running = o.running /\ n.shut = o.shut
          /\ n.call = "ending" /\ n.store = o.store
      BY <1>1 DEF Autopilot
    <3> HIDE DEF n
    <3>3. Orderly(n)
      BY <1>1, <3>1, <3>2 DEF Orderly
    <3> QED
      BY <3>1, <3>2, <3>3
  <2>4. CASE TeardownDone(p)
    <3> DEFINE n == [o EXCEPT !.call = "none"]
    <3>1. ChangePilot(p, n)
      BY <2>4 DEF TeardownDone
    <3> HIDE DEF o
    <3>2. /\ n \in Autopilot /\ n.of = o.of /\ n.running = o.running /\ n.shut = o.shut
          /\ n.call = "none" /\ n.store = o.store
      BY <1>1 DEF Autopilot
    <3> HIDE DEF n
    <3>3. Orderly(n)
      BY <1>1, <3>2 DEF Orderly
    <3> QED
      BY <3>1, <3>2, <3>3
  <2>5. CASE ShutDone(p)
    <3> DEFINE n == [o EXCEPT !.store = "closed"]
    <3>1. ChangePilot(p, n) /\ o.shut /\ o.call # "ending"
      BY <2>5 DEF ShutDone
    <3> HIDE DEF o
    <3>2. /\ n \in Autopilot /\ n.of = o.of /\ n.running = o.running /\ n.shut = o.shut
          /\ n.call = o.call /\ n.store = "closed"
      BY <1>1 DEF Autopilot
    <3> HIDE DEF n
    <3>3. Orderly(n)
      BY <1>1, <3>1, <3>2 DEF Orderly
    <3> QED
      BY <3>1, <3>2, <3>3
  <2> QED
    BY <2>1, <2>2, <2>3, <2>4, <2>5
<1> QED
  BY <1>2, CallMoveKeeps

\* Shutting the one in use down.
LEMMA ShutKeeps ==
    ASSUME RuntimeInv, instance # 0, pilots' = [pilots EXCEPT ![instance] = ShutBegun(@)]
    PROVE  /\ pilots' \in Seq(Autopilot) /\ Len(pilots') = Len(pilots) /\ AllOrderly'
           /\ pilots'[instance].of = pilots[instance].of
           /\ quit = "no" => \A i \in 1..Len(pilots) : ~pilots'[i].running
<1>0. RuntimeTypes /\ AllOrderly /\ OthersAreOff
  BY DEF RuntimeInv
<1> DEFINE p == pilots[instance]
           q == ShutBegun(p)
<1>1. instance \in 1..Len(pilots) /\ pilots \in Seq(Autopilot) /\ p \in Autopilot /\ Orderly(p)
  BY <1>0 DEF RuntimeTypes, AllOrderly
<1>2. q \in Autopilot /\ Orderly(q) /\ q.of = p.of /\ (~p.shut => ~q.running)
  BY <1>1, PilotShut
<1>3. pilots' = [pilots EXCEPT ![instance] = q]
  OBVIOUS
<1> HIDE DEF q
<1>4. /\ pilots' \in Seq(Autopilot) /\ Len(pilots') = Len(pilots)
      /\ pilots'[instance] = q /\ \A i \in 1..Len(pilots) : i # instance => pilots'[i] = pilots[i]
  BY <1>1, <1>2, <1>3
<1>5. AllOrderly'
  BY <1>0, <1>2, <1>4 DEF AllOrderly
<1>6. quit = "no" => \A i \in 1..Len(pilots) : ~pilots'[i].running
  BY <1>0, <1>2, <1>4 DEF OthersAreOff
<1> QED
  BY <1>2, <1>4, <1>5, <1>6

\* A save that does not wait for the text service moves on, and texts stay as they were.
LEMMA TextsStay ==
    ASSUME RuntimeInv, UNCHANGED <<text, textWanted, leftover, crossed>>,
           \A t \in Saves : save[t].at = "text" <=> save'[t].at = "text",
           \A t \in Saves : save[t].at = "text" => save'[t].textOn = save[t].textOn
    PROVE  TextsInTurn'
  BY DEF RuntimeInv, TextsInTurn

LEMMA BeginKeeps ==
    ASSUME RuntimeInv, NEW s \in Saves, BeginSave(s)
    PROVE  RuntimeInv'
<1>0. RuntimeTypes /\ AllOrderly /\ OthersAreOff /\ TextsInTurn
  BY DEF RuntimeInv
<1> DEFINE r == [NotSaving EXCEPT !.at = "text", !.textOn = textWanted]
<1>1. /\ version' = version + 1 /\ save' = [save EXCEPT ![s] = r]
      /\ text' = [text EXCEPT !.on = FALSE]
      /\ crossed' = (crossed \/ \E t \in Saves : save[t].at = "text")
      /\ UNCHANGED <<pilots, instance, textWanted, leftover, quit, awaited>>
  BY DEF BeginSave
<1>2. r \in Reloading /\ r.at = "text" /\ r.textOn = textWanted
  BY <1>0 DEF NotSaving, Reloading, RuntimeTypes
<1> HIDE DEF r
<1>3. /\ save' \in [Saves -> Reloading] /\ save'[s] = r
      /\ \A t \in Saves : t # s => save'[t] = save[t]
  BY <1>0, <1>1, <1>2 DEF RuntimeTypes
<1>4. text' \in [of : Nat, on : BOOLEAN] /\ text'.on = FALSE
  BY <1>0, <1>1 DEF RuntimeTypes
<1>5. RuntimeTypes'
  BY <1>0, <1>1, <1>3, <1>4 DEF RuntimeTypes
<1>6. AllOrderly' /\ OthersAreOff'
  BY <1>0, <1>1 DEF AllOrderly, OthersAreOff
<1>7. NewestInUse'
  BY <1>2, <1>3 DEF NewestInUse
<1>8. ~crossed' => \A t \in Saves : save'[t].at = "text" => t = s
  BY <1>1, <1>3
<1>9. TextsInTurn'
  BY <1>0, <1>1, <1>2, <1>3, <1>4, <1>8 DEF TextsInTurn
<1> QED
  BY <1>5, <1>6, <1>7, <1>9 DEF RuntimeInv

LEMMA SwapKeeps ==
    ASSUME RuntimeInv, NEW s \in Saves, SwapText(s)
    PROVE  RuntimeInv'
<1>0. RuntimeTypes /\ AllOrderly /\ OthersAreOff /\ TextsInTurn
  BY DEF RuntimeInv
<1>1. /\ leftover' = (IF text.on THEN text.of ELSE leftover)
      /\ text' = [of |-> version, on |-> save[s].textOn /\ leftover' = 0]
      /\ save[s] \in Reloading /\ save[s].at = "text"
      /\ UNCHANGED <<version, textWanted, crossed, quit, awaited>>
  BY <1>0 DEF SwapText, RuntimeTypes
<1>2. /\ text' \in [of : Nat, on : BOOLEAN] /\ text'.of = version
      /\ text'.on <=> save[s].textOn /\ leftover' = 0
      /\ leftover' \in Nat
  BY <1>0, <1>1 DEF RuntimeTypes, Reloading
<1>3. PICK r \in Reloading : r.at # "text" /\ save' = [save EXCEPT ![s] = r]
  <2>1. CASE instance = 0
    <3>1. NotSaving \in Reloading /\ NotSaving.at # "text"
      BY DEF NotSaving, Reloading
    <3> QED
      BY <2>1, <3>1 DEF SwapText
  <2>2. CASE instance # 0
    <3> DEFINE r == [NotSaving EXCEPT !.at = "drain", !.prev = instance,
                            !.enabled = pilots[instance].running, !.waits = ~pilots[instance].shut]
    <3>1. pilots[instance] \in Autopilot /\ instance \in Nat
      BY <1>0, <2>2 DEF RuntimeTypes
    <3>2. r \in Reloading /\ r.at # "text"
      BY <3>1 DEF NotSaving, Reloading, Autopilot
    <3>3. save' = [save EXCEPT ![s] = r]
      BY <2>2 DEF SwapText
    <3> QED
      BY <3>2, <3>3
  <2> QED
    BY <2>1, <2>2
<1>4. /\ save' \in [Saves -> Reloading] /\ save'[s].at # "text"
      /\ \A t \in Saves : t # s => save'[t] = save[t]
  BY <1>0, <1>3 DEF RuntimeTypes
<1>5. TextsInTurn'
  <2>1. leftover' # 0 => crossed'
    BY <1>0, <1>1 DEF TextsInTurn
  <2>2. ~crossed' => \A t \in Saves : save'[t].at # "text"
    BY <1>0, <1>1, <1>4 DEF TextsInTurn
  <2>3. ~crossed' /\ textWanted' => text'.on
    BY <1>0, <1>1, <1>2, <2>1 DEF TextsInTurn
  <2> QED
    BY <2>1, <2>2, <2>3 DEF TextsInTurn
<1>6. instance' = 0 /\ pilots' \in Seq(Autopilot) /\ AllOrderly' /\ OthersAreOff'
  <2>1. CASE instance = 0
    <3>1. pilots' = pilots /\ instance' = instance
      BY <2>1 DEF SwapText
    <3> QED
      BY <1>0, <1>1, <2>1, <3>1 DEF RuntimeTypes, AllOrderly, OthersAreOff
  <2>2. CASE instance # 0
    <3>1. instance' = 0 /\ pilots' = [pilots EXCEPT ![instance] = ShutBegun(@)]
      BY <2>2 DEF SwapText
    <3>2. /\ pilots' \in Seq(Autopilot) /\ Len(pilots') = Len(pilots) /\ AllOrderly'
          /\ quit = "no" => \A i \in 1..Len(pilots) : ~pilots'[i].running
      BY <2>2, <3>1, ShutKeeps
    <3> QED
      BY <1>1, <3>1, <3>2 DEF OthersAreOff
  <2> QED
    BY <2>1, <2>2
<1>7. RuntimeTypes'
  BY <1>0, <1>1, <1>2, <1>4, <1>6 DEF RuntimeTypes
<1>8. NewestInUse'
  BY <1>1, <1>2, <1>6 DEF NewestInUse
<1> QED
  BY <1>5, <1>6, <1>7, <1>8 DEF RuntimeInv

LEMMA FinishKeeps ==
    ASSUME RuntimeInv, NEW s \in Saves, FinishSave(s)
    PROVE  RuntimeInv'
<1>0. RuntimeTypes /\ AllOrderly /\ OthersAreOff /\ NewestInUse
  BY DEF RuntimeInv
<1>1. /\ save[s].at = "drain" /\ UNCHANGED <<version, text, textWanted, leftover, crossed, quit, awaited>>
  BY DEF FinishSave, Drained, textVars
<1>2. PICK r \in Reloading : r.at # "text" /\ save' = [save EXCEPT ![s] = r]
  <2>1. NotSaving \in Reloading /\ NotSaving.at # "text"
    BY DEF NotSaving, Reloading
  <2> DEFINE f == [NotSaving EXCEPT !.at = "failed"]
  <2>2. f \in Reloading /\ f.at # "text"
    BY DEF NotSaving, Reloading
  <2>3. save' = [save EXCEPT ![s] = NotSaving] \/ save' = [save EXCEPT ![s] = f]
    BY DEF FinishSave
  <2> QED
    BY <2>1, <2>2, <2>3
<1>3. /\ save' \in [Saves -> Reloading] /\ save'[s].at # "text"
      /\ \A t \in Saves : t # s => save'[t] = save[t]
  BY <1>0, <1>2 DEF RuntimeTypes
<1>4. \A t \in Saves : save[t].at = "text" <=> save'[t].at = "text"
  BY <1>1, <1>3
<1>5. TextsInTurn'
  BY <1>1, <1>3, <1>4, TextsStay
<1>6. CASE Get /\ pilots' = [Autopilots EXCEPT ![InUse] = Enabled(@)]
  <2>1. /\ pilots' \in Seq(Autopilot) /\ instance' \in 0..Len(pilots') /\ AllOrderly'
        /\ quit = "no" => /\ \A i \in 1..Len(pilots') : pilots'[i].running => i = instance'
                          /\ instance' # 0 => ~pilots'[instance'].shut
        /\ pilots'[instance'].of = IF instance = 0 THEN version ELSE pilots[instance].of
    BY <1>6, GetKeeps
  <2>2. RuntimeTypes'
    BY <1>0, <1>1, <1>3, <2>1 DEF RuntimeTypes
  <2>3. OthersAreOff'
    BY <1>1, <2>1 DEF OthersAreOff
  <2>4. NewestInUse'
    BY <1>0, <1>1, <1>4, <2>1 DEF NewestInUse
  <2> QED
    BY <1>5, <2>1, <2>2, <2>3, <2>4 DEF RuntimeInv
<1>7. CASE UNCHANGED <<pilots, instance>>
  <2>1. RuntimeTypes'
    BY <1>0, <1>1, <1>3, <1>7 DEF RuntimeTypes
  <2>2. AllOrderly' /\ OthersAreOff'
    BY <1>0, <1>1, <1>7 DEF AllOrderly, OthersAreOff
  <2>3. NewestInUse'
    BY <1>0, <1>1, <1>4, <1>7 DEF NewestInUse
  <2> QED
    BY <1>5, <2>1, <2>2, <2>3 DEF RuntimeInv
<1> QED
  BY <1>6, <1>7 DEF FinishSave

LEMMA QuitKeeps ==
    ASSUME RuntimeInv, BeginQuit \/ QuitText
    PROVE  RuntimeInv'
<1>0. RuntimeTypes /\ AllOrderly /\ OthersAreOff /\ NewestInUse /\ TextsInTurn
  BY DEF RuntimeInv
<1>1. CASE BeginQuit
  <2>1. /\ quit = "no" /\ quit' = "pilot" /\ awaited' = instance
        /\ UNCHANGED <<version, instance, text, textWanted, leftover, crossed, save>>
    BY <1>1 DEF BeginQuit, textVars
  <2>2. OthersAreOff' /\ TextsInTurn'
    BY <1>0, <2>1 DEF OthersAreOff, TextsInTurn
  <2>3. CASE instance = 0
    <3>1. pilots' = pilots
      BY <1>1, <2>3 DEF BeginQuit
    <3>2. RuntimeTypes' /\ AllOrderly'
      BY <1>0, <2>1, <3>1 DEF RuntimeTypes, AllOrderly
    <3>3. NewestInUse'
      BY <1>0, <2>1, <3>1 DEF NewestInUse
    <3> QED
      BY <2>2, <3>2, <3>3 DEF RuntimeInv
  <2>4. CASE instance # 0
    <3>1. pilots' = [pilots EXCEPT ![instance] = ShutBegun(@)]
      BY <1>1, <2>4 DEF BeginQuit
    <3>2. /\ pilots' \in Seq(Autopilot) /\ Len(pilots') = Len(pilots) /\ AllOrderly'
          /\ pilots'[instance].of = pilots[instance].of
      BY <2>4, <3>1, ShutKeeps
    <3>3. RuntimeTypes'
      BY <1>0, <2>1, <3>2 DEF RuntimeTypes
    <3>4. NewestInUse'
      BY <1>0, <2>1, <3>2 DEF NewestInUse
    <3> QED
      BY <2>2, <3>2, <3>3, <3>4 DEF RuntimeInv
  <2> QED
    BY <2>3, <2>4
<1>2. CASE QuitText
  <2>1. /\ quit' = "gone" /\ awaited' = 0 /\ textWanted' = FALSE /\ text' = [text EXCEPT !.on = FALSE]
        /\ leftover' = 0 /\ pilots' = <<>> /\ instance' = 0 /\ UNCHANGED <<version, crossed>>
        /\ save' = [s \in Saves |-> NotSaving]
    BY <1>2 DEF QuitText
  <2>2. text' \in [of : Nat, on : BOOLEAN]
    BY <1>0, <2>1 DEF RuntimeTypes
  <2>3. save' \in [Saves -> Reloading] /\ \A s \in Saves : save'[s].at = "idle"
    BY <2>1 DEF NotSaving, Reloading
  <2>4. pilots' \in Seq(Autopilot) /\ Len(pilots') = 0
    BY <2>1
  <2>9. /\ quit' \in {"no", "pilot", "gone"} /\ awaited' \in Nat /\ leftover' \in Nat
        /\ instance' = 0 /\ textWanted' \in BOOLEAN
    BY <2>1
  <2>11. instance' \in 0..Len(pilots')
    BY <2>4, <2>9
  <2>10. version' \in Nat /\ crossed' \in BOOLEAN
    BY <1>0, <2>1 DEF RuntimeTypes
  <2>5. RuntimeTypes'
    BY <2>2, <2>3, <2>4, <2>9, <2>10, <2>11 DEF RuntimeTypes
  <2>6. AllOrderly'
    BY <2>4 DEF AllOrderly
  <2>8. OthersAreOff' /\ NewestInUse'
    <3>1. quit' # "no" /\ ~(quit' # "gone")
      BY <2>1
    <3> QED
      BY <3>1 DEF OthersAreOff, NewestInUse
  <2>7. TextsInTurn'
    BY <2>1, <2>3 DEF TextsInTurn
  <2> QED
    BY <2>5, <2>6, <2>7, <2>8 DEF RuntimeInv
<1> QED
  BY <1>1, <1>2

LEMMA RuntimeKeeps == RuntimeInv /\ [RuntimeNext]_runtimeVars => RuntimeInv'
<1> SUFFICES ASSUME RuntimeInv, [RuntimeNext]_runtimeVars PROVE RuntimeInv'
  OBVIOUS
<1>0. RuntimeTypes /\ AllOrderly /\ OthersAreOff /\ NewestInUse /\ TextsInTurn
  BY DEF RuntimeInv
<1>1. CASE Enable \/ Disable \/ Look
  <2>1. Get /\ pilots' \in {Autopilots, [Autopilots EXCEPT ![InUse] = Enabled(@)],
                            [Autopilots EXCEPT ![InUse] = Disabled(@)]}
    BY <1>1 DEF Enable, Disable, Look
  <2>2. UNCHANGED <<version, text, textWanted, leftover, crossed, save, quit, awaited>>
    BY <1>1 DEF Enable, Disable, Look, textVars
  <2>3. /\ pilots' \in Seq(Autopilot) /\ instance' \in 0..Len(pilots') /\ AllOrderly'
        /\ quit = "no" => /\ \A i \in 1..Len(pilots') : pilots'[i].running => i = instance'
                          /\ instance' # 0 => ~pilots'[instance'].shut
        /\ pilots'[instance'].of = IF instance = 0 THEN version ELSE pilots[instance].of
    BY <2>1, GetKeeps
  <2>4. RuntimeTypes'
    BY <1>0, <2>2, <2>3 DEF RuntimeTypes
  <2>5. OthersAreOff'
    BY <2>2, <2>3 DEF OthersAreOff
  <2>6. NewestInUse'
    BY <1>0, <2>2, <2>3 DEF NewestInUse
  <2>7. TextsInTurn'
    BY <2>2, TextsStay
  <2> QED
    BY <2>3, <2>4, <2>5, <2>6, <2>7 DEF RuntimeInv
<1>2. ASSUME NEW s \in Saves, BeginSave(s) \/ SwapText(s) \/ FinishSave(s) PROVE RuntimeInv'
  BY <1>2, BeginKeeps, SwapKeeps, FinishKeeps
<1>3. CASE BeginQuit \/ QuitText
  BY <1>3, QuitKeeps
<1>4. ASSUME NEW p \in 1..Len(pilots),
             PollStarts(p) \/ PollEnds(p) \/ CallIsEnded(p) \/ TeardownDone(p) \/ ShutDone(p)
      PROVE  RuntimeInv'
  BY <1>4, CallStepsKeep
<1>5. CASE UNCHANGED runtimeVars
  <2>1. UNCHANGED <<version, pilots, instance, text, textWanted, leftover, crossed, save, quit, awaited>>
    BY <1>5 DEF runtimeVars, textVars
  <2>2. RuntimeTypes' /\ AllOrderly'
    BY <1>0, <2>1 DEF RuntimeTypes, AllOrderly
  <2>3. OthersAreOff' /\ NewestInUse' /\ TextsInTurn'
    BY <1>0, <2>1 DEF OthersAreOff, NewestInUse, TextsInTurn
  <2> QED
    BY <2>2, <2>3 DEF RuntimeInv
<1> QED
  BY <1>1, <1>2, <1>3, <1>4, <1>5 DEF RuntimeNext
-----------------------------------------------------------------------------
(* What an operator sees: the counters of each Autopilot, and the endpoint *)

Outcomes == {"completed", "failed", "missed", "rejected"}

LedgerLine ==
    [of : 0..MaxTenures, at : {"none", "live", "teardown", "ended", "gone"},
     asked : Outcomes \cup {"none"}, record : Outcomes \cup {"none"}]

MetricsTypes ==
    /\ tenure \in Tenures /\ answering \in [Tenures -> BOOLEAN]
    /\ retired \in [Tenures -> {"no", "draining", "done"}]
    /\ ledger \in [Inbound -> LedgerLine]
    /\ active \in [Tenures -> SUBSET Inbound] /\ ending \in [Tenures -> SUBSET Inbound]
    /\ count \in [Tenures -> [Counter -> Nat]]
    /\ binding \in [Tenures -> Nat] /\ health \in [Tenures -> BOOLEAN]
    /\ port \in 0..MaxTenures /\ late \subseteq Tenures

\* How a call ended is decided before it ends, and is on its record only when it is gone.
OutcomesInTime ==
    \A c \in Inbound :
        /\ ledger[c].at \in {"teardown", "ended"} => ledger[c].asked \in Outcomes
        /\ ledger[c].at # "gone" => ledger[c].record = "none"

Underway(t) == {c \in Inbound : ledger[c].of = t /\ ledger[c].at \in {"live", "teardown"}}
ActiveAreUnderway == \A t \in Tenures : active[t] = Underway(t)

EndingHaveEnded ==
    \A t \in Tenures : \A c \in ending[t] : ledger[c].of = t /\ ledger[c].at \in {"ended", "gone"}

StartedAddUp ==
    \A t \in Tenures : count[t]["started"] = Cardinality(active[t]) + Cardinality(ending[t]) + Total(t)

Recorded(t, k) == {c \in Inbound : ledger[c].of = t /\ ledger[c].record = k}
OutcomesAreRecorded ==
    \A t \in Tenures : \A k \in Outcomes : count[t][k] <= Cardinality(Recorded(t, k))

\* Who has the port knows it; one that kept it is known to be late; the ones before are done, and
\* the ones to come have asked for nothing.
PortIsKnown ==
    /\ \A t \in Tenures : health[t] <=> port = t
    /\ port # 0 /\ port \notin late => retired[port] # "done"
    /\ \A t \in Tenures : t < tenure => retired[t] = "done"
    /\ \A t \in Tenures : t > tenure => binding[t] = 0
    /\ port <= tenure

CountsInv ==
    OutcomesInTime /\ ActiveAreUnderway /\ EndingHaveEnded /\ StartedAddUp /\ OutcomesAreRecorded

MetricsInv == MetricsTypes /\ CountsInv /\ PortIsKnown

LEMMA TenuresAre == Tenures \subseteq Nat /\ 1 \in Tenures /\ \A t \in Tenures : t # 0
  BY MetricsAssumption DEF Tenures

LEMMA SomeCalls ==
    ASSUME NEW S \in SUBSET Inbound
    PROVE  /\ IsFiniteSet(S) /\ Cardinality(S) \in Nat
           /\ \A c \in Inbound : c \notin S => Cardinality(S \cup {c}) = Cardinality(S) + 1
           /\ \A c \in S : Cardinality(S \ {c}) + 1 = Cardinality(S)
<1>1. IsFiniteSet(S)
  BY MetricsAssumption, FS_Subset
<1>2. Cardinality(S) \in Nat
  BY <1>1, FS_CardinalityType
<1>3. \A c \in Inbound : c \notin S => Cardinality(S \cup {c}) = Cardinality(S) + 1
  BY <1>1, FS_AddElement
<1>4. ASSUME NEW c \in S PROVE Cardinality(S \ {c}) + 1 = Cardinality(S)
  <2>1. Cardinality(S \ {c}) = Cardinality(S) - 1
    BY <1>1, FS_RemoveElement
  <2> QED
    BY <1>2, <2>1
<1> QED
  BY <1>1, <1>2, <1>3, <1>4

LEMMA MoreCalls ==
    ASSUME NEW S \in SUBSET Inbound, NEW R \in SUBSET S
    PROVE  Cardinality(R) <= Cardinality(S)
  BY SomeCalls, FS_Subset

\* One counter of one Autopilot goes up.
LEMMA OneMore ==
    ASSUME count \in [Tenures -> [Counter -> Nat]], NEW t \in Tenures, NEW k \in Counter
    PROVE  /\ Plus(t, k) \in [Tenures -> [Counter -> Nat]]
           /\ Plus(t, k)[t][k] = count[t][k] + 1
           /\ \A j \in Counter : j # k => Plus(t, k)[t][j] = count[t][j]
           /\ \A u \in Tenures : u # t => Plus(t, k)[u] = count[u]
  BY DEF Plus

LEMMA TotalIs ==
    ASSUME count \in [Tenures -> [Counter -> Nat]], NEW t \in Tenures
    PROVE  /\ Total(t) = count[t]["completed"] + count[t]["failed"] + count[t]["missed"] + count[t]["rejected"]
           /\ Total(t) \in Nat
  BY DEF Total, Counter

LEMMA MetricsStart == MetricsInit => MetricsInv
<1> SUFFICES ASSUME MetricsInit PROVE MetricsInv
  OBVIOUS
<1>1. /\ tenure = 1 /\ port = 0 /\ late = {}
      /\ answering = [t \in Tenures |-> FALSE] /\ retired = [t \in Tenures |-> "no"]
      /\ binding = [t \in Tenures |-> 0] /\ health = [t \in Tenures |-> FALSE]
  BY DEF MetricsInit
<1>2. /\ active = [t \in Tenures |-> {}] /\ ending = [t \in Tenures |-> {}]
      /\ count = [t \in Tenures |-> [k \in Counter |-> 0]]
  BY DEF MetricsInit
<1>3. \A c \in Inbound : /\ ledger[c] \in LedgerLine
                         /\ ledger[c].of = 0 /\ ledger[c].at = "none" /\ ledger[c].record = "none"
  BY MetricsAssumption DEF MetricsInit, LedgerLine
<1>4. ledger \in [Inbound -> LedgerLine]
  BY <1>3 DEF MetricsInit
<1>5. MetricsTypes
  BY <1>1, <1>2, <1>4, TenuresAre, MetricsAssumption DEF MetricsTypes
<1>6. OutcomesInTime /\ EndingHaveEnded
  BY <1>2, <1>3 DEF OutcomesInTime, EndingHaveEnded
<1>7. ActiveAreUnderway
  BY <1>2, <1>3 DEF ActiveAreUnderway, Underway
<1>8. StartedAddUp
  <2> SUFFICES ASSUME NEW t \in Tenures
               PROVE  count[t]["started"] = Cardinality(active[t]) + Cardinality(ending[t]) + Total(t)
    BY DEF StartedAddUp
  <2>1. Cardinality(active[t]) = 0 /\ Cardinality(ending[t]) = 0
    BY <1>2, FS_EmptySet
  <2>2. Total(t) = 0 /\ count[t]["started"] = 0
    BY <1>2 DEF Total, Counter
  <2> QED
    BY <2>1, <2>2
<1>9. OutcomesAreRecorded
  <2> SUFFICES ASSUME NEW t \in Tenures, NEW k \in Outcomes
               PROVE  count[t][k] <= Cardinality(Recorded(t, k))
    BY DEF OutcomesAreRecorded
  <2>1. Recorded(t, k) \in SUBSET Inbound
    BY DEF Recorded
  <2>2. Cardinality(Recorded(t, k)) \in Nat
    BY <2>1, SomeCalls
  <2>3. count[t][k] = 0
    BY <1>2 DEF Outcomes, Counter
  <2> QED
    BY <2>2, <2>3
<1>10. PortIsKnown
  BY <1>1, TenuresAre DEF PortIsKnown
<1> QED
  BY <1>5, <1>6, <1>7, <1>8, <1>9, <1>10 DEF MetricsInv, CountsInv

LEMMA MetricsFit == MetricsInv => CountsAddUp /\ EndpointIsCurrent
<1> SUFFICES ASSUME MetricsTypes, CountsInv, PortIsKnown PROVE CountsAddUp /\ EndpointIsCurrent
  BY DEF MetricsInv
<1>1. CountsAddUp
  <2>1. Counter \ {"started"} = Outcomes
    BY DEF Counter, Outcomes
  <2>2. \A t \in Tenures : \A k \in Outcomes :
            count[t][k] <= Cardinality({c \in Inbound : ledger[c].of = t /\ ledger[c].record = k})
    BY DEF CountsInv, OutcomesAreRecorded, Recorded
  <2>3. \A t \in Tenures :
            active[t] = {c \in Inbound : ledger[c].of = t /\ ledger[c].at \in {"live", "teardown"}}
    BY DEF CountsInv, ActiveAreUnderway, Underway
  <2> QED
    BY <2>1, <2>2, <2>3 DEF CountsInv, StartedAddUp, CountsAddUp
<1>2. EndpointIsCurrent
  <2> SUFFICES ASSUME port \notin late
               PROVE  port \in {0, tenure} /\ (HealthStatus = "degraded" => ~answering[tenure])
    BY DEF EndpointIsCurrent
  <2>1. port \in {0, tenure}
    <3> SUFFICES ASSUME port # 0, port # tenure PROVE FALSE
      OBVIOUS
    <3>1. port \in Tenures /\ port < tenure
      BY MetricsAssumption DEF MetricsTypes, PortIsKnown, Tenures
    <3> QED
      BY <3>1 DEF PortIsKnown
  <2>2. HealthStatus = "degraded" => port # 0 /\ ~answering[port]
    BY DEF HealthStatus
  <2> QED
    BY <2>1, <2>2
<1> QED
  BY <1>1, <1>2

\* A step of the endpoint that leaves the calls alone.
LEMMA CountsStay ==
    ASSUME CountsInv, UNCHANGED countVars PROVE CountsInv'
  BY DEF countVars, CountsInv, OutcomesInTime, ActiveAreUnderway, Underway, EndingHaveEnded, StartedAddUp,
         Total, OutcomesAreRecorded, Recorded

LEMMA PortStays ==
    ASSUME PortIsKnown, UNCHANGED endpointVars PROVE PortIsKnown'
  BY DEF endpointVars, PortIsKnown

\* A step that moves one call on and puts nothing on its record.
LEMMA RecordsUntouched ==
    ASSUME MetricsTypes, OutcomesAreRecorded,
           \A k \in Outcomes : \A t \in Tenures : count'[t][k] = count[t][k],
           \A c \in Inbound : /\ ledger'[c].record = ledger[c].record
                              /\ ledger[c].record # "none" => ledger'[c].of = ledger[c].of
                              /\ ledger[c].record = "none" => ledger'[c].record = "none"
    PROVE  OutcomesAreRecorded'
<1> SUFFICES ASSUME NEW t \in Tenures, NEW k \in Outcomes
             PROVE  count'[t][k] <= Cardinality(Recorded(t, k)')
  BY DEF OutcomesAreRecorded
<1>1. k # "none"
  BY DEF Outcomes
<1>2. Recorded(t, k)' = Recorded(t, k)
  BY <1>1 DEF Recorded
<1> QED
  BY <1>2 DEF OutcomesAreRecorded

LEMMA StartKeeps ==
    ASSUME MetricsInv, NEW c \in Inbound, CallStarted(c) PROVE MetricsTypes' /\ CountsInv'
<1>0. /\ MetricsTypes /\ OutcomesInTime /\ ActiveAreUnderway /\ EndingHaveEnded /\ StartedAddUp
      /\ OutcomesAreRecorded
  BY DEF MetricsInv, CountsInv
<1>1. /\ ledger[c].at = "none"
      /\ ledger' = [ledger EXCEPT ![c].of = tenure, ![c].at = "live"]
      /\ count' = Plus(tenure, "started")
      /\ active' = [active EXCEPT ![tenure] = @ \cup {c}]
      /\ ending' = ending
      /\ UNCHANGED endpointVars
  BY DEF CallStarted, OnIncoming
<1>2. tenure \in Tenures /\ ledger[c] \in LedgerLine /\ tenure \in 0..MaxTenures
  BY <1>0, MetricsAssumption DEF MetricsTypes, Tenures
<1>3. /\ ledger' \in [Inbound -> LedgerLine]
      /\ ledger'[c].of = tenure /\ ledger'[c].at = "live" /\ ledger'[c].record = ledger[c].record
      /\ \A d \in Inbound : d # c => ledger'[d] = ledger[d]
  <2> DEFINE l == [ledger[c] EXCEPT !.of = tenure, !.at = "live"]
  <2>1. l \in LedgerLine /\ l.of = tenure /\ l.at = "live" /\ l.record = ledger[c].record
    BY <1>2 DEF LedgerLine
  <2>2. ledger' = [ledger EXCEPT ![c] = l]
    BY <1>0, <1>1, <1>2 DEF MetricsTypes, LedgerLine
  <2> HIDE DEF l
  <2> QED
    BY <1>0, <2>1, <2>2 DEF MetricsTypes
<1>4. "started" \in Counter
  BY DEF Counter
<1>5. /\ count' \in [Tenures -> [Counter -> Nat]]
      /\ count'[tenure]["started"] = count[tenure]["started"] + 1
      /\ \A j \in Counter : j # "started" => count'[tenure][j] = count[tenure][j]
      /\ \A u \in Tenures : u # tenure => count'[u] = count[u]
  BY <1>0, <1>1, <1>2, <1>4, OneMore DEF MetricsTypes
<1>6. /\ active' \in [Tenures -> SUBSET Inbound] /\ active'[tenure] = active[tenure] \cup {c}
      /\ \A u \in Tenures : u # tenure => active'[u] = active[u]
  BY <1>0, <1>1, <1>2 DEF MetricsTypes
<1>7. MetricsTypes'
  BY <1>0, <1>1, <1>3, <1>5, <1>6 DEF MetricsTypes, endpointVars
<1>8. OutcomesInTime'
  BY <1>0, <1>1, <1>3 DEF OutcomesInTime
<1>9. ActiveAreUnderway'
  <2> SUFFICES ASSUME NEW t \in Tenures PROVE active'[t] = Underway(t)'
    BY DEF ActiveAreUnderway
  <2>1. active[t] = Underway(t)
    BY <1>0 DEF ActiveAreUnderway
  <2>2. CASE t = tenure
    BY <1>1, <1>3, <1>6, <2>1, <2>2 DEF Underway
  <2>3. CASE t # tenure
    BY <1>1, <1>3, <1>6, <2>1, <2>3 DEF Underway
  <2> QED
    BY <2>2, <2>3
<1>10. EndingHaveEnded'
  <2>1. \A t \in Tenures : c \notin ending[t]
    BY <1>0, <1>1 DEF EndingHaveEnded
  <2>2. \A t \in Tenures : ending[t] \subseteq Inbound
    BY <1>0 DEF MetricsTypes
  <2> QED
    BY <1>0, <1>1, <1>3, <2>1, <2>2 DEF EndingHaveEnded
<1>11. StartedAddUp'
  <2> SUFFICES ASSUME NEW t \in Tenures
               PROVE  count'[t]["started"] = Cardinality(active'[t]) + Cardinality(ending'[t]) + Total(t)'
    BY DEF StartedAddUp
  <2>1. count[t]["started"] = Cardinality(active[t]) + Cardinality(ending[t]) + Total(t)
    BY <1>0 DEF StartedAddUp
  <2>2. Total(t)' = Total(t)
    BY <1>5 DEF Total, Counter
  <2>3. CASE t = tenure
    <3>1. c \notin active[t]
      BY <1>0, <1>1, <2>3 DEF ActiveAreUnderway, Underway
    <3>2. active[t] \in SUBSET Inbound /\ ending[t] \in SUBSET Inbound
      BY <1>0 DEF MetricsTypes
    <3>3. /\ Cardinality(active'[t]) = Cardinality(active[t]) + 1
          /\ Cardinality(active[t]) \in Nat /\ Cardinality(ending[t]) \in Nat
      BY <1>6, <2>3, <3>1, <3>2, SomeCalls
    <3>4. Total(t) \in Nat
      BY <1>0, TotalIs DEF MetricsTypes
    <3> QED
      BY <1>1, <1>5, <2>1, <2>2, <2>3, <3>3, <3>4
  <2>4. CASE t # tenure
    BY <1>1, <1>5, <1>6, <2>1, <2>2, <2>4
  <2> QED
    BY <2>3, <2>4
<1>12. OutcomesAreRecorded'
  <2>1. \A k \in Outcomes : k \in Counter /\ k # "started"
    BY DEF Outcomes, Counter
  <2>2. \A k \in Outcomes : \A t \in Tenures : count'[t][k] = count[t][k]
    BY <1>5, <2>1
  <2>3. ledger[c].record = "none"
    BY <1>0, <1>1 DEF OutcomesInTime
  <2>4. \A d \in Inbound : /\ ledger'[d].record = ledger[d].record
                           /\ ledger[d].record # "none" => ledger'[d].of = ledger[d].of
                           /\ ledger[d].record = "none" => ledger'[d].record = "none"
    BY <1>3, <2>3
  <2> QED
    BY <1>0, <2>2, <2>4, RecordsUntouched
<1> QED
  BY <1>7, <1>8, <1>9, <1>10, <1>11, <1>12 DEF CountsInv

LEMMA EndKeeps ==
    ASSUME MetricsInv, NEW c \in Inbound, MachineEnds(c) PROVE MetricsTypes' /\ CountsInv'
<1>0. /\ MetricsTypes /\ OutcomesInTime /\ ActiveAreUnderway /\ EndingHaveEnded /\ StartedAddUp
      /\ OutcomesAreRecorded
  BY DEF MetricsInv, CountsInv
<1> DEFINE o == ledger[c].of
<1>1. /\ ledger[c].at = "teardown"
      /\ ledger' = [ledger EXCEPT ![c].at = "ended"]
      /\ count' = count
      /\ active' = [active EXCEPT ![o] = @ \ {c}]
      /\ ending' = [ending EXCEPT ![o] = @ \cup {c}]
      /\ UNCHANGED endpointVars
  BY DEF MachineEnds, Move, OnEnded
<1>2. ledger[c] \in LedgerLine
  BY <1>0 DEF MetricsTypes
<1>3. /\ ledger' \in [Inbound -> LedgerLine]
      /\ ledger'[c].of = o /\ ledger'[c].at = "ended" /\ ledger'[c].record = ledger[c].record
      /\ ledger'[c].asked = ledger[c].asked
      /\ \A d \in Inbound : d # c => ledger'[d] = ledger[d]
  <2> DEFINE l == [ledger[c] EXCEPT !.at = "ended"]
  <2>1. l \in LedgerLine /\ l.of = o /\ l.at = "ended" /\ l.record = ledger[c].record /\ l.asked = ledger[c].asked
    BY <1>2 DEF LedgerLine
  <2>2. ledger' = [ledger EXCEPT ![c] = l]
    BY <1>0, <1>1, <1>2 DEF MetricsTypes, LedgerLine
  <2> HIDE DEF l
  <2> QED
    BY <1>0, <2>1, <2>2 DEF MetricsTypes
<1> HIDE DEF o
<1>6. /\ active' \in [Tenures -> SUBSET Inbound] /\ (o \in Tenures => active'[o] = active[o] \ {c})
      /\ \A u \in Tenures : u # o => active'[u] = active[u]
      /\ ending' \in [Tenures -> SUBSET Inbound] /\ (o \in Tenures => ending'[o] = ending[o] \cup {c})
      /\ \A u \in Tenures : u # o => ending'[u] = ending[u]
  BY <1>0, <1>1 DEF MetricsTypes
<1>7. MetricsTypes'
  BY <1>0, <1>1, <1>3, <1>6 DEF MetricsTypes, endpointVars
<1>8. OutcomesInTime'
  BY <1>0, <1>1, <1>3 DEF OutcomesInTime
<1>9. ActiveAreUnderway'
  <2> SUFFICES ASSUME NEW t \in Tenures PROVE active'[t] = Underway(t)'
    BY DEF ActiveAreUnderway
  <2>1. active[t] = Underway(t)
    BY <1>0 DEF ActiveAreUnderway
  <2>2. CASE t = o
    BY <1>1, <1>3, <1>6, <2>1, <2>2 DEF Underway
  <2>3. CASE t # o
    <3>1. c \notin Underway(t)
      BY <2>3 DEF Underway, o
    <3> QED
      BY <1>1, <1>3, <1>6, <2>1, <2>3, <3>1 DEF Underway
  <2> QED
    BY <2>2, <2>3
<1>10. EndingHaveEnded'
  <2> SUFFICES ASSUME NEW t \in Tenures, NEW d \in ending'[t]
               PROVE  ledger'[d].of = t /\ ledger'[d].at \in {"ended", "gone"}
    BY DEF EndingHaveEnded
  <2>1. d \in Inbound
    BY <1>6
  <2>2. CASE d = c
    <3>1. c \notin ending[t]
      BY <1>0, <1>1 DEF EndingHaveEnded
    <3>2. t = o
      BY <1>6, <2>2, <3>1
    <3> QED
      BY <1>3, <2>2, <3>2
  <2>3. CASE d # c
    <3>1. d \in ending[t]
      BY <1>6, <2>3
    <3> QED
      BY <1>0, <1>3, <2>1, <2>3, <3>1 DEF EndingHaveEnded
  <2> QED
    BY <2>2, <2>3
<1>11. StartedAddUp'
  <2> SUFFICES ASSUME NEW t \in Tenures
               PROVE  count'[t]["started"] = Cardinality(active'[t]) + Cardinality(ending'[t]) + Total(t)'
    BY DEF StartedAddUp
  <2>1. count[t]["started"] = Cardinality(active[t]) + Cardinality(ending[t]) + Total(t)
    BY <1>0 DEF StartedAddUp
  <2>2. Total(t)' = Total(t)
    BY <1>1 DEF Total
  <2>3. CASE t = o
    <3>1. c \in active[t]
      BY <1>0, <1>1, <2>3 DEF ActiveAreUnderway, Underway, o
    <3>2. c \notin ending[t]
      BY <1>0, <1>1 DEF EndingHaveEnded
    <3>3. active[t] \in SUBSET Inbound /\ ending[t] \in SUBSET Inbound
      BY <1>0 DEF MetricsTypes
    <3>4. Cardinality(active'[t]) + 1 = Cardinality(active[t]) /\ Cardinality(active[t]) \in Nat
      BY <1>6, <2>3, <3>1, <3>3, SomeCalls
    <3>5. Cardinality(ending'[t]) = Cardinality(ending[t]) + 1 /\ Cardinality(ending[t]) \in Nat
      BY <1>6, <2>3, <3>2, <3>3, SomeCalls
    <3>6. Cardinality(active'[t]) \in Nat
      BY <1>6, SomeCalls
    <3>7. Total(t) \in Nat
      BY <1>0, TotalIs DEF MetricsTypes
    <3> QED
      BY <1>1, <2>1, <2>2, <3>4, <3>5, <3>6, <3>7
  <2>4. CASE t # o
    BY <1>1, <1>6, <2>1, <2>2, <2>4
  <2> QED
    BY <2>3, <2>4
<1>12. OutcomesAreRecorded'
  <2>1. \A d \in Inbound : /\ ledger'[d].record = ledger[d].record
                           /\ ledger[d].record # "none" => ledger'[d].of = ledger[d].of
                           /\ ledger[d].record = "none" => ledger'[d].record = "none"
    BY <1>3 DEF o
  <2> QED
    BY <1>0, <1>1, <2>1, RecordsUntouched
<1> QED
  BY <1>7, <1>8, <1>9, <1>10, <1>11, <1>12 DEF CountsInv

\* A step that only decides how some calls end.
LEMMA AsksKeep ==
    ASSUME MetricsInv, ledger' \in [Inbound -> LedgerLine], UNCHANGED <<active, ending, count>>,
           \A c \in Inbound :
              \/ ledger'[c] = ledger[c]
              \/ /\ ledger[c].at = "live" /\ ledger'[c].at = "teardown"
                 /\ ledger'[c].of = ledger[c].of /\ ledger'[c].asked \in Outcomes
                 /\ ledger'[c].record = ledger[c].record
    PROVE  CountsInv'
<1>0. /\ MetricsTypes /\ OutcomesInTime /\ ActiveAreUnderway /\ EndingHaveEnded /\ StartedAddUp
      /\ OutcomesAreRecorded
  BY DEF MetricsInv, CountsInv
<1>1. OutcomesInTime'
  BY <1>0 DEF OutcomesInTime
<1>2. ActiveAreUnderway'
  <2> SUFFICES ASSUME NEW t \in Tenures PROVE Underway(t)' = Underway(t)
    BY <1>0 DEF ActiveAreUnderway
  <2> QED
    BY DEF Underway
<1>3. EndingHaveEnded'
  <2> SUFFICES ASSUME NEW t \in Tenures, NEW c \in ending[t]
               PROVE  ledger'[c].of = t /\ ledger'[c].at \in {"ended", "gone"}
    BY DEF EndingHaveEnded
  <2>1. c \in Inbound /\ ledger[c].of = t /\ ledger[c].at \in {"ended", "gone"}
    BY <1>0 DEF EndingHaveEnded, MetricsTypes
  <2> QED
    BY <2>1
<1>4. StartedAddUp'
  BY <1>0 DEF StartedAddUp, Total
<1>5. OutcomesAreRecorded'
  <2>1. \A d \in Inbound : /\ ledger'[d].record = ledger[d].record
                           /\ ledger[d].record # "none" => ledger'[d].of = ledger[d].of
                           /\ ledger[d].record = "none" => ledger'[d].record = "none"
    OBVIOUS
  <2> QED
    BY <1>0, <2>1, RecordsUntouched
<1> QED
  BY <1>1, <1>2, <1>3, <1>4, <1>5 DEF CountsInv

LEMMA AskKeeps ==
    ASSUME MetricsInv, NEW c \in Inbound, EndIsAsked(c) PROVE MetricsTypes' /\ CountsInv'
<1>0. MetricsTypes
  BY DEF MetricsInv
<1>1. ledger[c].at = "live" /\ UNCHANGED <<active, ending, count, endpointVars>>
  BY DEF EndIsAsked
<1>2. PICK outcome \in Outcomes : ledger' = [ledger EXCEPT ![c].at = "teardown", ![c].asked = outcome]
  BY DEF EndIsAsked, Outcomes
<1> DEFINE l == [ledger[c] EXCEPT !.at = "teardown", !.asked = outcome]
<1>3. /\ l \in LedgerLine /\ l.of = ledger[c].of /\ l.at = "teardown" /\ l.record = ledger[c].record
      /\ l.asked = outcome
  BY <1>0 DEF LedgerLine, MetricsTypes
<1>4. ledger' = [ledger EXCEPT ![c] = l]
  BY <1>0, <1>2 DEF MetricsTypes, LedgerLine
<1> HIDE DEF l
<1>5. ledger' \in [Inbound -> LedgerLine] /\ ledger'[c] = l /\ \A d \in Inbound : d # c => ledger'[d] = ledger[d]
  BY <1>0, <1>3, <1>4 DEF MetricsTypes
<1>6. MetricsTypes'
  BY <1>0, <1>1, <1>5 DEF MetricsTypes, endpointVars
<1>7. \A d \in Inbound :
          \/ ledger'[d] = ledger[d]
          \/ /\ ledger[d].at = "live" /\ ledger'[d].at = "teardown"
             /\ ledger'[d].of = ledger[d].of /\ ledger'[d].asked \in Outcomes
             /\ ledger'[d].record = ledger[d].record
  BY <1>1, <1>3, <1>5
<1>8. CountsInv'
  BY <1>1, <1>5, <1>7, AsksKeep
<1> QED
  BY <1>6, <1>8

LEMMA RetireKeeps ==
    ASSUME MetricsInv, Retire PROVE MetricsInv'
<1>0. MetricsTypes /\ PortIsKnown
  BY DEF MetricsInv
<1>1. /\ retired[tenure] = "no" /\ answering' = [answering EXCEPT ![tenure] = FALSE]
      /\ retired' = [retired EXCEPT ![tenure] = "draining"]
      /\ UNCHANGED <<active, ending, count, tenure, binding, health, port, late>>
  BY DEF Retire
<1>2. \A c \in Inbound :
          ledger'[c] = IF ledger[c].of = tenure /\ ledger[c].at = "live"
                       THEN [ledger[c] EXCEPT !.at = "teardown", !.asked = "failed"] ELSE ledger[c]
  BY DEF Retire
<1>3. \A c \in Inbound :
          /\ ledger'[c] \in LedgerLine
          /\ \/ ledger'[c] = ledger[c]
             \/ /\ ledger[c].at = "live" /\ ledger'[c].at = "teardown"
                /\ ledger'[c].of = ledger[c].of /\ ledger'[c].asked \in Outcomes
                /\ ledger'[c].record = ledger[c].record
  <2> SUFFICES ASSUME NEW c \in Inbound
               PROVE  /\ ledger'[c] \in LedgerLine
                      /\ \/ ledger'[c] = ledger[c]
                         \/ /\ ledger[c].at = "live" /\ ledger'[c].at = "teardown"
                            /\ ledger'[c].of = ledger[c].of /\ ledger'[c].asked \in Outcomes
                            /\ ledger'[c].record = ledger[c].record
    OBVIOUS
  <2>1. ledger[c] \in LedgerLine
    BY <1>0 DEF MetricsTypes
  <2>2. CASE ledger[c].of = tenure /\ ledger[c].at = "live"
    BY <1>2, <2>1, <2>2 DEF LedgerLine, Outcomes
  <2>3. CASE ~(ledger[c].of = tenure /\ ledger[c].at = "live")
    BY <1>2, <2>1, <2>3
  <2> QED
    BY <2>2, <2>3
<1>4. ledger' \in [Inbound -> LedgerLine]
  BY <1>3 DEF Retire
<1>5. MetricsTypes'
  BY <1>0, <1>1, <1>4 DEF MetricsTypes
<1>6. CountsInv'
  BY <1>1, <1>3, <1>4, AsksKeep
<1>7. PortIsKnown'
  <2>1. tenure \in Tenures /\ \A t \in Tenures : retired'[t] = "done" <=> retired[t] = "done"
    BY <1>0, <1>1 DEF MetricsTypes
  <2>2. port # 0 => port \in Tenures
    BY <1>0, MetricsAssumption DEF MetricsTypes, Tenures
  <2> QED
    BY <1>0, <1>1, <2>1, <2>2 DEF PortIsKnown
<1> QED
  BY <1>5, <1>6, <1>7 DEF MetricsInv

\* The last record of a call: it carries the outcome, and is counted only where it is announced.
LEMMA RecordKeeps ==
    ASSUME MetricsInv, NEW c \in Inbound, FinalRecord(c) PROVE MetricsTypes' /\ CountsInv'
<1>0. /\ MetricsTypes /\ OutcomesInTime /\ ActiveAreUnderway /\ EndingHaveEnded /\ StartedAddUp
      /\ OutcomesAreRecorded
  BY DEF MetricsInv, CountsInv
<1> DEFINE o == ledger[c].of
           k == ledger[c].asked
<1>1. /\ ledger[c].at = "ended" /\ UNCHANGED endpointVars
      /\ ledger' = [ledger EXCEPT ![c].at = "gone", ![c].record = k]
  BY DEF FinalRecord
<1>2. ledger[c] \in LedgerLine /\ k \in Outcomes /\ ledger[c].record = "none"
  BY <1>0, <1>1 DEF MetricsTypes, OutcomesInTime
<1>3. /\ ledger' \in [Inbound -> LedgerLine]
      /\ ledger'[c].of = o /\ ledger'[c].at = "gone" /\ ledger'[c].record = k
      /\ \A d \in Inbound : d # c => ledger'[d] = ledger[d]
  <2> DEFINE l == [ledger[c] EXCEPT !.at = "gone", !.record = k]
  <2>1. l \in LedgerLine /\ l.of = o /\ l.at = "gone" /\ l.record = k
    BY <1>2 DEF LedgerLine
  <2>2. ledger' = [ledger EXCEPT ![c] = l]
    BY <1>0, <1>1, <1>2 DEF MetricsTypes, LedgerLine
  <2> HIDE DEF l, k, o
  <2> QED
    BY <1>0, <2>1, <2>2 DEF MetricsTypes
<1>4. active' = active
  BY DEF FinalRecord, OnRecord
<1>5. \/ c \in ending[o] /\ ending' = [ending EXCEPT ![o] = @ \ {c}] /\ count' = Plus(o, k)
      \/ ending' = ending /\ count' = count
  <2>1. OutcomeCounter(k) = k
    BY <1>2 DEF OutcomeCounter, Outcomes
  <2>2. OnRecord(o, c, k) \/ UNCHANGED <<active, ending, count>>
    BY DEF FinalRecord
  <2> QED
    BY <2>1, <2>2 DEF OnRecord
<1>6. k \in Counter /\ k # "started" /\ k # "none"
  BY <1>2 DEF Outcomes, Counter
<1>7. OutcomesInTime'
  BY <1>0, <1>3 DEF OutcomesInTime
<1>8. ActiveAreUnderway'
  <2> SUFFICES ASSUME NEW t \in Tenures PROVE Underway(t)' = Underway(t)
    BY <1>0, <1>4 DEF ActiveAreUnderway
  <2> QED
    BY <1>1, <1>3 DEF Underway
<1>9. EndingHaveEnded'
  <2> SUFFICES ASSUME NEW t \in Tenures, NEW d \in ending'[t]
               PROVE  ledger'[d].of = t /\ ledger'[d].at \in {"ended", "gone"}
    BY DEF EndingHaveEnded
  <2>1. d \in ending[t]
    BY <1>0, <1>5 DEF MetricsTypes
  <2>2. d \in Inbound /\ ledger[d].of = t /\ ledger[d].at \in {"ended", "gone"}
    BY <1>0, <2>1 DEF EndingHaveEnded, MetricsTypes
  <2> QED
    BY <1>3, <2>2 DEF o
<1> SUFFICES MetricsTypes' /\ StartedAddUp' /\ OutcomesAreRecorded'
  BY <1>7, <1>8, <1>9 DEF CountsInv
<1>10. ASSUME NEW t \in Tenures, NEW j \in Outcomes
       PROVE  /\ Cardinality(Recorded(t, j)) \in Nat /\ Cardinality(Recorded(t, j)') \in Nat
              /\ Cardinality(Recorded(t, j)) <= Cardinality(Recorded(t, j)')
              /\ t = o /\ j = k => Cardinality(Recorded(t, j)') = Cardinality(Recorded(t, j)) + 1
  <2>1. Recorded(t, j) \in SUBSET Inbound /\ Recorded(t, j)' \in SUBSET Inbound
    BY DEF Recorded
  <2>2. j # "none"
    BY DEF Outcomes
  <2>3. c \notin Recorded(t, j)
    BY <1>2, <2>2 DEF Recorded
  <2>4. Recorded(t, j) \subseteq Recorded(t, j)'
    BY <1>3, <2>3 DEF Recorded
  <2>5. t = o /\ j = k => Recorded(t, j)' = Recorded(t, j) \cup {c}
    BY <1>3, <2>3 DEF Recorded
  <2> QED
    BY <2>1, <2>3, <2>4, <2>5, SomeCalls, MoreCalls
<1>11. CASE ending' = ending /\ count' = count
  <2>1. MetricsTypes'
    BY <1>0, <1>1, <1>3, <1>4, <1>11 DEF MetricsTypes, endpointVars
  <2>2. StartedAddUp'
    BY <1>0, <1>4, <1>11 DEF StartedAddUp, Total
  <2>3. OutcomesAreRecorded'
    <3> SUFFICES ASSUME NEW t \in Tenures, NEW j \in Outcomes
                 PROVE  count[t][j] <= Cardinality(Recorded(t, j)')
      BY <1>11 DEF OutcomesAreRecorded
    <3>1. count[t][j] <= Cardinality(Recorded(t, j)) /\ count[t][j] \in Nat
      BY <1>0 DEF OutcomesAreRecorded, MetricsTypes, Outcomes, Counter
    <3> QED
      BY <1>10, <3>1
  <2> QED
    BY <2>1, <2>2, <2>3
<1>12. CASE c \in ending[o] /\ ending' = [ending EXCEPT ![o] = @ \ {c}] /\ count' = Plus(o, k)
  <2>1. CASE o \in Tenures
    <3> HIDE DEF o, k
    <3>1. /\ count' \in [Tenures -> [Counter -> Nat]]
          /\ count'[o][k] = count[o][k] + 1
          /\ \A j \in Counter : j # k => count'[o][j] = count[o][j]
          /\ \A u \in Tenures : u # o => count'[u] = count[u]
      BY <1>0, <1>6, <1>12, <2>1, OneMore DEF MetricsTypes
    <3>2. /\ ending' \in [Tenures -> SUBSET Inbound] /\ ending'[o] = ending[o] \ {c}
          /\ \A u \in Tenures : u # o => ending'[u] = ending[u]
      BY <1>0, <1>12, <2>1 DEF MetricsTypes
    <3>3. MetricsTypes'
      BY <1>0, <1>1, <1>3, <1>4, <3>1, <3>2 DEF MetricsTypes, endpointVars
    <3>4. StartedAddUp'
      <4> SUFFICES ASSUME NEW t \in Tenures
                   PROVE  count'[t]["started"] = Cardinality(active'[t]) + Cardinality(ending'[t]) + Total(t)'
        BY DEF StartedAddUp
      <4>1. count[t]["started"] = Cardinality(active[t]) + Cardinality(ending[t]) + Total(t)
        BY <1>0 DEF StartedAddUp
      <4>2. CASE t # o
        <5>1. Total(t)' = Total(t)
          BY <3>1, <4>2 DEF Total
        <5> QED
          BY <1>4, <3>1, <3>2, <4>1, <4>2, <5>1
      <4>3. CASE t = o
        <5>1. "started" \in Counter /\ count'[t]["started"] = count[t]["started"]
          BY <1>6, <3>1, <4>3 DEF Counter
        <5>2. active[t] \in SUBSET Inbound /\ ending[t] \in SUBSET Inbound /\ ending'[t] \in SUBSET Inbound
          BY <1>0, <3>2 DEF MetricsTypes
        <5>3. /\ Cardinality(ending'[t]) + 1 = Cardinality(ending[t])
              /\ Cardinality(ending'[t]) \in Nat /\ Cardinality(active[t]) \in Nat
          BY <1>12, <3>2, <4>3, <5>2, SomeCalls
        <5>4. Total(t)' = Total(t) + 1
          <6> DEFINE n == count[t]
                     m == count'[t]
          <6>1. n \in [Counter -> Nat] /\ m \in [Counter -> Nat]
            BY <1>0, <3>1 DEF MetricsTypes
          <6>2. m[k] = n[k] + 1 /\ \A j \in Counter : j # k => m[j] = n[j]
            BY <3>1, <4>3
          <6>3. /\ Total(t) = n["completed"] + n["failed"] + n["missed"] + n["rejected"]
                /\ Total(t)' = m["completed"] + m["failed"] + m["missed"] + m["rejected"]
            BY DEF Total
          <6> HIDE DEF n, m
          <6>4. /\ "completed" \in Counter /\ "failed" \in Counter /\ "missed" \in Counter /\ "rejected" \in Counter
            BY DEF Counter
          <6>5. /\ n["completed"] \in Nat /\ n["failed"] \in Nat /\ n["missed"] \in Nat /\ n["rejected"] \in Nat
            BY <6>1, <6>4
          <6>6. CASE k = "completed"
            BY <6>2, <6>3, <6>4, <6>5, <6>6
          <6>7. CASE k = "failed"
            BY <6>2, <6>3, <6>4, <6>5, <6>7
          <6>8. CASE k = "missed"
            BY <6>2, <6>3, <6>4, <6>5, <6>8
          <6>9. CASE k = "rejected"
            BY <6>2, <6>3, <6>4, <6>5, <6>9
          <6> QED
            BY <1>2, <6>6, <6>7, <6>8, <6>9 DEF Outcomes
        <5>5. Total(t) \in Nat
          BY <1>0, TotalIs DEF MetricsTypes
        <5> QED
          BY <1>4, <4>1, <5>1, <5>3, <5>4, <5>5
      <4> QED
        BY <4>2, <4>3
    <3>5. OutcomesAreRecorded'
      <4> SUFFICES ASSUME NEW t \in Tenures, NEW j \in Outcomes
                   PROVE  count'[t][j] <= Cardinality(Recorded(t, j)')
        BY DEF OutcomesAreRecorded
      <4>1. j \in Counter /\ count[t][j] <= Cardinality(Recorded(t, j)) /\ count[t][j] \in Nat
        BY <1>0 DEF OutcomesAreRecorded, MetricsTypes, Outcomes, Counter
      <4>2. CASE t = o /\ j = k
        BY <1>10, <3>1, <4>1, <4>2
      <4>3. CASE ~(t = o /\ j = k)
        <5>1. count'[t][j] = count[t][j]
          BY <3>1, <4>1, <4>3
        <5> QED
          BY <1>10, <4>1, <5>1
      <4> QED
        BY <4>2, <4>3
    <3> QED
      BY <3>3, <3>4, <3>5
  <2>2. CASE o \notin Tenures
    <3>2. ending' = ending /\ count' = count
      BY <1>0, <1>12, <2>2 DEF MetricsTypes, Plus
    <3> QED
      BY <1>11, <3>2
  <2> QED
    BY <2>1, <2>2
<1> QED
  BY <1>5, <1>11, <1>12

LEMMA MetricsKeep == MetricsInv /\ [MetricsNext]_metricsVars => MetricsInv'
<1> SUFFICES ASSUME MetricsInv, [MetricsNext]_metricsVars PROVE MetricsInv'
  OBVIOUS
<1>0. MetricsTypes /\ CountsInv /\ PortIsKnown
  BY DEF MetricsInv
<1>1. ASSUME NEW c \in Inbound, CallStarted(c) \/ EndIsAsked(c) \/ MachineEnds(c) \/ FinalRecord(c)
      PROVE  MetricsInv'
  <2>1. UNCHANGED endpointVars
    BY <1>1 DEF CallStarted, EndIsAsked, MachineEnds, FinalRecord
  <2>2. MetricsTypes' /\ CountsInv'
    BY <1>1, StartKeeps, AskKeeps, EndKeeps, RecordKeeps
  <2> QED
    BY <1>0, <2>1, <2>2, PortStays DEF MetricsInv
<1>9. port # 0 => port \in Tenures
  BY <1>0, MetricsAssumption DEF MetricsTypes, Tenures
<1>10. tenure \in Tenures /\ Tenures \subseteq Nat
  BY <1>0, TenuresAre DEF MetricsTypes
<1>2. CASE SwitchOn
  <2>1. /\ answering' = [answering EXCEPT ![tenure] = TRUE]
        /\ UNCHANGED <<countVars, tenure, retired, health, port, late>>
        /\ binding' = binding \/ binding' = [binding EXCEPT ![tenure] = @ + 1]
    BY <1>2 DEF SwitchOn, StartHealth
  <2>2. MetricsTypes'
    BY <1>0, <2>1 DEF MetricsTypes, countVars
  <2>3. \A t \in Tenures : t > tenure => binding'[t] = binding[t]
    BY <1>0, <1>10, <2>1 DEF MetricsTypes
  <2>4. PortIsKnown'
    BY <1>0, <2>1, <2>3 DEF PortIsKnown
  <2> QED
    BY <1>0, <2>1, <2>2, <2>4, CountsStay DEF MetricsInv
<1>3. CASE SwitchOff
  <2>1. /\ answering' = [answering EXCEPT ![tenure] = FALSE]
        /\ UNCHANGED <<countVars, tenure, retired, binding, health, port, late>>
    BY <1>3 DEF SwitchOff
  <2>2. MetricsTypes'
    BY <1>0, <2>1 DEF MetricsTypes, countVars
  <2>4. PortIsKnown'
    BY <1>0, <2>1 DEF PortIsKnown
  <2> QED
    BY <1>0, <2>1, <2>2, <2>4, CountsStay DEF MetricsInv
<1>4. CASE Retire
  BY <1>4, RetireKeeps
<1>5. CASE Succeed
  <2>1. /\ retired[tenure] = "done" /\ tenure < MaxTenures /\ tenure' = tenure + 1
        /\ UNCHANGED <<countVars, answering, retired, binding, health, port, late>>
    BY <1>5 DEF Succeed
  <2>2. tenure' \in Tenures
    BY <1>10, <2>1, MetricsAssumption DEF Tenures
  <2>3. MetricsTypes'
    BY <1>0, <2>1, <2>2 DEF MetricsTypes, countVars
  <2>4. \A t \in Tenures : t < tenure' => t < tenure \/ t = tenure
    BY <1>10, <2>1
  <2>5. \A t \in Tenures : t > tenure' => t > tenure
    BY <1>10, <2>1
  <2>6. port <= tenure'
    <3>1. port \in Nat /\ tenure \in Nat /\ port <= tenure
      BY <1>0, <1>10, MetricsAssumption DEF PortIsKnown, MetricsTypes
    <3> QED
      BY <2>1, <3>1
  <2>7. PortIsKnown'
    BY <1>0, <2>1, <2>4, <2>5, <2>6 DEF PortIsKnown
  <2> QED
    BY <1>0, <2>1, <2>3, <2>7, CountsStay DEF MetricsInv
<1>6. ASSUME NEW t \in Tenures, Listens(t) PROVE MetricsInv'
  <2>1. /\ binding[t] > 0 /\ binding' = [binding EXCEPT ![t] = @ - 1]
        /\ UNCHANGED <<countVars, tenure, answering, retired>>
    BY <1>6 DEF Listens
  <2>2. binding' \in [Tenures -> Nat] /\ \A u \in Tenures : binding[u] = 0 => binding'[u] = 0
    BY <1>0, <2>1 DEF MetricsTypes
  <2>3. CASE UNCHANGED <<port, health, late>>
    <3>1. MetricsTypes'
      BY <1>0, <2>1, <2>2, <2>3 DEF MetricsTypes, countVars
    <3>2. PortIsKnown'
      BY <1>0, <2>1, <2>2, <2>3 DEF PortIsKnown
    <3> QED
      BY <1>0, <2>1, <3>1, <3>2, CountsStay DEF MetricsInv
  <2>4. CASE /\ port = 0 /\ port' = t /\ health' = [health EXCEPT ![t] = TRUE]
             /\ late' = IF retired[t] = "done" THEN late \cup {t} ELSE late
    <3>1. t \in 0..MaxTenures /\ t # 0
      BY MetricsAssumption DEF Tenures
    <3>2. health' \in [Tenures -> BOOLEAN] /\ late' \subseteq Tenures
      BY <1>0, <2>4 DEF MetricsTypes
    <3>3. MetricsTypes'
      BY <1>0, <2>1, <2>2, <2>4, <3>1, <3>2 DEF MetricsTypes, countVars
    <3>4. \A u \in Tenures : health'[u] <=> port' = u
      <4> SUFFICES ASSUME NEW u \in Tenures PROVE health'[u] <=> port' = u
        OBVIOUS
      <4>1. ~health[u]
        BY <1>0, <2>4, TenuresAre DEF PortIsKnown
      <4>2. CASE u = t
        BY <1>0, <2>4, <4>2 DEF MetricsTypes
      <4>3. CASE u # t
        BY <1>0, <2>4, <4>1, <4>3 DEF MetricsTypes
      <4> QED
        BY <4>2, <4>3
    <3>5. t <= tenure
      BY <1>0, <1>10, <2>1 DEF PortIsKnown
    <3>6. port' # 0 /\ port' \notin late' => retired'[port'] # "done"
      BY <2>1, <2>4
    <3>7. PortIsKnown'
      BY <1>0, <2>1, <2>2, <2>4, <3>4, <3>5, <3>6 DEF PortIsKnown
    <3> QED
      BY <1>0, <2>1, <3>3, <3>7, CountsStay DEF MetricsInv
  <2> QED
    BY <1>6, <2>3, <2>4 DEF Listens
<1>7. ASSUME NEW t \in Tenures, CloseEndpoint(t) PROVE MetricsInv'
  <2>1. /\ retired' = [retired EXCEPT ![t] = "done"] /\ health' = [health EXCEPT ![t] = FALSE]
        /\ port' = IF health[t] THEN 0 ELSE port
        /\ UNCHANGED <<countVars, tenure, answering, binding, late>>
    BY <1>7 DEF CloseEndpoint
  <2>2. MetricsTypes'
    BY <1>0, <2>1, MetricsAssumption DEF MetricsTypes, countVars
  <2>3. \A u \in Tenures : health'[u] <=> port' = u
    <3> SUFFICES ASSUME NEW u \in Tenures PROVE health'[u] <=> port' = u
      OBVIOUS
    <3>1. (health[u] <=> port = u) /\ (health[t] <=> port = t) /\ u # 0
      BY <1>0, TenuresAre DEF PortIsKnown
    <3>2. CASE u = t
      BY <1>0, <2>1, <3>1, <3>2 DEF MetricsTypes
    <3>3. CASE u # t
      BY <1>0, <2>1, <3>1, <3>3 DEF MetricsTypes
    <3> QED
      BY <3>2, <3>3
  <2>4. port' # 0 => port' = port /\ port # t
    BY <1>0, <2>1 DEF PortIsKnown
  <2>5. port' # 0 /\ port' \notin late' => retired'[port'] # "done"
    BY <1>0, <1>9, <2>1, <2>4 DEF PortIsKnown, MetricsTypes
  <2>6. \A u \in Tenures : retired[u] = "done" => retired'[u] = "done"
    BY <1>0, <2>1 DEF MetricsTypes
  <2>7. port' <= tenure
    BY <1>0, <1>10, <2>1 DEF PortIsKnown
  <2>8. PortIsKnown'
    BY <1>0, <2>1, <2>3, <2>5, <2>6, <2>7 DEF PortIsKnown
  <2> QED
    BY <1>0, <2>1, <2>2, <2>8, CountsStay DEF MetricsInv
<1>8. CASE UNCHANGED metricsVars
  <2>1. MetricsTypes'
    BY <1>0, <1>8 DEF MetricsTypes, metricsVars, countVars, endpointVars
  <2>2. UNCHANGED countVars /\ UNCHANGED endpointVars
    BY <1>8 DEF metricsVars
  <2> QED
    BY <1>0, <2>1, <2>2, CountsStay, PortStays DEF MetricsInv
<1> QED
  BY <1>1, <1>2, <1>3, <1>4, <1>5, <1>6, <1>7, <1>8 DEF MetricsNext
\* Of some natural numbers one is the least.
LEMMA LeastOfSome ==
    ASSUME NEW S \in SUBSET Nat, S # {}
    PROVE  \E m \in S : \A k \in S : m <= k
<1> DEFINE R == {r \in Nat \X Nat : r[1] < r[2]}
<1>1. IsWellFoundedOn(R, Nat)
  BY NatLessThanWellFounded DEF OpToRel
<1>2. \A y \in Nat, x \in Nat : <<y, x>> \in R <=> y < x
  OBVIOUS
<1> HIDE DEF R
<1>3. PICK x \in S : \A y \in S : ~(<<y, x>> \in R)
  BY <1>1, WFMin
<1>4. ASSUME NEW k \in S PROVE x <= k
  <2>1. k \in Nat /\ x \in Nat /\ ~(k < x)
    BY <1>2, <1>3
  <2> QED
    BY <2>1
<1> QED
  BY <1>4

-----------------------------------------------------------------------------
(* The Contacts page: what is asked and answered over an ordered channel *)

LinkLists == [Rings -> Nat]
CountLists == UNION {[1..n -> Nat] : n \in Nat}
Answers == BOOLEAN \cup Nat \cup (SUBSET Rings) \cup LinkLists \cup CountLists

Ask ==
    [of : {"available", "contacts", "recent", "calls", "create"}, by : {"mount", "page", "button", "submit"},
     arg : Nat \cup SUBSET Lines, heard : BOOLEAN, done : BOOLEAN, ok : BOOLEAN, says : Answers]

Linked(ln, k) == {r \in Rings : ln[r] = k}

\* Of n contacts and the links ln: a list of contacts, and one of links, that may be old and is true.
CountsFit(f, n, ln) ==
    DOMAIN f \subseteq 1..n /\ \A k \in DOMAIN f : f[k] \in Nat /\ f[k] <= Cardinality(Linked(ln, k))
LinksFit(f, n, ln) ==
    \A r \in Rings : f[r] = 0 \/ f[r] = Unsaved \/ (f[r] \in 1..n /\ ln[r] = f[r])

Answered(m, of) == m.of = of /\ m.done /\ m.ok

AnswerFits(m, n, ln) ==
    /\ m.of = "calls" => m.arg \in 1..n
    /\ m.of = "create" => m.by = "submit" /\ m.arg \in SUBSET Lines
    /\ Answered(m, "contacts") => CountsFit(m.says, n, ln)
    /\ Answered(m, "recent") => LinksFit(m.says, n, ln)
    /\ Answered(m, "calls") => m.says \subseteq Linked(ln, m.arg)
    /\ Answered(m, "create") => m.says \in 1..n

\* Contacts are only added, and a call that has one keeps it.
Grow(n, ln, n2, ln2) == n <= n2 /\ \A r \in Rings : ln[r] \in 1..n => ln2[r] = ln[r]

LEMMA LinkedAre ==
    ASSUME NEW ln, NEW k
    PROVE  IsFiniteSet(Linked(ln, k)) /\ Cardinality(Linked(ln, k)) \in Nat
<1>1. Linked(ln, k) \subseteq Rings
  BY DEF Linked
<1>2. IsFiniteSet(Linked(ln, k))
  BY <1>1, BookAssumption, FS_Subset
<1> QED
  BY <1>2, FS_CardinalityType

LEMMA LinkedGrow ==
    ASSUME NEW n \in Nat, NEW n2 \in Nat, NEW ln, NEW ln2, Grow(n, ln, n2, ln2), NEW k \in 1..n
    PROVE  /\ Linked(ln, k) \subseteq Linked(ln2, k)
           /\ Cardinality(Linked(ln, k)) <= Cardinality(Linked(ln2, k))
<1>1. Linked(ln, k) \subseteq Linked(ln2, k)
  BY DEF Linked, Grow
<1> QED
  BY <1>1, LinkedAre, FS_Subset

LEMMA FitsGrow ==
    ASSUME NEW n \in Nat, NEW n2 \in Nat, NEW ln, NEW ln2, Grow(n, ln, n2, ln2)
    PROVE  /\ \A f : CountsFit(f, n, ln) => CountsFit(f, n2, ln2)
           /\ \A f : LinksFit(f, n, ln) => LinksFit(f, n2, ln2)
           /\ \A m : AnswerFits(m, n, ln) => AnswerFits(m, n2, ln2)
<1>0. n <= n2 /\ 1..n \subseteq 1..n2
  BY DEF Grow
<1>1. ASSUME NEW f, CountsFit(f, n, ln) PROVE CountsFit(f, n2, ln2)
  <2>1. DOMAIN f \subseteq 1..n2
    BY <1>0, <1>1 DEF CountsFit
  <2>2. ASSUME NEW k \in DOMAIN f PROVE f[k] \in Nat /\ f[k] <= Cardinality(Linked(ln2, k))
    <3>1. k \in 1..n /\ f[k] \in Nat /\ f[k] <= Cardinality(Linked(ln, k))
      BY <1>1 DEF CountsFit
    <3>2. Cardinality(Linked(ln, k)) <= Cardinality(Linked(ln2, k))
      BY <3>1, LinkedGrow
    <3>3. Cardinality(Linked(ln, k)) \in Nat /\ Cardinality(Linked(ln2, k)) \in Nat
      BY LinkedAre
    <3> QED
      BY <3>1, <3>2, <3>3
  <2> QED
    BY <2>1, <2>2 DEF CountsFit
<1>2. ASSUME NEW f, LinksFit(f, n, ln) PROVE LinksFit(f, n2, ln2)
  BY <1>0, <1>2 DEF LinksFit, Grow
<1>3. ASSUME NEW m, AnswerFits(m, n, ln) PROVE AnswerFits(m, n2, ln2)
  <2>1. m.of = "calls" => m.arg \in 1..n2
    BY <1>0, <1>3 DEF AnswerFits
  <2>2. Answered(m, "create") => m.says \in 1..n2
    BY <1>0, <1>3 DEF AnswerFits
  <2>3. Answered(m, "calls") => m.says \subseteq Linked(ln2, m.arg)
    <3> SUFFICES ASSUME Answered(m, "calls") PROVE m.says \subseteq Linked(ln2, m.arg)
      OBVIOUS
    <3>1. m.arg \in 1..n /\ m.says \subseteq Linked(ln, m.arg)
      BY <1>3 DEF AnswerFits, Answered
    <3> QED
      BY <3>1, LinkedGrow
  <2>4. Answered(m, "contacts") => CountsFit(m.says, n2, ln2)
    BY <1>1, <1>3 DEF AnswerFits
  <2>5. Answered(m, "recent") => LinksFit(m.says, n2, ln2)
    BY <1>2, <1>3 DEF AnswerFits
  <2> QED
    BY <1>3, <2>1, <2>2, <2>3, <2>4, <2>5 DEF AnswerFits
<1> QED
  BY <1>1, <1>2, <1>3

----
(* A channel w: answers come in the order of the questions *)

InOrder(w) == \A i, j \in 1..Len(w) : i < j /\ w[j].done => w[i].done

\* A refresh asks for the contacts, and next for the links.
Paired(w) ==
    /\ \A i \in 1..Len(w) : w[i].of = "contacts" =>
          i + 1 \in 1..Len(w) /\ w[i + 1].of = "recent" /\ w[i + 1].by = w[i].by
    /\ \A i \in 1..Len(w) : w[i].of = "recent" /\ i # 1 => w[i - 1].of = "contacts"

\* No list is shorter than one that was there before it.
Precedes(w, dom) == \A i \in 1..Len(w) : Answered(w[i], "contacts") => dom \subseteq DOMAIN w[i].says
Growing(w) ==
    \A i, j \in 1..Len(w) :
        i < j /\ Answered(w[i], "contacts") /\ Answered(w[j], "contacts")
            => DOMAIN w[i].says \subseteq DOMAIN w[j].says

\* The contact that is being added, and the list that is to show it.
Submits(w) == {i \in 1..Len(w) : w[i].by = "submit" /\ w[i].of \in {"create", "contacts"}}

WireFits(w, n, ln) ==
    /\ w \in Seq(Ask) /\ \A i \in 1..Len(w) : AnswerFits(w[i], n, ln)
    /\ InOrder(w) /\ Paired(w) /\ Growing(w)
    /\ \A i, j \in Submits(w) : i = j

LEMMA WireGrows ==
    ASSUME NEW n \in Nat, NEW n2 \in Nat, NEW ln, NEW ln2, Grow(n, ln, n2, ln2), NEW w, WireFits(w, n, ln)
    PROVE  WireFits(w, n2, ln2)
  BY FitsGrow DEF WireFits

LEMMA FirstHeard ==
    ASSUME NEW w \in Seq(Ask), w # <<>>
    PROVE  /\ Tail(w) \in Seq(Ask) /\ Len(Tail(w)) = Len(w) - 1 /\ Len(w) \in Nat \ {0}
           /\ Head(w) = w[1] /\ Head(w) \in Ask
           /\ \A i \in 1..(Len(w) - 1) : Tail(w)[i] = w[i + 1] /\ i + 1 \in 1..Len(w)
  OBVIOUS

LEMMA TailFits ==
    ASSUME NEW n, NEW ln, NEW w, WireFits(w, n, ln), w # <<>>
    PROVE  /\ WireFits(Tail(w), n, ln)
           /\ \A dom : Precedes(w, dom) => Precedes(Tail(w), dom)
           /\ \A i \in Submits(Tail(w)) : i + 1 \in Submits(w) /\ i + 1 # 1
           /\ \A i \in Submits(w) : i # 1 => i - 1 \in Submits(Tail(w))
<1>0. w \in Seq(Ask)
  BY DEF WireFits
<1> DEFINE v == Tail(w)
<1>1. /\ v \in Seq(Ask) /\ Len(v) = Len(w) - 1 /\ Len(w) \in Nat \ {0}
      /\ \A i \in 1..(Len(w) - 1) : v[i] = w[i + 1] /\ i + 1 \in 1..Len(w)
  BY <1>0, FirstHeard
<1> HIDE DEF v
<1>2. \A i \in 1..Len(v) : v[i] = w[i + 1] /\ i + 1 \in 1..Len(w)
  BY <1>1
<1>3. \A i \in 1..Len(v) : AnswerFits(v[i], n, ln)
  BY <1>2 DEF WireFits
<1>4. InOrder(v)
  <2> SUFFICES ASSUME NEW i \in 1..Len(v), NEW j \in 1..Len(v), i < j, v[j].done PROVE v[i].done
    BY DEF InOrder
  <2>1. i + 1 < j + 1 /\ i + 1 \in 1..Len(w) /\ j + 1 \in 1..Len(w) /\ w[j + 1].done /\ v[i] = w[i + 1]
    BY <1>1, <1>2
  <2> QED
    BY <2>1 DEF WireFits, InOrder
<1>5. Paired(v)
  <2>1. ASSUME NEW i \in 1..Len(v), v[i].of = "contacts"
        PROVE  i + 1 \in 1..Len(v) /\ v[i + 1].of = "recent" /\ v[i + 1].by = v[i].by
    <3>1. i + 1 \in 1..Len(w) /\ v[i] = w[i + 1]
      BY <1>2
    <3>2. (i + 1) + 1 \in 1..Len(w) /\ w[(i + 1) + 1].of = "recent" /\ w[(i + 1) + 1].by = w[i + 1].by
      BY <2>1, <3>1 DEF WireFits, Paired
    <3>3. i + 1 \in 1..Len(v)
      BY <1>1, <3>1, <3>2
    <3> QED
      BY <1>2, <3>1, <3>2, <3>3
  <2>2. ASSUME NEW i \in 1..Len(v), v[i].of = "recent", i # 1
        PROVE  v[i - 1].of = "contacts"
    <3>1. i + 1 \in 1..Len(w) /\ v[i] = w[i + 1] /\ i + 1 # 1
      BY <1>1, <1>2
    <3>2. w[(i + 1) - 1].of = "contacts"
      BY <2>2, <3>1 DEF WireFits, Paired
    <3>3. i - 1 \in 1..Len(v) /\ (i - 1) + 1 = (i + 1) - 1
      BY <1>1, <2>2
    <3> QED
      BY <1>2, <3>2, <3>3
  <2> QED
    BY <2>1, <2>2 DEF Paired
<1>6. Growing(v)
  <2> SUFFICES ASSUME NEW i \in 1..Len(v), NEW j \in 1..Len(v), i < j,
                      Answered(v[i], "contacts"), Answered(v[j], "contacts")
               PROVE  DOMAIN v[i].says \subseteq DOMAIN v[j].says
    BY DEF Growing
  <2>1. i + 1 < j + 1 /\ i + 1 \in 1..Len(w) /\ j + 1 \in 1..Len(w) /\ v[i] = w[i + 1] /\ v[j] = w[j + 1]
    BY <1>1, <1>2
  <2> QED
    BY <2>1 DEF WireFits, Growing
<1>7. \A i \in Submits(v) : i + 1 \in Submits(w) /\ i + 1 # 1 /\ i \in Nat
  BY <1>1, <1>2 DEF Submits
<1>8. ASSUME NEW i \in Submits(w), i # 1 PROVE i - 1 \in Submits(v)
  <2>1. i \in 1..Len(w) /\ w[i].by = "submit" /\ w[i].of \in {"create", "contacts"}
    BY DEF Submits
  <2>2. i - 1 \in 1..Len(v) /\ (i - 1) + 1 = i
    BY <1>1, <1>8, <2>1
  <2> QED
    BY <1>2, <2>1, <2>2 DEF Submits
<1>9. \A i, j \in Submits(v) : i = j
  <2> SUFFICES ASSUME NEW i \in Submits(v), NEW j \in Submits(v) PROVE i = j
    OBVIOUS
  <2>1. i + 1 = j + 1
    BY <1>7 DEF WireFits
  <2> QED
    BY <1>7, <2>1
<1>10. \A dom : Precedes(w, dom) => Precedes(v, dom)
  BY <1>2 DEF Precedes
<1> QED
  BY <1>1, <1>3, <1>4, <1>5, <1>6, <1>7, <1>8, <1>9, <1>10 DEF WireFits, v

LEMMA AskedLast ==
    ASSUME NEW w \in Seq(Ask), NEW m \in Ask
    PROVE  /\ Append(w, m) \in Seq(Ask) /\ Len(Append(w, m)) = Len(w) + 1 /\ Len(w) \in Nat
           /\ Append(w, m)[Len(w) + 1] = m
           /\ \A i \in 1..Len(w) : Append(w, m)[i] = w[i] /\ i \in 1..Len(Append(w, m)) /\ i # Len(w) + 1
           /\ \A i \in 1..Len(Append(w, m)) : i \in 1..Len(w) \/ i = Len(w) + 1
  OBVIOUS

LEMMA RequestIs ==
    ASSUME NEW of \in {"available", "contacts", "recent", "calls", "create"},
           NEW by \in {"mount", "page", "button", "submit"}, NEW arg \in Nat \cup SUBSET Lines
    PROVE  /\ Request(of, by, arg) \in Ask
           /\ Request(of, by, arg).of = of /\ Request(of, by, arg).by = by /\ Request(of, by, arg).arg = arg
           /\ Request(of, by, arg).heard /\ ~Request(of, by, arg).done
<1> DEFINE m == Request(of, by, arg)
<1>1. 0 \in Answers
  BY DEF Answers
<1>2. m = [of |-> of, by |-> by, arg |-> arg, heard |-> TRUE, done |-> FALSE, ok |-> FALSE, says |-> 0]
  BY DEF Request
<1>3. m \in Ask
  BY <1>1, <1>2 DEF Ask
<1> QED
  BY <1>2, <1>3

\* What holds of the questions in order holds with one more that is not answered.
LEMMA OrderAppended ==
    ASSUME NEW w \in Seq(Ask), NEW m \in Ask, ~m.done, InOrder(w), Growing(w)
    PROVE  InOrder(Append(w, m)) /\ Growing(Append(w, m))
<1> DEFINE v == Append(w, m)
<1>1. /\ Len(v) = Len(w) + 1 /\ Len(w) \in Nat /\ v[Len(w) + 1] = m
      /\ \A i \in 1..Len(w) : v[i] = w[i]
      /\ \A i \in 1..Len(v) : i \in 1..Len(w) \/ i = Len(w) + 1
  BY AskedLast
<1> HIDE DEF v
<1>2. InOrder(v)
  <2> SUFFICES ASSUME NEW i \in 1..Len(v), NEW j \in 1..Len(v), i < j, v[j].done PROVE v[i].done
    BY DEF InOrder
  <2>1. j \in 1..Len(w)
    BY <1>1
  <2>2. i \in 1..Len(w)
    BY <1>1, <2>1
  <2> QED
    BY <1>1, <2>1, <2>2 DEF InOrder
<1>3. Growing(v)
  <2> SUFFICES ASSUME NEW i \in 1..Len(v), NEW j \in 1..Len(v), i < j,
                      Answered(v[i], "contacts"), Answered(v[j], "contacts")
               PROVE  DOMAIN v[i].says \subseteq DOMAIN v[j].says
    BY DEF Growing
  <2>1. j \in 1..Len(w)
    BY <1>1 DEF Answered
  <2>2. i \in 1..Len(w)
    BY <1>1, <2>1
  <2> QED
    BY <1>1, <2>1, <2>2 DEF Growing
<1> QED
  BY <1>2, <1>3 DEF v

\* One more question, which is not part of a refresh.
LEMMA AppendFits ==
    ASSUME NEW n, NEW ln, NEW w, WireFits(w, n, ln),
           NEW m \in Ask, ~m.done, m.of \in {"available", "calls", "create"}, AnswerFits(m, n, ln),
           m.of = "create" => Submits(w) = {}
    PROVE  /\ WireFits(Append(w, m), n, ln)
           /\ \A dom : Precedes(w, dom) => Precedes(Append(w, m), dom)
           /\ Submits(w) \subseteq Submits(Append(w, m))
           /\ \A i \in Submits(Append(w, m)) : i \in Submits(w) \/ (i = Len(w) + 1 /\ m.of = "create")
<1>0. w \in Seq(Ask)
  BY DEF WireFits
<1> DEFINE v == Append(w, m)
<1>1. /\ v \in Seq(Ask) /\ Len(v) = Len(w) + 1 /\ Len(w) \in Nat /\ v[Len(w) + 1] = m
      /\ \A i \in 1..Len(w) : v[i] = w[i] /\ i \in 1..Len(v)
      /\ \A i \in 1..Len(v) : i \in 1..Len(w) \/ i = Len(w) + 1
  BY <1>0, AskedLast
<1>2. InOrder(v) /\ Growing(v)
  BY <1>0, OrderAppended DEF WireFits
<1> HIDE DEF v
<1>3. \A i \in 1..Len(v) : AnswerFits(v[i], n, ln)
  BY <1>1 DEF WireFits
<1>4. Paired(v)
  <2>1. ASSUME NEW i \in 1..Len(v), v[i].of = "contacts"
        PROVE  i + 1 \in 1..Len(v) /\ v[i + 1].of = "recent" /\ v[i + 1].by = v[i].by
    <3>1. i \in 1..Len(w) /\ v[i] = w[i]
      BY <1>1, <2>1
    <3>2. i + 1 \in 1..Len(w) /\ w[i + 1].of = "recent" /\ w[i + 1].by = w[i].by
      BY <2>1, <3>1 DEF WireFits, Paired
    <3> QED
      BY <1>1, <3>1, <3>2
  <2>2. ASSUME NEW i \in 1..Len(v), v[i].of = "recent", i # 1
        PROVE  v[i - 1].of = "contacts"
    <3>1. i \in 1..Len(w) /\ v[i] = w[i]
      BY <1>1, <2>2
    <3>2. w[i - 1].of = "contacts" /\ i - 1 \in 1..Len(w)
      BY <1>1, <2>2, <3>1 DEF WireFits, Paired
    <3> QED
      BY <1>1, <3>2
  <2> QED
    BY <2>1, <2>2 DEF Paired
<1>5. Submits(w) \subseteq Submits(v)
  BY <1>1 DEF Submits
<1>6. \A i \in Submits(v) : i \in Submits(w) \/ (i = Len(w) + 1 /\ m.of = "create")
  <2> SUFFICES ASSUME NEW i \in Submits(v) PROVE i \in Submits(w) \/ (i = Len(w) + 1 /\ m.of = "create")
    OBVIOUS
  <2>1. i \in 1..Len(v) /\ v[i].by = "submit" /\ v[i].of \in {"create", "contacts"}
    BY DEF Submits
  <2>2. CASE i \in 1..Len(w)
    BY <1>1, <2>1, <2>2 DEF Submits
  <2>3. CASE i = Len(w) + 1
    BY <1>1, <2>1, <2>3
  <2> QED
    BY <1>1, <2>1, <2>2, <2>3
<1>7. \A i, j \in Submits(v) : i = j
  BY <1>6 DEF WireFits
<1>8. \A dom : Precedes(w, dom) => Precedes(v, dom)
  BY <1>1 DEF Precedes, Answered
<1> QED
  BY <1>1, <1>2, <1>3, <1>4, <1>5, <1>6, <1>7, <1>8 DEF WireFits, v

\* A refresh is asked for.
LEMMA RefreshFits ==
    ASSUME NEW n, NEW ln, NEW w, WireFits(w, n, ln), NEW by \in {"mount", "button", "submit"},
           by = "submit" => Submits(w) = {}
    PROVE  /\ WireFits(w \o Refresh(by), n, ln)
           /\ Len(w \o Refresh(by)) = Len(w) + 2 /\ Len(w) \in Nat
           /\ \A i \in 1..Len(w) : (w \o Refresh(by))[i] = w[i] /\ i \in 1..Len(w \o Refresh(by))
           /\ (w \o Refresh(by))[Len(w) + 1] = Request("contacts", by, 0)
           /\ (w \o Refresh(by))[Len(w) + 2] = Request("recent", by, 0)
           /\ \A dom : Precedes(w, dom) => Precedes(w \o Refresh(by), dom)
           /\ Submits(w) \subseteq Submits(w \o Refresh(by))
           /\ \A i \in Submits(w \o Refresh(by)) : i \in Submits(w) \/ by = "submit"
<1>0. w \in Seq(Ask)
  BY DEF WireFits
<1> DEFINE a == Request("contacts", by, 0)
           b == Request("recent", by, 0)
           u == Append(w, a)
           v == Append(u, b)
<1>1. /\ a \in Ask /\ a.of = "contacts" /\ a.by = by /\ ~a.done
      /\ b \in Ask /\ b.of = "recent" /\ b.by = by /\ ~b.done
  BY RequestIs
<1> HIDE DEF a, b
<1>2. w \o Refresh(by) = v
  BY <1>0, <1>1 DEF Refresh, a, b
<1>3. /\ u \in Seq(Ask) /\ Len(u) = Len(w) + 1 /\ Len(w) \in Nat /\ u[Len(w) + 1] = a
      /\ \A i \in 1..Len(w) : u[i] = w[i] /\ i \in 1..Len(u)
      /\ \A i \in 1..Len(u) : i \in 1..Len(w) \/ i = Len(w) + 1
  BY <1>0, <1>1, AskedLast
<1>4. InOrder(u) /\ Growing(u)
  BY <1>0, <1>1, OrderAppended DEF WireFits
<1> HIDE DEF u
<1>5. /\ v \in Seq(Ask) /\ Len(v) = Len(u) + 1 /\ v[Len(u) + 1] = b
      /\ \A i \in 1..Len(u) : v[i] = u[i] /\ i \in 1..Len(v)
      /\ \A i \in 1..Len(v) : i \in 1..Len(u) \/ i = Len(u) + 1
  BY <1>1, <1>3, AskedLast
<1>6. InOrder(v) /\ Growing(v)
  BY <1>1, <1>3, <1>4, OrderAppended
<1> HIDE DEF v
<1>7. /\ Len(v) = Len(w) + 2 /\ v[Len(w) + 1] = a /\ v[Len(w) + 2] = b
      /\ \A i \in 1..Len(w) : v[i] = w[i] /\ i \in 1..Len(v)
      /\ \A i \in 1..Len(v) : i \in 1..Len(w) \/ i = Len(w) + 1 \/ i = Len(w) + 2
      /\ Len(w) + 1 \in 1..Len(v) /\ Len(w) + 2 \in 1..Len(v)
  BY <1>3, <1>5
<1>8. \A i \in 1..Len(v) : AnswerFits(v[i], n, ln)
  <2>1. AnswerFits(a, n, ln) /\ AnswerFits(b, n, ln)
    BY <1>1 DEF AnswerFits, Answered
  <2> QED
    BY <1>7, <2>1 DEF WireFits
<1>9. Paired(v)
  <2>1. ASSUME NEW i \in 1..Len(v), v[i].of = "contacts"
        PROVE  i + 1 \in 1..Len(v) /\ v[i + 1].of = "recent" /\ v[i + 1].by = v[i].by
    <3>1. CASE i \in 1..Len(w)
      <4>1. i + 1 \in 1..Len(w) /\ w[i + 1].of = "recent" /\ w[i + 1].by = w[i].by
        BY <1>7, <2>1, <3>1 DEF WireFits, Paired
      <4> QED
        BY <1>7, <3>1, <4>1
    <3>2. CASE i = Len(w) + 1
      <4>1. i + 1 = Len(w) + 2
        BY <1>3, <3>2
      <4> QED
        BY <1>1, <1>7, <3>2, <4>1
    <3>3. CASE i = Len(w) + 2
      BY <1>1, <1>7, <2>1, <3>3
    <3> QED
      BY <1>7, <3>1, <3>2, <3>3
  <2>2. ASSUME NEW i \in 1..Len(v), v[i].of = "recent", i # 1
        PROVE  v[i - 1].of = "contacts"
    <3>1. CASE i \in 1..Len(w)
      <4>1. w[i - 1].of = "contacts" /\ i - 1 \in 1..Len(w)
        BY <1>3, <1>7, <2>2, <3>1 DEF WireFits, Paired
      <4> QED
        BY <1>7, <4>1
    <3>2. CASE i = Len(w) + 1
      BY <1>1, <1>7, <2>2, <3>2
    <3>3. CASE i = Len(w) + 2
      <4>1. i - 1 = Len(w) + 1
        BY <1>3, <3>3
      <4> QED
        BY <1>1, <1>7, <4>1
    <3> QED
      BY <1>7, <3>1, <3>2, <3>3
  <2> QED
    BY <2>1, <2>2 DEF Paired
<1>10. Submits(w) \subseteq Submits(v)
  BY <1>7 DEF Submits
<1>11. \A i \in Submits(v) : i \in Submits(w) \/ (i = Len(w) + 1 /\ by = "submit")
  <2> SUFFICES ASSUME NEW i \in Submits(v) PROVE i \in Submits(w) \/ (i = Len(w) + 1 /\ by = "submit")
    OBVIOUS
  <2>1. i \in 1..Len(v) /\ v[i].by = "submit" /\ v[i].of \in {"create", "contacts"}
    BY DEF Submits
  <2>2. CASE i \in 1..Len(w)
    BY <1>7, <2>1, <2>2 DEF Submits
  <2>3. CASE i = Len(w) + 1
    BY <1>1, <1>7, <2>1, <2>3
  <2>4. CASE i = Len(w) + 2
    BY <1>1, <1>7, <2>1, <2>4
  <2> QED
    BY <1>7, <2>1, <2>2, <2>3, <2>4
<1>12. \A i, j \in Submits(v) : i = j
  BY <1>11 DEF WireFits
<1>13. \A dom : Precedes(w, dom) => Precedes(v, dom)
  BY <1>1, <1>7 DEF Precedes, Answered
<1>14. WireFits(v, n, ln)
  BY <1>5, <1>6, <1>8, <1>9, <1>12 DEF WireFits
<1> QED
  BY <1>2, <1>3, <1>7, <1>10, <1>11, <1>13, <1>14 DEF a, b

\* The same of a wire that has a name of its own.
LEMMA AskedAgain ==
    ASSUME NEW n, NEW ln, NEW w, WireFits(w, n, ln), NEW by \in {"mount", "button", "submit"},
           by = "submit" => Submits(w) = {},
           NEW v, v = w \o Refresh(by)
    PROVE  /\ WireFits(v, n, ln)
           /\ Len(v) = Len(w) + 2 /\ Len(w) \in Nat
           /\ \A i \in 1..Len(w) : v[i] = w[i] /\ i \in 1..Len(v)
           /\ v[Len(w) + 1] = Request("contacts", by, 0)
           /\ v[Len(w) + 2] = Request("recent", by, 0)
           /\ \A dom : Precedes(w, dom) => Precedes(v, dom)
           /\ Submits(w) \subseteq Submits(v)
           /\ \A i \in Submits(v) : i \in Submits(w) \/ by = "submit"
<1>1. WireFits(v, n, ln) /\ Len(v) = Len(w) + 2 /\ Len(w) \in Nat
  BY RefreshFits
<1>2. \A i \in 1..Len(w) : v[i] = w[i] /\ i \in 1..Len(v)
  BY RefreshFits
<1>3. /\ v[Len(w) + 1] = Request("contacts", by, 0)
      /\ v[Len(w) + 2] = Request("recent", by, 0)
  BY RefreshFits
<1>4. \A dom : Precedes(w, dom) => Precedes(v, dom)
  BY RefreshFits
<1>5. Submits(w) \subseteq Submits(v)
  BY RefreshFits
<1>6. \A i \in Submits(v) : i \in Submits(w) \/ by = "submit"
  BY RefreshFits
<1> QED
  BY <1>1, <1>2, <1>3, <1>4, <1>5, <1>6

\* The page no longer listens for calls it has asked for.
Unheard(w) == [i \in DOMAIN w |-> [w[i] EXCEPT !.heard = w[i].of # "calls" /\ @]]

LEMMA UnheardIs ==
    ASSUME NEW w \in Seq(Ask)
    PROVE  /\ Unheard(w) \in Seq(Ask) /\ Len(Unheard(w)) = Len(w)
           /\ \A i \in 1..Len(w) :
                 /\ Unheard(w)[i].of = w[i].of /\ Unheard(w)[i].by = w[i].by /\ Unheard(w)[i].arg = w[i].arg
                 /\ Unheard(w)[i].done = w[i].done /\ Unheard(w)[i].ok = w[i].ok
                 /\ Unheard(w)[i].says = w[i].says
                 /\ w[i].of = "calls" => ~Unheard(w)[i].heard
<1>0. DOMAIN w = 1..Len(w) /\ Len(w) \in Nat /\ \A i \in 1..Len(w) : w[i] \in Ask
  OBVIOUS
<1> DEFINE v == Unheard(w)
<1>1. v = [i \in 1..Len(w) |-> [w[i] EXCEPT !.heard = w[i].of # "calls" /\ @]]
  BY <1>0 DEF Unheard
<1> HIDE DEF v
<1>2. ASSUME NEW i \in 1..Len(w)
      PROVE  /\ v[i] \in Ask /\ v[i].of = w[i].of /\ v[i].by = w[i].by /\ v[i].arg = w[i].arg
             /\ v[i].done = w[i].done /\ v[i].ok = w[i].ok /\ v[i].says = w[i].says
             /\ w[i].of = "calls" => ~v[i].heard
  <2> DEFINE b == w[i].of # "calls" /\ w[i].heard
             m == w[i]
  <2>1. m \in Ask /\ b \in BOOLEAN
    BY <1>0
  <2>2. v[i] = [m EXCEPT !.heard = b]
    BY <1>0, <1>1 DEF Ask
  <2>3. w[i].of = "calls" => b = FALSE
    OBVIOUS
  <2> HIDE DEF b, m
  <2>4. /\ v[i] \in Ask /\ v[i].of = m.of /\ v[i].by = m.by /\ v[i].arg = m.arg
        /\ v[i].done = m.done /\ v[i].ok = m.ok /\ v[i].says = m.says /\ v[i].heard = b
    BY <2>1, <2>2 DEF Ask
  <2> QED
    BY <2>3, <2>4 DEF m
<1>3. v \in Seq(Ask) /\ Len(v) = Len(w)
  <2>1. v \in [1..Len(w) -> Ask]
    BY <1>1, <1>2
  <2> QED
    BY <1>0, <2>1, SeqDef, LenProperties
<1> QED
  BY <1>2, <1>3 DEF v

LEMMA UnheardFits ==
    ASSUME NEW n, NEW ln, NEW w, WireFits(w, n, ln)
    PROVE  /\ WireFits(Unheard(w), n, ln)
           /\ \A dom : Precedes(w, dom) => Precedes(Unheard(w), dom)
           /\ Submits(Unheard(w)) = Submits(w)
<1>0. w \in Seq(Ask)
  BY DEF WireFits
<1> DEFINE v == Unheard(w)
<1>1. /\ v \in Seq(Ask) /\ Len(v) = Len(w) /\ Len(w) \in Nat
      /\ \A i \in 1..Len(w) : /\ v[i].of = w[i].of /\ v[i].by = w[i].by /\ v[i].arg = w[i].arg
                              /\ v[i].done = w[i].done /\ v[i].ok = w[i].ok /\ v[i].says = w[i].says
  BY <1>0, UnheardIs
<1> HIDE DEF v
<1>2. \A i \in 1..Len(v) : AnswerFits(v[i], n, ln)
  <2> SUFFICES ASSUME NEW i \in 1..Len(w) PROVE AnswerFits(v[i], n, ln)
    BY <1>1
  <2>1. AnswerFits(w[i], n, ln)
    BY DEF WireFits
  <2> QED
    BY <1>1, <2>1 DEF AnswerFits, Answered
<1>3. InOrder(v)
  BY <1>1 DEF WireFits, InOrder
<1>4. Paired(v)
  <2>1. \A i \in 1..Len(v) : v[i].of = "contacts" =>
            i + 1 \in 1..Len(v) /\ v[i + 1].of = "recent" /\ v[i + 1].by = v[i].by
    BY <1>1 DEF WireFits, Paired
  <2>2. \A i \in 1..Len(v) : v[i].of = "recent" /\ i # 1 => v[i - 1].of = "contacts"
    <3> SUFFICES ASSUME NEW i \in 1..Len(v), v[i].of = "recent", i # 1 PROVE v[i - 1].of = "contacts"
      OBVIOUS
    <3>1. i \in 1..Len(w) /\ i - 1 \in 1..Len(w) /\ w[i].of = "recent"
      BY <1>1
    <3> QED
      BY <1>1, <3>1 DEF WireFits, Paired
  <2> QED
    BY <2>1, <2>2 DEF Paired
<1>5. Growing(v)
  BY <1>1 DEF WireFits, Growing, Answered
<1>6. Submits(v) = Submits(w)
  BY <1>1 DEF Submits
<1>7. \A dom : Precedes(w, dom) => Precedes(v, dom)
  BY <1>1 DEF Precedes, Answered
<1> QED
  BY <1>1, <1>2, <1>3, <1>4, <1>5, <1>6, <1>7 DEF WireFits, v

\* The first question that is not answered is.
LEMMA ReplyFits ==
    ASSUME NEW n \in Nat, NEW ln, NEW w, WireFits(w, n, ln),
           NEW t \in 1..Len(w), ~w[t].done, \A i \in 1..Len(w) : i < t => w[i].done,
           NEW v \in Seq(Ask), Len(v) = Len(w), \A i \in 1..Len(w) : i # t => v[i] = w[i],
           v[t].of = w[t].of, v[t].by = w[t].by, v[t].done, AnswerFits(v[t], n, ln),
           Answered(v[t], "contacts") => DOMAIN v[t].says = 1..n
    PROVE  /\ WireFits(v, n, ln)
           /\ \A dom : dom \subseteq 1..n /\ Precedes(w, dom) => Precedes(v, dom)
           /\ Submits(v) = Submits(w)
<1>0. w \in Seq(Ask) /\ Len(w) \in Nat
  BY DEF WireFits
<1>1. \A i \in 1..Len(w) : v[i].of = w[i].of /\ v[i].by = w[i].by
  OBVIOUS
<1>2. \A i \in 1..Len(v) : AnswerFits(v[i], n, ln)
  BY DEF WireFits
<1>3. InOrder(v)
  <2> SUFFICES ASSUME NEW i \in 1..Len(w), NEW j \in 1..Len(w), i < j, v[j].done PROVE v[i].done
    BY DEF InOrder
  <2>1. CASE j = t
    BY <2>1
  <2>2. CASE j # t
    <3>1. w[i].done
      BY <2>2 DEF WireFits, InOrder
    <3> QED
      BY <3>1
  <2> QED
    BY <2>1, <2>2
<1>4. Paired(v)
  <2>1. \A i \in 1..Len(v) : v[i].of = "contacts" =>
            i + 1 \in 1..Len(v) /\ v[i + 1].of = "recent" /\ v[i + 1].by = v[i].by
    BY <1>0, <1>1 DEF WireFits, Paired
  <2>2. \A i \in 1..Len(v) : v[i].of = "recent" /\ i # 1 => v[i - 1].of = "contacts"
    <3> SUFFICES ASSUME NEW i \in 1..Len(v), v[i].of = "recent", i # 1 PROVE v[i - 1].of = "contacts"
      OBVIOUS
    <3>1. i \in 1..Len(w) /\ i - 1 \in 1..Len(w) /\ w[i].of = "recent"
      BY <1>0, <1>1
    <3>2. w[i - 1].of = "contacts"
      BY <3>1 DEF WireFits, Paired
    <3> QED
      BY <1>1, <3>1, <3>2
  <2> QED
    BY <2>1, <2>2 DEF Paired
<1>5. ASSUME NEW i \in 1..Len(w), Answered(v[i], "contacts")
      PROVE  DOMAIN v[i].says \subseteq 1..n
  BY <1>2, <1>5 DEF AnswerFits, CountsFit
<1>6. \A j \in 1..Len(w) : Answered(v[j], "contacts") => j <= t
  <2> SUFFICES ASSUME NEW j \in 1..Len(w), Answered(v[j], "contacts"), t < j PROVE FALSE
    BY <1>0
  <2>1. w[j].done
    BY <1>0 DEF Answered
  <2> QED
    BY <2>1 DEF WireFits, InOrder
<1>7. Growing(v)
  <2> SUFFICES ASSUME NEW i \in 1..Len(w), NEW j \in 1..Len(w), i < j,
                      Answered(v[i], "contacts"), Answered(v[j], "contacts")
               PROVE  DOMAIN v[i].says \subseteq DOMAIN v[j].says
    BY DEF Growing
  <2>1. CASE j = t
    BY <1>5, <2>1
  <2>2. CASE j # t
    <3>1. j < t /\ i # t
      BY <1>0, <1>6, <2>2
    <3>2. v[i] = w[i] /\ v[j] = w[j]
      BY <2>2, <3>1
    <3> QED
      BY <3>2 DEF WireFits, Growing
  <2> QED
    BY <2>1, <2>2
<1>8. Submits(v) = Submits(w)
  BY <1>1 DEF Submits
<1>9. ASSUME NEW dom, dom \subseteq 1..n, Precedes(w, dom) PROVE Precedes(v, dom)
  <2> SUFFICES ASSUME NEW i \in 1..Len(w), Answered(v[i], "contacts") PROVE dom \subseteq DOMAIN v[i].says
    BY DEF Precedes
  <2>1. CASE i = t
    BY <1>9, <2>1
  <2>2. CASE i # t
    BY <1>9, <2>2 DEF Precedes
  <2> QED
    BY <2>1, <2>2
<1> QED
  BY <1>2, <1>3, <1>4, <1>7, <1>8, <1>9 DEF WireFits

-----------------------------------------------------------------------------
(* What the page shows, and is going to be told *)

TablesFit ==
    /\ cards \in Seq(SUBSET Lines) /\ Len(cards) <= MaxCards
    /\ linked \in [Rings -> Nat] /\ hasCrm \in BOOLEAN
    /\ \A r \in Rings : linked[r] = 0 \/ linked[r] = Unsaved \/ linked[r] \in 1..Len(cards)

PageTypes ==
    /\ phase \in {"absent", "loading", "unavailable", "ready"}
    /\ adding \in BOOLEAN /\ refused \in BOOLEAN /\ trouble \in BOOLEAN
    /\ half \in [ok : BOOLEAN, says : Answers]
    /\ selected \in 0..Len(cards)
    /\ phase = "absent" => wire = <<>>

ShownFits ==
    /\ CountsFit(contacts, Len(cards), linked) /\ LinksFit(recent, Len(cards), linked)
    /\ shownCalls.calls \subseteq Linked(linked, shownCalls.of)
    /\ shownCalls.of \in 1..Len(cards) \/ shownCalls.calls = {}
    /\ half.ok => CountsFit(half.says, Len(cards), linked)

ListsFit ==
    /\ WireFits(wire, Len(cards), linked)
    /\ half.ok => wire # <<>> /\ wire[1].of = "recent"
    /\ Precedes(wire, DOMAIN contacts)
    /\ half.ok => DOMAIN contacts \subseteq DOMAIN half.says /\ Precedes(wire, DOMAIN half.says)

\* The refresh after a contact was added has been told the contacts, not yet the links.
HalfShown(w, h) == h.ok /\ w # <<>> /\ w[1].of = "recent" /\ w[1].by = "submit"

AddingFits ==
    /\ \A i \in 1..Len(wire) : wire[i].of = "create" /\ ~wire[i].done => Len(cards) < MaxCards
    /\ Submits(wire) # {} => adding
    /\ HalfShown(wire, half) => adding /\ Submits(wire) = {}

\* Who is picked is in the list, or is going to be.
Coming(k, list, w, h) ==
    \/ k = 0 \/ k \in DOMAIN list
    \/ \E i \in 1..Len(w) : w[i].of = "create"
    \/ \E i \in 1..Len(w) : /\ w[i].of = "contacts" /\ w[i].by = "submit"
                            /\ Answered(w[i], "contacts") => k \in DOMAIN w[i].says
    \/ HalfShown(w, h) /\ k \in DOMAIN h.says

PickIsShown == refused \/ Coming(selected, contacts, wire, half)

ForPick(w, k) == \A i \in 1..Len(w) : w[i].of = "calls" /\ w[i].heard => w[i].arg = k
Listening(w) == \E i \in 1..Len(w) : w[i].of = "calls" /\ w[i].heard

CallsAreComing ==
    /\ ForPick(wire, selected)
    /\ trouble \/ shownCalls.of = selected \/ Listening(wire)

BookInv ==
    /\ TablesFit /\ PageTypes /\ ShownFits /\ ListsFit /\ AddingFits /\ PickIsShown /\ CallsAreComing

pageVars == <<phase, half, contacts, recent, selected, shownCalls, adding, refused, trouble>>

LEMMA EmptyWire ==
    ASSUME NEW n, NEW ln
    PROVE  /\ WireFits(<<>>, n, ln) /\ Submits(<<>>) = {} /\ \A dom : Precedes(<<>>, dom)
           /\ \A k : ForPick(<<>>, k)
<1>1. <<>> \in Seq(Ask) /\ Len(<<>>) = 0 /\ 1..0 = {}
  OBVIOUS
<1>2. Submits(<<>>) = {}
  BY <1>1 DEF Submits
<1>3. InOrder(<<>>) /\ Paired(<<>>) /\ Growing(<<>>)
  BY <1>1 DEF InOrder, Paired, Growing
<1> QED
  BY <1>1, <1>2, <1>3 DEF WireFits, Precedes, ForPick

LEMMA BookStarts == BookInit => BookInv
<1> SUFFICES ASSUME BookInit PROVE BookInv
  OBVIOUS
<1>1. cards = <<>> /\ wire = <<>> /\ Len(cards) = 0 /\ Len(wire) = 0 /\ 1..0 = {}
  BY DEF BookInit
<1>2. /\ linked = [r \in Rings |-> Unsaved] /\ recent = [r \in Rings |-> Unsaved] /\ hasCrm \in BOOLEAN
      /\ phase = "absent" /\ half = [ok |-> FALSE, says |-> 0] /\ contacts = <<>>
      /\ selected = 0 /\ shownCalls = NobodysCalls
      /\ adding = FALSE /\ refused = FALSE /\ trouble = FALSE
  BY DEF BookInit
<1>3. TablesFit
  BY <1>1, <1>2, BookAssumption DEF TablesFit, Unsaved
<1>4. half \in [ok : BOOLEAN, says : Answers] /\ half.ok = FALSE
  <2>1. 0 \in Answers
    BY DEF Answers
  <2> QED
    BY <1>2, <2>1
<1>5. PageTypes
  <2>1. selected \in 0..Len(cards)
    BY <1>1, <1>2
  <2> QED
    BY <1>1, <1>2, <1>4, <2>1 DEF PageTypes
<1>6. shownCalls.of = 0 /\ shownCalls.calls = {}
  BY <1>2 DEF NobodysCalls
<1>7. DOMAIN contacts = {}
  BY <1>2
<1>8. ShownFits
  BY <1>1, <1>2, <1>4, <1>6, <1>7 DEF ShownFits, CountsFit, LinksFit
<1>9. ListsFit
  BY <1>1, <1>4, EmptyWire DEF ListsFit
<1>10. AddingFits
  BY <1>1, <1>4, EmptyWire DEF AddingFits, HalfShown
<1>11. PickIsShown
  BY <1>2 DEF PickIsShown, Coming
<1>12. CallsAreComing
  BY <1>1, <1>2, <1>6, EmptyWire DEF CallsAreComing
<1> QED
  BY <1>3, <1>5, <1>8, <1>9, <1>10, <1>11, <1>12 DEF BookInv

LEMMA BookFits == BookInv => AddedIsShown /\ ShownIsTrue /\ CallsArrive
<1> SUFFICES ASSUME BookInv PROVE AddedIsShown /\ ShownIsTrue /\ CallsArrive
  OBVIOUS
<1>0. TablesFit /\ PageTypes /\ ShownFits /\ ListsFit /\ AddingFits /\ PickIsShown /\ CallsAreComing
  BY DEF BookInv
<1>1. AddedIsShown
  <2> SUFFICES ASSUME ~adding, ~refused PROVE selected = 0 \/ selected \in DOMAIN contacts
    BY DEF AddedIsShown
  <2>1. Coming(selected, contacts, wire, half)
    BY <1>0 DEF PickIsShown
  <2>2. Submits(wire) = {} /\ ~HalfShown(wire, half)
    BY <1>0 DEF AddingFits
  <2>3. \A i \in 1..Len(wire) : wire[i].of # "create"
    BY <1>0, <2>2 DEF Submits, ListsFit, WireFits, AnswerFits
  <2>4. \A i \in 1..Len(wire) : ~(wire[i].of = "contacts" /\ wire[i].by = "submit")
    BY <2>2 DEF Submits
  <2> QED
    BY <2>1, <2>2, <2>3, <2>4 DEF Coming
<1>2. DOMAIN cards = 1..Len(cards) /\ Len(cards) \in Nat
  BY <1>0 DEF TablesFit
<1>3. \A k : CallsOf(k) = Linked(linked, k)
  BY DEF CallsOf, Linked
<1>4. ShownIsTrue
  <2>1. \A k \in DOMAIN contacts : contacts[k] <= Cardinality(CallsOf(k))
    BY <1>0, <1>3 DEF ShownFits, CountsFit
  <2>2. shownCalls.calls \subseteq CallsOf(shownCalls.of)
    BY <1>0, <1>3 DEF ShownFits
  <2>3. \A r \in Rings : recent[r] \in DOMAIN cards => linked[r] = recent[r]
    BY <1>0, <1>2, BookAssumption DEF ShownFits, LinksFit, TablesFit, Unsaved
  <2> QED
    BY <2>1, <2>2, <2>3 DEF ShownIsTrue
<1>5. CallsArrive
  <2> SUFFICES ASSUME wire = <<>>, ~trouble PROVE shownCalls.of = selected
    BY DEF CallsArrive
  <2>1. ~Listening(wire)
    BY DEF Listening
  <2> QED
    BY <1>0, <2>1 DEF CallsAreComing
<1> QED
  BY <1>1, <1>4, <1>5

\* The tables grow, and the page knows nothing of it.
LEMMA TablesMove ==
    ASSUME BookInv, TablesFit', Grow(Len(cards), linked, Len(cards'), linked'), UNCHANGED pageVars
    PROVE  /\ ShownFits' /\ WireFits(wire, Len(cards'), linked')
           /\ selected \in 0..Len(cards') /\ Len(cards) \in Nat /\ Len(cards') \in Nat
<1>0. Len(cards) \in Nat /\ Len(cards') \in Nat /\ Len(cards) <= Len(cards')
  BY DEF BookInv, TablesFit, Grow
<1>1. UNCHANGED <<phase, half, contacts, recent, selected, shownCalls, adding, refused, trouble>>
  BY DEF pageVars
<1>2. WireFits(wire, Len(cards'), linked')
  BY <1>0, WireGrows DEF BookInv, ListsFit
<1>3. selected \in 0..Len(cards')
  BY <1>0 DEF BookInv, PageTypes
<1>4. ShownFits'
  <2>0. ShownFits
    BY DEF BookInv
  <2>1. CountsFit(contacts, Len(cards'), linked') /\ LinksFit(recent, Len(cards'), linked')
    BY <1>0, <2>0, FitsGrow DEF ShownFits
  <2>2. half.ok => CountsFit(half.says, Len(cards'), linked')
    BY <1>0, <2>0, FitsGrow DEF ShownFits
  <2>3. shownCalls.calls \subseteq Linked(linked', shownCalls.of)
    <3>1. CASE shownCalls.calls = {}
      BY <3>1
    <3>2. CASE shownCalls.of \in 1..Len(cards)
      <4>1. Linked(linked, shownCalls.of) \subseteq Linked(linked', shownCalls.of)
        BY <1>0, <3>2, LinkedGrow
      <4> QED
        BY <2>0, <4>1 DEF ShownFits
    <3> QED
      BY <2>0, <3>1, <3>2 DEF ShownFits
  <2>4. shownCalls.of \in 1..Len(cards') \/ shownCalls.calls = {}
    BY <1>0, <2>0 DEF ShownFits
  <2> QED
    BY <1>1, <2>1, <2>2, <2>3, <2>4 DEF ShownFits
<1> QED
  BY <1>0, <1>2, <1>3, <1>4

\* The number of a call is looked up.
LEMMA SaveRingKeeps ==
    ASSUME BookInv, NEW r \in Rings, SaveRing(r) PROVE BookInv'
<1>0. TablesFit /\ PageTypes /\ ShownFits /\ ListsFit /\ AddingFits /\ PickIsShown /\ CallsAreComing
  BY DEF BookInv
<1>1. /\ linked' \in {[linked EXCEPT ![r] = LinkFor(r)], [linked EXCEPT ![r] = IF @ = Unsaved THEN 0 ELSE @]}
      /\ cards' = cards /\ hasCrm' = hasCrm /\ wire' = wire /\ UNCHANGED pageVars
  BY DEF SaveRing, lists, formFields, pageVars
<1>2. DOMAIN cards = 1..Len(cards) /\ Len(cards) \in Nat
  BY <1>0 DEF TablesFit
<1>3. \A line : OwnersOf(line) \subseteq 1..Len(cards)
  BY <1>2 DEF OwnersOf
<1>4. LinkFor(r) \in 0..Len(cards) /\ (linked[r] \in 1..Len(cards) => LinkFor(r) = linked[r])
  <2>1. CASE linked[r] \in 1..Len(cards)
    <3>1. LinkFor(r) = linked[r]
      BY <1>2, <2>1 DEF LinkFor
    <3> QED
      BY <1>2, <2>1, <3>1
  <2>2. CASE linked[r] \notin 1..Len(cards)
    <3>1. CASE OwnersOf(CallerOf[r]) = {}
      <4>1. LinkFor(r) = 0
        BY <1>2, <2>2, <3>1 DEF LinkFor
      <4> QED
        BY <1>2, <2>2, <4>1
    <3>2. CASE OwnersOf(CallerOf[r]) # {}
      <4>1. LinkFor(r) = CHOOSE k \in OwnersOf(CallerOf[r]) : TRUE
        BY <1>2, <2>2, <3>2 DEF LinkFor
      <4>2. LinkFor(r) \in OwnersOf(CallerOf[r])
        BY <3>2, <4>1
      <4> QED
        BY <1>2, <1>3, <2>2, <4>2
    <3> QED
      BY <3>1, <3>2
  <2> QED
    BY <2>1, <2>2
<1>5. PICK x \in 0..MaxCards + 1 :
        /\ linked' = [linked EXCEPT ![r] = x]
        /\ x = 0 \/ x = Unsaved \/ x \in 1..Len(cards)
        /\ linked[r] \in 1..Len(cards) => x = linked[r]
  <2>1. Len(cards) <= MaxCards /\ MaxCards \in Nat /\ linked[r] \in Nat
        /\ (linked[r] = 0 \/ linked[r] = Unsaved \/ linked[r] \in 1..Len(cards))
    BY <1>0, BookAssumption DEF TablesFit
  <2>2. CASE linked' = [linked EXCEPT ![r] = LinkFor(r)]
    <3>1. LinkFor(r) \in 0..MaxCards + 1 /\ (LinkFor(r) = 0 \/ LinkFor(r) \in 1..Len(cards))
      BY <1>2, <1>4, <2>1
    <3> QED
      BY <1>4, <2>2, <3>1
  <2>3. CASE linked' = [linked EXCEPT ![r] = IF @ = Unsaved THEN 0 ELSE @]
    <3> DEFINE y == IF linked[r] = Unsaved THEN 0 ELSE linked[r]
    <3>1. linked' = [linked EXCEPT ![r] = y]
      BY <2>3
    <3>2. y \in 0..MaxCards + 1 /\ (y = 0 \/ y \in 1..Len(cards))
      BY <1>2, <2>1 DEF Unsaved
    <3>3. linked[r] \in 1..Len(cards) => y = linked[r]
      BY <1>2, <2>1 DEF Unsaved
    <3> QED
      BY <3>1, <3>2, <3>3
  <2> QED
    BY <1>1, <2>2, <2>3
<1>6. TablesFit'
  BY <1>0, <1>1, <1>5, BookAssumption DEF TablesFit
<1>7. Grow(Len(cards), linked, Len(cards'), linked')
  BY <1>0, <1>1, <1>2, <1>5 DEF Grow, TablesFit
<1>8. ShownFits' /\ WireFits(wire, Len(cards'), linked')
  BY <1>1, <1>6, <1>7, TablesMove
<1>9. UNCHANGED <<phase, half, contacts, recent, selected, shownCalls, adding, refused, trouble>>
  BY <1>1 DEF pageVars
<1>10. PageTypes' /\ ListsFit' /\ AddingFits'
  BY <1>0, <1>1, <1>8, <1>9 DEF PageTypes, ListsFit, AddingFits, HalfShown
<1>11. PickIsShown' /\ CallsAreComing'
  BY <1>0, <1>1, <1>9 DEF PickIsShown, Coming, HalfShown, CallsAreComing, ForPick, Listening
<1> QED
  BY <1>6, <1>8, <1>10, <1>11 DEF BookInv

\* The main process takes the first question that is not answered.
LEMMA TurnIs ==
    ASSUME BookInv, Turn # 0
    PROVE  /\ Turn \in 1..Len(wire) /\ ~wire[Turn].done
           /\ \A i \in 1..Len(wire) : i < Turn => wire[i].done
<1>1. DOMAIN wire = 1..Len(wire) /\ Len(wire) \in Nat
  BY DEF BookInv, ListsFit, WireFits
<1> DEFINE open == {i \in DOMAIN wire : ~wire[i].done}
<1>2. open # {} /\ Turn = CHOOSE i \in open : \A j \in open : i <= j
  BY DEF Turn
<1>3. open \in SUBSET Nat /\ open \subseteq 1..Len(wire)
  BY <1>1
<1>4. \E i \in open : \A j \in open : i <= j
  BY <1>2, <1>3, LeastOfSome
<1> HIDE DEF open
<1>5. Turn \in open /\ \A j \in open : Turn <= j
  BY <1>2, <1>4
<1>6. Turn \in 1..Len(wire) /\ ~wire[Turn].done
  BY <1>3, <1>5 DEF open
<1>7. ASSUME NEW i \in 1..Len(wire), i < Turn PROVE wire[i].done
  <2> SUFFICES ASSUME ~wire[i].done PROVE FALSE
    OBVIOUS
  <2>1. i \in open
    BY <1>1 DEF open
  <2>2. Turn <= i
    BY <1>5, <2>1
  <2> QED
    BY <1>1, <1>6, <1>7, <2>2
<1> QED
  BY <1>6, <1>7

\* It is answered, and a contact may be created meanwhile.
LEMMA ReplyKeeps ==
    ASSUME BookInv, Turn # 0, NEW ok \in BOOLEAN, NEW says \in Answers, Reply(ok, says),
           TablesFit', Grow(Len(cards), linked, Len(cards'), linked'), UNCHANGED pageVars,
           Len(cards') # Len(cards) => wire[Turn].of = "create",
           ok /\ wire[Turn].of = "contacts" =>
              CountsFit(says, Len(cards'), linked') /\ DOMAIN says = 1..Len(cards'),
           ok /\ wire[Turn].of = "recent" => LinksFit(says, Len(cards'), linked'),
           ok /\ wire[Turn].of = "calls" => says \subseteq Linked(linked', wire[Turn].arg),
           ok /\ wire[Turn].of = "create" => says \in 1..Len(cards')
    PROVE  BookInv'
<1>0. TablesFit /\ PageTypes /\ ShownFits /\ ListsFit /\ AddingFits /\ PickIsShown /\ CallsAreComing
  BY DEF BookInv
<1>1. /\ ShownFits' /\ WireFits(wire, Len(cards'), linked')
      /\ selected \in 0..Len(cards') /\ Len(cards) \in Nat /\ Len(cards') \in Nat
  BY TablesMove
<1>2. UNCHANGED <<phase, half, contacts, recent, selected, shownCalls, adding, refused, trouble>>
  BY DEF pageVars
<1> DEFINE t == Turn
<1>3. t \in 1..Len(wire) /\ ~wire[t].done /\ \A i \in 1..Len(wire) : i < t => wire[i].done
  BY TurnIs
<1>4. wire \in Seq(Ask) /\ wire[t] \in Ask /\ Len(wire) \in Nat
  BY <1>1, <1>3 DEF WireFits
<1>5. PICK m : m = [wire[t] EXCEPT !.done = TRUE, !.ok = ok, !.says = says]
  OBVIOUS
<1>6. /\ m \in Ask /\ m.of = wire[t].of /\ m.by = wire[t].by /\ m.arg = wire[t].arg /\ m.heard = wire[t].heard
      /\ m.done /\ m.ok = ok /\ m.says = says
  BY <1>4, <1>5 DEF Ask
<1>7. wire' = [wire EXCEPT ![t] = m]
  <2>1. wire' = [wire EXCEPT ![t].done = TRUE, ![t].ok = ok, ![t].says = says]
    BY DEF Reply
  <2> QED
    BY <1>4, <1>5, <2>1 DEF Ask
<1> HIDE DEF t
<1>8. /\ wire' \in Seq(Ask) /\ Len(wire') = Len(wire) /\ wire'[t] = m
      /\ \A i \in 1..Len(wire) : i # t => wire'[i] = wire[i]
  BY <1>3, <1>4, <1>6, <1>7
<1>9. AnswerFits(m, Len(cards'), linked')
  <2>1. AnswerFits(wire[t], Len(cards'), linked')
    BY <1>1, <1>3 DEF WireFits
  <2>2. /\ m.of = "calls" => m.arg \in 1..Len(cards')
        /\ m.of = "create" => m.by = "submit" /\ m.arg \in SUBSET Lines
    BY <1>6, <2>1 DEF AnswerFits
  <2>3. /\ Answered(m, "contacts") => CountsFit(m.says, Len(cards'), linked')
        /\ Answered(m, "recent") => LinksFit(m.says, Len(cards'), linked')
        /\ Answered(m, "calls") => m.says \subseteq Linked(linked', m.arg)
        /\ Answered(m, "create") => m.says \in 1..Len(cards')
    BY <1>6 DEF Answered, t
  <2> QED
    BY <2>2, <2>3 DEF AnswerFits
<1>10. Answered(m, "contacts") => DOMAIN m.says = 1..Len(cards')
  BY <1>6 DEF Answered, t
<1>11. /\ WireFits(wire', Len(cards'), linked')
       /\ \A dom : dom \subseteq 1..Len(cards') /\ Precedes(wire, dom) => Precedes(wire', dom)
       /\ Submits(wire') = Submits(wire)
  BY <1>1, <1>3, <1>6, <1>8, <1>9, <1>10, ReplyFits
<1>12. PageTypes'
  BY <1>0, <1>1, <1>2, <1>3, <1>4 DEF PageTypes
<1>13. \A i \in 1..Len(wire) : wire'[i].of = wire[i].of /\ wire'[i].by = wire[i].by
                               /\ wire'[i].arg = wire[i].arg /\ wire'[i].heard = wire[i].heard
  BY <1>6, <1>8
<1>14. wire # <<>> /\ wire' # <<>> /\ 1 \in 1..Len(wire)
  BY <1>3, <1>4, <1>8
<1>15. ListsFit'
  <2>1. half.ok => wire'[1].of = "recent"
    BY <1>0, <1>13, <1>14 DEF ListsFit
  <2>2. Precedes(wire', DOMAIN contacts)
    BY <1>0, <1>1, <1>2, <1>11 DEF ListsFit, ShownFits, CountsFit
  <2>3. half.ok => DOMAIN contacts \subseteq DOMAIN half.says /\ Precedes(wire', DOMAIN half.says)
    BY <1>0, <1>1, <1>2, <1>11 DEF ListsFit, ShownFits, CountsFit
  <2> QED
    BY <1>2, <1>11, <1>14, <2>1, <2>2, <2>3 DEF ListsFit
<1>16. HalfShown(wire', half) <=> HalfShown(wire, half)
  BY <1>13, <1>14 DEF HalfShown
<1>17. AddingFits'
  <2>1. ASSUME NEW i \in 1..Len(wire), wire'[i].of = "create", ~wire'[i].done PROVE Len(cards') < MaxCards
    <3>1. i # t /\ wire'[i] = wire[i]
      BY <1>6, <1>8, <2>1
    <3>2. Len(cards) < MaxCards
      BY <1>0, <2>1, <3>1 DEF AddingFits
    <3>3. wire[t].of # "create"
      <4> SUFFICES ASSUME wire[t].of = "create" PROVE FALSE
        OBVIOUS
      <4>1. wire[i].by = "submit" /\ wire[t].by = "submit"
        BY <1>1, <1>3, <2>1, <3>1 DEF WireFits, AnswerFits
      <4>2. i \in Submits(wire) /\ t \in Submits(wire)
        BY <1>3, <2>1, <3>1, <4>1 DEF Submits
      <4> QED
        BY <1>1, <3>1, <4>2 DEF WireFits
    <3> QED
      BY <3>2, <3>3 DEF t
  <2> QED
    BY <1>0, <1>2, <1>8, <1>11, <1>16, <2>1 DEF AddingFits
<1>18. PickIsShown'
  <2> SUFFICES ASSUME ~refused PROVE Coming(selected, contacts, wire', half)
    BY <1>2 DEF PickIsShown
  <2>0. Coming(selected, contacts, wire, half)
    BY <1>0 DEF PickIsShown
  <2>1. CASE selected = 0 \/ selected \in DOMAIN contacts
    BY <2>1 DEF Coming
  <2>2. CASE \E i \in 1..Len(wire) : wire[i].of = "create"
    BY <1>8, <1>13, <2>2 DEF Coming
  <2>3. CASE HalfShown(wire, half) /\ selected \in DOMAIN half.says
    BY <1>16, <2>3 DEF Coming
  <2>4. ASSUME NEW i \in 1..Len(wire), wire[i].of = "contacts", wire[i].by = "submit",
               Answered(wire[i], "contacts") => selected \in DOMAIN wire[i].says, selected # 0
        PROVE  Coming(selected, contacts, wire', half)
    <3>1. Answered(wire'[i], "contacts") => selected \in DOMAIN wire'[i].says
      <4>1. CASE i = t
        BY <1>1, <1>8, <1>10, <2>4, <4>1
      <4>2. CASE i # t
        BY <1>8, <2>4, <4>2
      <4> QED
        BY <4>1, <4>2
    <3> QED
      BY <1>8, <1>13, <2>4, <3>1 DEF Coming
  <2> QED
    BY <2>0, <2>1, <2>2, <2>3, <2>4 DEF Coming
<1>19. CallsAreComing'
  <2>1. ForPick(wire', selected)
    BY <1>0, <1>8, <1>13 DEF CallsAreComing, ForPick
  <2>2. Listening(wire) => Listening(wire')
    BY <1>8, <1>13 DEF Listening
  <2> QED
    BY <1>0, <1>2, <2>1, <2>2 DEF CallsAreComing
<1> QED
  BY <1>1, <1>12, <1>15, <1>17, <1>18, <1>19 DEF BookInv

LEMMA ServingIs ==
    ASSUME BookInv, NEW of, Serving(of) PROVE Turn # 0 /\ wire[Turn].of = of /\ Turn \in 1..Len(wire)
  BY TurnIs DEF Serving

LEMMA AreAnswers ==
    /\ \A x \in [Rings -> Nat] : x \in Answers
    /\ \A x \in UNION {[1..n -> Nat] : n \in Nat} : x \in Answers
<1>1. ASSUME NEW x, x \in LinkLists PROVE x \in Answers
  BY <1>1, Zenon DEF Answers
<1>2. ASSUME NEW x, x \in CountLists PROVE x \in Answers
  BY <1>2, Zenon DEF Answers
<1> QED
  BY <1>1, <1>2 DEF LinkLists, CountLists

LEMMA SummariesFit ==
    ASSUME BookInv
    PROVE  /\ Summaries \in Answers /\ DOMAIN Summaries = 1..Len(cards)
           /\ CountsFit(Summaries, Len(cards), linked)
<1>1. DOMAIN cards = 1..Len(cards) /\ Len(cards) \in Nat
  BY DEF BookInv, TablesFit
<1>2. ASSUME NEW k \in 1..Len(cards)
      PROVE  /\ Summaries[k] \in Nat /\ Summaries[k] <= Cardinality(Linked(linked, k))
  <2>1. Cardinality(Linked(linked, k)) \in Nat /\ CallsOf(k) = Linked(linked, k)
    BY LinkedAre DEF CallsOf, Linked
  <2>2. Summaries[k] = IF k \in DOMAIN GroupByContact THEN GroupByContact[k] ELSE 0
    BY <1>1 DEF Summaries, ListContacts
  <2>3. k \in DOMAIN GroupByContact => GroupByContact[k] = Cardinality(CallsOf(k))
    BY DEF GroupByContact
  <2> QED
    BY <2>1, <2>2, <2>3
<1>3. DOMAIN Summaries = 1..Len(cards)
  BY <1>1 DEF Summaries, ListContacts
<1>4. Summaries \in [1..Len(cards) -> Nat]
  BY <1>1, <1>2 DEF Summaries, ListContacts
<1>5. Summaries \in Answers
  <2>1. [1..Len(cards) -> Nat] \in {[1..n -> Nat] : n \in Nat}
    BY <1>1
  <2>2. Summaries \in UNION {[1..n -> Nat] : n \in Nat}
    BY <1>4, <2>1
  <2> QED
    BY <2>2, AreAnswers
<1> QED
  BY <1>2, <1>3, <1>5 DEF CountsFit

LEMMA TablesStay ==
    ASSUME BookInv, UNCHANGED tables
    PROVE  /\ TablesFit' /\ Len(cards') = Len(cards) /\ linked' = linked
           /\ Grow(Len(cards), linked, Len(cards'), linked')
  BY DEF tables, BookInv, TablesFit, Grow

LEMMA ServeKeeps ==
    ASSUME BookInv, Serve \/ ServeFails PROVE BookInv'
<1>0. /\ UNCHANGED tables /\ UNCHANGED pageVars
  BY DEF Serve, ServeFails, pageVars, lists, formFields
<1>1. /\ TablesFit' /\ Len(cards') = Len(cards) /\ linked' = linked
      /\ Grow(Len(cards), linked, Len(cards'), linked')
  BY <1>0, TablesStay
<1>2. CASE Serving("available") /\ Reply(TRUE, hasCrm)
  <2>1. hasCrm \in Answers
    BY DEF BookInv, TablesFit, Answers
  <2>2. Turn # 0 /\ wire[Turn].of = "available"
    BY <1>2, ServingIs
  <2> QED
    BY <1>0, <1>1, <1>2, <2>1, <2>2, ReplyKeeps
<1>3. CASE Serving("contacts") /\ Reply(TRUE, Summaries)
  <2>1. Turn # 0 /\ wire[Turn].of = "contacts"
    BY <1>3, ServingIs
  <2> QED
    BY <1>0, <1>1, <1>3, <2>1, SummariesFit, ReplyKeeps
<1>4. CASE Serving("recent") /\ Reply(TRUE, linked)
  <2>1. Turn # 0 /\ wire[Turn].of = "recent"
    BY <1>4, ServingIs
  <2>2. linked \in [Rings -> Nat] /\ \A r \in Rings : linked[r] = 0 \/ linked[r] = Unsaved \/ linked[r] \in 1..Len(cards)
    BY DEF BookInv, TablesFit
  <2>3. linked \in Answers
    BY <2>2, AreAnswers
  <2>4. LinksFit(linked, Len(cards), linked)
    BY <2>2 DEF LinksFit
  <2> QED
    BY <1>0, <1>1, <1>4, <2>1, <2>3, <2>4, ReplyKeeps
<1>5. CASE Serving("calls") /\ Reply(TRUE, CallsOf(wire[Turn].arg))
  <2>1. Turn # 0 /\ wire[Turn].of = "calls"
    BY <1>5, ServingIs
  <2>2. CallsOf(wire[Turn].arg) \in Answers
        /\ CallsOf(wire[Turn].arg) = Linked(linked, wire[Turn].arg)
    BY DEF CallsOf, Linked, Answers
  <2> QED
    BY <1>0, <1>1, <1>5, <2>1, <2>2, ReplyKeeps
<1>6. CASE ServeFails
  <2>1. Turn # 0 /\ Reply(FALSE, 0) /\ 0 \in Answers
    BY <1>6, ServingIs DEF ServeFails, Answers
  <2> QED
    BY <1>0, <1>1, <2>1, ReplyKeeps
<1> QED
  BY <1>2, <1>3, <1>4, <1>5, <1>6 DEF Serve

LEMMA CreateKeeps ==
    ASSUME BookInv, CreateContact PROVE BookInv'
<1>0. TablesFit /\ AddingFits /\ ListsFit
  BY DEF BookInv
<1>1. UNCHANGED pageVars /\ linked' = linked /\ hasCrm' = hasCrm
  BY DEF CreateContact, pageVars, lists, formFields
<1>2. Turn # 0 /\ wire[Turn].of = "create" /\ Turn \in 1..Len(wire) /\ ~wire[Turn].done
  BY ServingIs, TurnIs DEF CreateContact
<1>3. Len(cards) < MaxCards /\ Len(cards) \in Nat /\ wire[Turn].arg \in SUBSET Lines
  BY <1>0, <1>2 DEF AddingFits, TablesFit, ListsFit, WireFits, AnswerFits
<1>4. PICK x \in SUBSET Lines :
        \/ cards' = Append(cards, x) /\ (Reply(TRUE, Len(cards) + 1) \/ Reply(FALSE, 0))
        \/ cards' = cards /\ Reply(FALSE, 0)
  BY <1>3 DEF CreateContact
<1>5. CASE cards' = cards /\ Reply(FALSE, 0)
  <2>1. UNCHANGED tables
    BY <1>1, <1>5 DEF tables
  <2>2. /\ TablesFit' /\ Len(cards') = Len(cards) /\ linked' = linked
        /\ Grow(Len(cards), linked, Len(cards'), linked')
    BY <2>1, TablesStay
  <2>3. 0 \in Answers
    BY DEF Answers
  <2> QED
    BY <1>1, <1>2, <1>5, <2>2, <2>3, ReplyKeeps
<1>6. CASE cards' = Append(cards, x) /\ (Reply(TRUE, Len(cards) + 1) \/ Reply(FALSE, 0))
  <2>1. cards' \in Seq(SUBSET Lines) /\ Len(cards') = Len(cards) + 1
    BY <1>0, <1>6 DEF TablesFit
  <2>2. TablesFit'
    <3>1. \A r \in Rings : linked[r] = 0 \/ linked[r] = Unsaved \/ linked[r] \in 1..Len(cards')
      BY <1>0, <1>3, <2>1 DEF TablesFit
    <3>2. Len(cards') <= MaxCards
      BY <1>3, <2>1, BookAssumption
    <3> QED
      BY <1>0, <1>1, <2>1, <3>1, <3>2 DEF TablesFit
  <2>3. Grow(Len(cards), linked, Len(cards'), linked')
    BY <1>1, <1>3, <2>1 DEF Grow
  <2>4. Len(cards) + 1 \in Answers /\ 0 \in Answers /\ Len(cards) + 1 \in 1..Len(cards')
    BY <1>3, <2>1 DEF Answers
  <2>5. CASE Reply(TRUE, Len(cards) + 1)
    BY <1>1, <1>2, <2>2, <2>3, <2>4, <2>5, ReplyKeeps
  <2>6. CASE Reply(FALSE, 0)
    BY <1>1, <1>2, <2>2, <2>3, <2>4, <2>6, ReplyKeeps
  <2> QED
    BY <1>6, <2>5, <2>6
<1> QED
  BY <1>4, <1>5, <1>6

-----------------------------------------------------------------------------
(* What the page does *)

LEMMA BookParts ==
    ASSUME BookInv
    PROVE  /\ TablesFit /\ PageTypes /\ ShownFits /\ ListsFit /\ AddingFits /\ PickIsShown /\ CallsAreComing
           /\ wire \in Seq(Ask) /\ Len(wire) \in Nat /\ Len(cards) \in Nat
           /\ WireFits(wire, Len(cards), linked)
  BY DEF BookInv, TablesFit, ListsFit, WireFits

LEMMA TablesAreOld ==
    ASSUME BookInv, UNCHANGED tables
    PROVE  TablesFit' /\ Len(cards') = Len(cards) /\ linked' = linked
  BY TablesStay

\* A question is put on the wire, and nothing else changes.
LEMMA MountKeeps ==
    ASSUME BookInv, MountPage PROVE BookInv'
<1>0. TablesFit /\ PageTypes /\ ShownFits /\ ListsFit /\ AddingFits /\ PickIsShown /\ CallsAreComing
  BY BookParts
<1>1. /\ phase = "absent" /\ phase' = "loading"
      /\ UNCHANGED <<half, contacts, recent, selected, shownCalls, trouble, adding, refused>>
      /\ UNCHANGED tables
  BY DEF MountPage, formFields
<1>2. TablesFit' /\ Len(cards') = Len(cards) /\ linked' = linked
  BY <1>1, TablesAreOld
<1>3. wire = <<>> /\ ~half.ok
  BY <1>0, <1>1 DEF PageTypes, ListsFit
<1>4. PICK m : m = Request("available", "mount", 0)
  OBVIOUS
<1>5. m \in Ask /\ m.of = "available" /\ m.by = "mount" /\ ~m.done
  BY <1>4, RequestIs
<1>6. wire' = Append(<<>>, m) /\ Len(wire') = 1 /\ wire'[1] = m
  BY <1>4 DEF MountPage
<1>7. AnswerFits(m, Len(cards), linked)
  BY <1>5 DEF AnswerFits, Answered
<1>8. /\ WireFits(wire', Len(cards), linked) /\ \A dom : Precedes(wire', dom)
      /\ Submits(wire') = {}
  <2>1. /\ WireFits(<<>>, Len(cards), linked) /\ Submits(<<>>) = {} /\ \A dom : Precedes(<<>>, dom)
    BY EmptyWire
  <2> QED
    BY <1>5, <1>6, <1>7, <2>1, AppendFits
<1>9. \A i \in 1..Len(wire') : wire'[i].of = "available"
  BY <1>5, <1>6
<1>10. PageTypes'
  BY <1>0, <1>1, <1>2 DEF PageTypes
<1>11. ShownFits'
  BY <1>0, <1>1, <1>2 DEF ShownFits
<1>12. ListsFit'
  BY <1>1, <1>2, <1>3, <1>8 DEF ListsFit
<1>13. AddingFits'
  BY <1>1, <1>3, <1>8, <1>9 DEF AddingFits, HalfShown
<1>14. PickIsShown'
  <2>1. refused \/ selected = 0 \/ selected \in DOMAIN contacts
    BY <1>0, <1>3 DEF PickIsShown, Coming, HalfShown
  <2> QED
    BY <1>1, <2>1 DEF PickIsShown, Coming
<1>15. CallsAreComing'
  <2>1. ForPick(wire', selected)
    BY <1>9 DEF ForPick
  <2>2. trouble \/ shownCalls.of = selected
    BY <1>0, <1>3 DEF CallsAreComing, Listening
  <2> QED
    BY <1>1, <2>1, <2>2 DEF CallsAreComing
<1> QED
  BY <1>2, <1>10, <1>11, <1>12, <1>13, <1>14, <1>15 DEF BookInv

\* Another contact is picked: those of the last one are not listened for.
LEMMA SelectIs ==
    ASSUME NEW n, NEW ln, NEW w, WireFits(w, n, ln), NEW k \in 1..n, n \in Nat, Select(k, w)
    PROVE  /\ selected' = k /\ WireFits(wire', n, ln) /\ Submits(wire') = Submits(w)
           /\ \A dom : Precedes(w, dom) => Precedes(wire', dom)
           /\ ForPick(wire', k) /\ Listening(wire')
           /\ Len(wire') = Len(w) + 1 /\ Len(w) \in Nat
           /\ \A i \in 1..Len(w) :
                 /\ i \in 1..Len(wire') /\ wire'[i].of = w[i].of /\ wire'[i].by = w[i].by
                 /\ wire'[i].done = w[i].done /\ wire'[i].ok = w[i].ok /\ wire'[i].says = w[i].says
           /\ wire'[Len(w) + 1].of = "calls" /\ wire'[Len(w) + 1].by = "page"
           /\ wire' # <<>>
<1>0. w \in Seq(Ask) /\ Len(w) \in Nat
  BY DEF WireFits
<1>1. PICK m : m = Request("calls", "page", k)
  OBVIOUS
<1>2. m \in Ask /\ m.of = "calls" /\ m.by = "page" /\ m.arg = k /\ m.heard /\ ~m.done
  BY <1>1, RequestIs
<1>3. PICK u : u = Unheard(w)
  OBVIOUS
<1>4. selected' = k /\ wire' = Append(u, m)
  BY <1>1, <1>3 DEF Select, Unheard
<1>5. /\ u \in Seq(Ask) /\ Len(u) = Len(w)
      /\ \A i \in 1..Len(w) :
            /\ u[i].of = w[i].of /\ u[i].by = w[i].by
            /\ u[i].done = w[i].done /\ u[i].ok = w[i].ok /\ u[i].says = w[i].says
            /\ w[i].of = "calls" => ~u[i].heard
  BY <1>0, <1>3, UnheardIs
<1>6. WireFits(u, n, ln) /\ Submits(u) = Submits(w) /\ \A dom : Precedes(w, dom) => Precedes(u, dom)
  BY <1>3, UnheardFits
<1>7. AnswerFits(m, n, ln)
  BY <1>2 DEF AnswerFits, Answered
<1>8. /\ WireFits(wire', n, ln) /\ \A dom : Precedes(u, dom) => Precedes(wire', dom)
      /\ Submits(u) \subseteq Submits(wire')
      /\ \A i \in Submits(wire') : i \in Submits(u)
  BY <1>2, <1>4, <1>6, <1>7, AppendFits
<1>9. /\ wire' \in Seq(Ask) /\ Len(wire') = Len(w) + 1 /\ wire'[Len(w) + 1] = m
      /\ \A i \in 1..Len(w) : wire'[i] = u[i] /\ i \in 1..Len(wire')
      /\ \A i \in 1..Len(wire') : i \in 1..Len(w) \/ i = Len(w) + 1
  BY <1>2, <1>4, <1>5, AskedLast
<1>10. ForPick(wire', k)
  BY <1>2, <1>5, <1>9 DEF ForPick
<1>11. Listening(wire')
  <2>1. Len(w) + 1 \in 1..Len(wire')
    BY <1>0, <1>9
  <2> QED
    BY <1>2, <1>9, <2>1 DEF Listening
<1>12. wire' # <<>>
  BY <1>0, <1>9
<1> QED
  BY <1>0, <1>2, <1>4, <1>5, <1>6, <1>8, <1>9, <1>10, <1>11, <1>12

LEMMA PickKeeps ==
    ASSUME BookInv, NEW k \in DOMAIN contacts, Pick(k) PROVE BookInv'
<1>0. /\ TablesFit /\ PageTypes /\ ShownFits /\ ListsFit /\ AddingFits /\ PickIsShown /\ CallsAreComing
      /\ wire \in Seq(Ask) /\ Len(wire) \in Nat /\ Len(cards) \in Nat
      /\ WireFits(wire, Len(cards), linked)
  BY BookParts
<1>1. /\ phase = "ready" /\ Select(k, wire) /\ UNCHANGED tables
      /\ UNCHANGED <<phase, half, contacts, recent, shownCalls, trouble, adding, refused>>
  BY DEF Pick, formFields, lists
<1>2. TablesFit' /\ Len(cards') = Len(cards) /\ linked' = linked
  BY <1>1, TablesAreOld
<1>3. k \in 1..Len(cards)
  BY <1>0 DEF ShownFits, CountsFit
<1>4. /\ selected' = k /\ WireFits(wire', Len(cards), linked) /\ Submits(wire') = Submits(wire)
      /\ \A dom : Precedes(wire, dom) => Precedes(wire', dom)
      /\ ForPick(wire', k) /\ Listening(wire') /\ Len(wire') = Len(wire) + 1 /\ wire' # <<>>
      /\ \A i \in 1..Len(wire) :
            /\ i \in 1..Len(wire') /\ wire'[i].of = wire[i].of /\ wire'[i].by = wire[i].by
            /\ wire'[i].done = wire[i].done /\ wire'[i].ok = wire[i].ok /\ wire'[i].says = wire[i].says
      /\ wire'[Len(wire) + 1].of = "calls" /\ wire'[Len(wire) + 1].by = "page"
  BY <1>0, <1>1, <1>3, SelectIs
<1>5. selected' \in 0..Len(cards)
  BY <1>0, <1>3, <1>4
<1>6. PageTypes'
  BY <1>0, <1>1, <1>2, <1>5 DEF PageTypes
<1>7. ShownFits'
  BY <1>0, <1>1, <1>2 DEF ShownFits
<1>8. half.ok => wire'[1].of = "recent" /\ wire'[1].by = wire[1].by
  <2>1. half.ok => 1 \in 1..Len(wire) /\ wire[1].of = "recent"
    BY <1>0 DEF ListsFit
  <2> QED
    BY <1>4, <2>1
<1>9. ListsFit'
  BY <1>0, <1>1, <1>2, <1>4, <1>8 DEF ListsFit
<1>10. AddingFits'
  <2>1. ASSUME NEW i \in 1..Len(wire'), wire'[i].of = "create", ~wire'[i].done PROVE Len(cards) < MaxCards
    <3>1. i \in 1..Len(wire) \/ i = Len(wire) + 1
      BY <1>0, <1>4
    <3>2. i \in 1..Len(wire) /\ wire[i].of = "create" /\ ~wire[i].done
      BY <1>4, <2>1, <3>1
    <3> QED
      BY <1>0, <3>2 DEF AddingFits
  <2>2. HalfShown(wire', half) => HalfShown(wire, half)
    BY <1>0, <1>8 DEF HalfShown, ListsFit
  <2> QED
    BY <1>0, <1>1, <1>2, <1>4, <2>1, <2>2 DEF AddingFits
<1>11. PickIsShown'
  BY <1>1, <1>4 DEF PickIsShown, Coming
<1>12. CallsAreComing'
  BY <1>4 DEF CallsAreComing
<1> QED
  BY <1>2, <1>6, <1>7, <1>9, <1>10, <1>11, <1>12 DEF BookInv

\* What is on the wire stays there, and more comes behind it.
LEMMA LongerWire ==
    ASSUME BookInv, NEW w \in Seq(Ask), Len(w) >= Len(wire), \A i \in 1..Len(wire) : w[i] = wire[i]
    PROVE  /\ \A i \in 1..Len(wire) : i \in 1..Len(w)
           /\ \A k : Coming(k, contacts, wire, half) => Coming(k, contacts, w, half)
           /\ half.ok => w # <<>> /\ w[1].of = "recent"
           /\ HalfShown(w, half) => HalfShown(wire, half)
           /\ Listening(wire) => Listening(w)
<1>0. wire \in Seq(Ask) /\ Len(wire) \in Nat /\ ListsFit
  BY BookParts
<1>1. Len(w) \in Nat /\ \A i \in 1..Len(wire) : i \in 1..Len(w)
  BY <1>0
<1>2. half.ok => wire # <<>> /\ 1 \in 1..Len(wire) /\ w # <<>> /\ w[1] = wire[1] /\ wire[1].of = "recent"
  BY <1>0, <1>1 DEF ListsFit
<1>3. ASSUME NEW k, Coming(k, contacts, wire, half) PROVE Coming(k, contacts, w, half)
  <2>1. CASE k = 0 \/ k \in DOMAIN contacts
    BY <2>1 DEF Coming
  <2>2. CASE HalfShown(wire, half) /\ k \in DOMAIN half.says
    BY <1>2, <2>2 DEF Coming, HalfShown
  <2>3. CASE \E i \in 1..Len(wire) : wire[i].of = "create"
    BY <1>1, <2>3 DEF Coming
  <2>4. CASE \E i \in 1..Len(wire) : /\ wire[i].of = "contacts" /\ wire[i].by = "submit"
                                     /\ Answered(wire[i], "contacts") => k \in DOMAIN wire[i].says
    BY <1>1, <2>4 DEF Coming
  <2> QED
    BY <1>3, <2>1, <2>2, <2>3, <2>4 DEF Coming
<1>4. Listening(wire) => Listening(w)
  BY <1>1 DEF Listening
<1>5. HalfShown(w, half) => HalfShown(wire, half)
  BY <1>2 DEF HalfShown
<1> QED
  BY <1>1, <1>2, <1>3, <1>4, <1>5

LEMMA RefreshKeeps ==
    ASSUME BookInv, ClickRefresh PROVE BookInv'
<1>0. /\ TablesFit /\ PageTypes /\ ShownFits /\ ListsFit /\ AddingFits /\ PickIsShown /\ CallsAreComing
      /\ wire \in Seq(Ask) /\ Len(wire) \in Nat /\ Len(cards) \in Nat
      /\ WireFits(wire, Len(cards), linked)
  BY BookParts
<1>1. /\ phase = "ready" /\ UNCHANGED tables
      /\ UNCHANGED <<phase, half, contacts, recent, selected, shownCalls, trouble, adding, refused>>
  BY DEF ClickRefresh, formFields, lists
<1>2. TablesFit' /\ Len(cards') = Len(cards) /\ linked' = linked
  BY <1>1, TablesAreOld
<1>3. PICK a : a = Request("contacts", "button", 0)
  OBVIOUS
<1>4. PICK b : b = Request("recent", "button", 0)
  OBVIOUS
<1>5. a.of = "contacts" /\ a.by = "button" /\ b.of = "recent" /\ b.by = "button"
  BY <1>3, <1>4, RequestIs
<1>6. wire' = wire \o Refresh("button")
  BY DEF ClickRefresh
<1>7. /\ WireFits(wire', Len(cards), linked) /\ Len(wire') = Len(wire) + 2
      /\ \A i \in 1..Len(wire) : wire'[i] = wire[i] /\ i \in 1..Len(wire')
      /\ wire'[Len(wire) + 1] = a /\ wire'[Len(wire) + 2] = b
      /\ \A dom : Precedes(wire, dom) => Precedes(wire', dom)
      /\ \A i \in Submits(wire') : i \in Submits(wire)
  <2>1. WireFits(wire', Len(cards), linked) /\ Len(wire') = Len(wire) + 2
    BY <1>0, <1>6, AskedAgain
  <2>2. \A i \in 1..Len(wire) : wire'[i] = wire[i] /\ i \in 1..Len(wire')
    BY <1>0, <1>6, AskedAgain
  <2>3. wire'[Len(wire) + 1] = a /\ wire'[Len(wire) + 2] = b
    BY <1>0, <1>3, <1>4, <1>6, AskedAgain
  <2>4. \A dom : Precedes(wire, dom) => Precedes(wire', dom)
    BY <1>0, <1>6, AskedAgain
  <2>5. \A i \in Submits(wire') : i \in Submits(wire)
    BY <1>0, <1>6, AskedAgain
  <2> QED
    BY <2>1, <2>2, <2>3, <2>4, <2>5
<1>8. wire' \in Seq(Ask) /\ Len(wire') >= Len(wire)
  BY <1>0, <1>7 DEF WireFits
<1>9. /\ \A k : Coming(k, contacts, wire, half) => Coming(k, contacts, wire', half)
      /\ half.ok => wire' # <<>> /\ wire'[1].of = "recent"
      /\ HalfShown(wire', half) => HalfShown(wire, half)
      /\ Listening(wire) => Listening(wire')
  BY <1>7, <1>8, LongerWire
<1>10. \A i \in 1..Len(wire') : i \in 1..Len(wire) \/ i = Len(wire) + 1 \/ i = Len(wire) + 2
  BY <1>0, <1>7
<1>11. PageTypes'
  BY <1>0, <1>1, <1>2 DEF PageTypes
<1>12. ShownFits'
  BY <1>0, <1>1, <1>2 DEF ShownFits
<1>13. ListsFit'
  BY <1>0, <1>1, <1>2, <1>7, <1>9 DEF ListsFit
<1>14. AddingFits'
  <2>1. \A i \in 1..Len(wire') : wire'[i].of = "create" /\ ~wire'[i].done => Len(cards) < MaxCards
    BY <1>0, <1>5, <1>7, <1>10 DEF AddingFits
  <2>2. Submits(wire) = {} => Submits(wire') = {}
    BY <1>7
  <2> QED
    BY <1>0, <1>1, <1>2, <1>9, <2>1, <2>2 DEF AddingFits
<1>15. PickIsShown'
  BY <1>0, <1>1, <1>9 DEF PickIsShown
<1>16. CallsAreComing'
  <2>1. ForPick(wire', selected)
    BY <1>0, <1>5, <1>7, <1>10 DEF CallsAreComing, ForPick
  <2> QED
    BY <1>0, <1>1, <1>9, <2>1 DEF CallsAreComing
<1> QED
  BY <1>2, <1>11, <1>12, <1>13, <1>14, <1>15, <1>16 DEF BookInv

LEMMA AddKeeps ==
    ASSUME BookInv, NEW numbers \in SUBSET Lines, ClickAdd(numbers) PROVE BookInv'
<1>0. /\ TablesFit /\ PageTypes /\ ShownFits /\ ListsFit /\ AddingFits /\ PickIsShown /\ CallsAreComing
      /\ wire \in Seq(Ask) /\ Len(wire) \in Nat /\ Len(cards) \in Nat
      /\ WireFits(wire, Len(cards), linked)
  BY BookParts
<1>1. /\ phase = "ready" /\ ~adding /\ adding' = TRUE /\ refused' = FALSE /\ Len(cards) < MaxCards
      /\ UNCHANGED tables
      /\ UNCHANGED <<phase, half, contacts, recent, selected, shownCalls, trouble>>
  BY DEF ClickAdd, lists
<1>2. TablesFit' /\ Len(cards') = Len(cards) /\ linked' = linked
  BY <1>1, TablesAreOld
<1>3. PICK m : m = Request("create", "submit", numbers)
  OBVIOUS
<1>4. m \in Ask /\ m.of = "create" /\ m.by = "submit" /\ m.arg = numbers /\ ~m.done
  BY <1>3, RequestIs
<1>5. wire' = Append(wire, m)
  BY <1>3 DEF ClickAdd
<1>6. AnswerFits(m, Len(cards), linked)
  BY <1>4 DEF AnswerFits, Answered
<1>7. Submits(wire) = {} /\ ~HalfShown(wire, half)
  BY <1>0, <1>1 DEF AddingFits
<1>8. /\ WireFits(wire', Len(cards), linked)
      /\ \A dom : Precedes(wire, dom) => Precedes(wire', dom)
  BY <1>0, <1>4, <1>5, <1>6, <1>7, AppendFits
<1>9. /\ wire' \in Seq(Ask) /\ Len(wire') = Len(wire) + 1 /\ wire'[Len(wire) + 1] = m
      /\ \A i \in 1..Len(wire) : wire'[i] = wire[i] /\ i \in 1..Len(wire')
      /\ \A i \in 1..Len(wire') : i \in 1..Len(wire) \/ i = Len(wire) + 1
  BY <1>0, <1>4, <1>5, AskedLast
<1>10. Len(wire') >= Len(wire) /\ Len(wire) + 1 \in 1..Len(wire')
  BY <1>0, <1>9
<1>11. /\ half.ok => wire' # <<>> /\ wire'[1].of = "recent"
       /\ HalfShown(wire', half) => HalfShown(wire, half)
       /\ Listening(wire) => Listening(wire')
  BY <1>9, <1>10, LongerWire
<1>12. PageTypes'
  BY <1>0, <1>1, <1>2 DEF PageTypes
<1>13. ShownFits'
  BY <1>0, <1>1, <1>2 DEF ShownFits
<1>14. ListsFit'
  BY <1>0, <1>1, <1>2, <1>8, <1>11 DEF ListsFit
<1>15. AddingFits'
  BY <1>1, <1>2, <1>7, <1>11 DEF AddingFits
<1>16. PickIsShown'
  BY <1>4, <1>9, <1>10 DEF PickIsShown, Coming
<1>17. CallsAreComing'
  <2>1. ForPick(wire', selected)
    BY <1>0, <1>4, <1>9 DEF CallsAreComing, ForPick
  <2> QED
    BY <1>0, <1>1, <1>11, <2>1 DEF CallsAreComing
<1> QED
  BY <1>2, <1>12, <1>13, <1>14, <1>15, <1>16, <1>17 DEF BookInv

\* The first answer is heard.
LEMMA HeardFits ==
    ASSUME BookInv, wire # <<>>
    PROVE  /\ Head(wire) = wire[1] /\ 1 \in 1..Len(wire) /\ wire[1] \in Ask
           /\ AnswerFits(wire[1], Len(cards), linked)
           /\ WireFits(Tail(wire), Len(cards), linked) /\ Len(Tail(wire)) = Len(wire) - 1
           /\ \A i \in 1..Len(Tail(wire)) : Tail(wire)[i] = wire[i + 1] /\ i + 1 \in 1..Len(wire)
           /\ \A i \in 1..Len(wire) : i = 1 \/ (i - 1 \in 1..Len(Tail(wire)) /\ Tail(wire)[i - 1] = wire[i])
           /\ \A dom : Precedes(wire, dom) => Precedes(Tail(wire), dom)
           /\ Submits(wire) = {} => Submits(Tail(wire)) = {}
           /\ wire[1].by = "submit" /\ wire[1].of \in {"create", "contacts"} => Submits(Tail(wire)) = {}
           /\ Len(Tail(wire)) \in Nat
<1>0. wire \in Seq(Ask) /\ Len(wire) \in Nat /\ WireFits(wire, Len(cards), linked)
  BY BookParts
<1>1. /\ Tail(wire) \in Seq(Ask) /\ Len(Tail(wire)) = Len(wire) - 1 /\ Len(wire) \in Nat \ {0}
      /\ Head(wire) = wire[1] /\ Head(wire) \in Ask
      /\ \A i \in 1..(Len(wire) - 1) : Tail(wire)[i] = wire[i + 1] /\ i + 1 \in 1..Len(wire)
  BY <1>0, FirstHeard
<1>2. PICK v : v = Tail(wire)
  OBVIOUS
<1>3. /\ v \in Seq(Ask) /\ Len(v) = Len(wire) - 1 /\ Len(wire) \in Nat \ {0} /\ 1 \in 1..Len(wire)
      /\ \A i \in 1..Len(v) : v[i] = wire[i + 1] /\ i + 1 \in 1..Len(wire)
  BY <1>1, <1>2
<1>4. /\ WireFits(v, Len(cards), linked)
      /\ \A dom : Precedes(wire, dom) => Precedes(v, dom)
      /\ \A i \in Submits(v) : i + 1 \in Submits(wire) /\ i + 1 # 1
  BY <1>0, <1>2, TailFits
<1>5. \A i \in 1..Len(wire) : i = 1 \/ (i - 1 \in 1..Len(v) /\ v[i - 1] = wire[i])
  <2> SUFFICES ASSUME NEW i \in 1..Len(wire), i # 1 PROVE i - 1 \in 1..Len(v) /\ v[i - 1] = wire[i]
    OBVIOUS
  <2>1. i - 1 \in 1..Len(v) /\ (i - 1) + 1 = i
    BY <1>3
  <2> QED
    BY <1>3, <2>1
<1>6. Submits(wire) = {} => Submits(v) = {}
  BY <1>4
<1>7. wire[1].by = "submit" /\ wire[1].of \in {"create", "contacts"} => Submits(v) = {}
  <2> SUFFICES ASSUME wire[1].by = "submit", wire[1].of \in {"create", "contacts"}, NEW i \in Submits(v)
               PROVE  FALSE
    OBVIOUS
  <2>1. 1 \in Submits(wire)
    BY <1>3 DEF Submits
  <2> QED
    BY <1>0, <1>4, <2>1 DEF WireFits
<1>8. AnswerFits(wire[1], Len(cards), linked) /\ wire[1] \in Ask
  BY <1>0, <1>1, <1>3 DEF WireFits
<1> QED
  BY <1>1, <1>2, <1>3, <1>4, <1>5, <1>6, <1>7, <1>8

\* What was coming is still on its way, or is what was heard.
LEMMA StillComing ==
    ASSUME BookInv, wire # <<>>, NEW k, Coming(k, contacts, wire, half)
    PROVE  \/ k = 0 \/ k \in DOMAIN contacts
           \/ \A h : Coming(k, contacts, Tail(wire), h)
           \/ wire[1].of = "create"
           \/ /\ wire[1].of = "contacts" /\ wire[1].by = "submit"
              /\ Answered(wire[1], "contacts") => k \in DOMAIN wire[1].says
           \/ HalfShown(wire, half) /\ k \in DOMAIN half.says
<1>0. \A i \in 1..Len(wire) : i = 1 \/ (i - 1 \in 1..Len(Tail(wire)) /\ Tail(wire)[i - 1] = wire[i])
  BY HeardFits
<1>1. CASE \E i \in 1..Len(wire) : wire[i].of = "create"
  <2>1. PICK i \in 1..Len(wire) : wire[i].of = "create"
    BY <1>1
  <2>2. i = 1 \/ \E j \in 1..Len(Tail(wire)) : Tail(wire)[j].of = "create"
    BY <1>0, <2>1
  <2> QED
    BY <2>1, <2>2 DEF Coming
<1>2. CASE \E i \in 1..Len(wire) : /\ wire[i].of = "contacts" /\ wire[i].by = "submit"
                                   /\ Answered(wire[i], "contacts") => k \in DOMAIN wire[i].says
  <2>1. PICK i \in 1..Len(wire) : /\ wire[i].of = "contacts" /\ wire[i].by = "submit"
                                  /\ Answered(wire[i], "contacts") => k \in DOMAIN wire[i].says
    BY <1>2
  <2>2. CASE i = 1
    BY <2>1, <2>2
  <2>3. CASE i # 1
    <3>1. i - 1 \in 1..Len(Tail(wire)) /\ Tail(wire)[i - 1] = wire[i]
      BY <1>0, <2>3
    <3>2. PICK j \in 1..Len(Tail(wire)) : Tail(wire)[j] = wire[i]
      BY <3>1
    <3> QED
      BY <2>1, <3>2 DEF Coming
  <2> QED
    BY <2>2, <2>3
<1> QED
  BY <1>1, <1>2 DEF Coming

\* The questions that are left are as they were.
LEMMA StillAsked ==
    ASSUME BookInv, wire # <<>>
    PROVE  /\ \A i \in 1..Len(Tail(wire)) : Tail(wire)[i].of = "create" /\ ~Tail(wire)[i].done => Len(cards) < MaxCards
           /\ ForPick(Tail(wire), selected)
           /\ wire[1].of # "calls" => (Listening(wire) => Listening(Tail(wire)))
           /\ ~wire[1].heard => (Listening(wire) => Listening(Tail(wire)))
           /\ wire[1].of # "recent" => ~half.ok
           /\ phase # "absent"
<1>0. /\ \A i \in 1..Len(Tail(wire)) : Tail(wire)[i] = wire[i + 1] /\ i + 1 \in 1..Len(wire)
      /\ \A i \in 1..Len(wire) : i = 1 \/ (i - 1 \in 1..Len(Tail(wire)) /\ Tail(wire)[i - 1] = wire[i])
  BY HeardFits
<1>1. PageTypes /\ ListsFit /\ AddingFits /\ CallsAreComing
  BY BookParts
<1>2. \A i \in 1..Len(Tail(wire)) : Tail(wire)[i].of = "create" /\ ~Tail(wire)[i].done => Len(cards) < MaxCards
  BY <1>0, <1>1 DEF AddingFits
<1>3. ForPick(Tail(wire), selected)
  BY <1>0, <1>1 DEF CallsAreComing, ForPick
<1>4. Listening(wire) => (wire[1].of = "calls" /\ wire[1].heard) \/ Listening(Tail(wire))
  <2> SUFFICES ASSUME NEW i \in 1..Len(wire), wire[i].of = "calls", wire[i].heard
               PROVE  (wire[1].of = "calls" /\ wire[1].heard) \/ Listening(Tail(wire))
    BY DEF Listening
  <2>1. CASE i = 1
    BY <2>1
  <2>2. CASE i # 1
    <3>1. PICK j \in 1..Len(Tail(wire)) : Tail(wire)[j] = wire[i]
      BY <1>0, <2>2
    <3> QED
      BY <3>1 DEF Listening
  <2> QED
    BY <2>1, <2>2
<1>5. wire[1].of # "recent" => ~half.ok
  BY <1>1 DEF ListsFit
<1>6. phase # "absent"
  BY <1>1 DEF PageTypes
<1> QED
  BY <1>2, <1>3, <1>4, <1>5, <1>6

LEMMA HearCallsKeeps ==
    ASSUME BookInv, HearCalls PROVE BookInv'
<1>0. TablesFit /\ PageTypes /\ ShownFits /\ ListsFit /\ AddingFits /\ PickIsShown /\ CallsAreComing
  BY BookParts
<1>1. /\ wire # <<>> /\ Head(wire).of = "calls" /\ Head(wire).done /\ UNCHANGED tables
      /\ UNCHANGED <<phase, half, contacts, recent, selected, adding, refused>>
      /\ shownCalls' = IF Head(wire).heard /\ Head(wire).ok
                       THEN [of |-> Head(wire).arg, calls |-> Head(wire).says] ELSE shownCalls
      /\ trouble' = (trouble \/ (Head(wire).heard /\ ~Head(wire).ok))
  BY DEF HearCalls, Reached, lists, formFields
<1>2. TablesFit' /\ Len(cards') = Len(cards) /\ linked' = linked
  BY <1>1, TablesAreOld
<1>3. PICK v : v = Tail(wire)
  OBVIOUS
<1>4. wire' = v
  BY <1>3 DEF HearCalls
<1>5. /\ Head(wire) = wire[1] /\ 1 \in 1..Len(wire) /\ wire[1] \in Ask /\ AnswerFits(wire[1], Len(cards), linked)
      /\ WireFits(v, Len(cards), linked)
      /\ \A dom : Precedes(wire, dom) => Precedes(v, dom)
      /\ Submits(wire) = {} => Submits(v) = {}
  BY <1>1, <1>3, HeardFits
<1>6. /\ \A i \in 1..Len(v) : v[i].of = "create" /\ ~v[i].done => Len(cards) < MaxCards
      /\ ForPick(v, selected) /\ ~half.ok /\ phase # "absent"
      /\ ~wire[1].heard => (Listening(wire) => Listening(v))
  <2>1. wire[1].of # "recent"
    BY <1>1, <1>5
  <2> QED
    BY <1>1, <1>3, <2>1, StillAsked
<1>7. PICK m : m = wire[1]
  OBVIOUS
<1>8. m.of = "calls" /\ m.done /\ m.arg \in 1..Len(cards) /\ (m.ok => m.says \subseteq Linked(linked, m.arg))
      /\ m.heard \in BOOLEAN /\ m.ok \in BOOLEAN /\ (m.heard => m.arg = selected)
  <2>1. m.of = "calls" /\ m.done /\ m.heard \in BOOLEAN /\ m.ok \in BOOLEAN
    BY <1>1, <1>5, <1>7 DEF Ask
  <2>2. m.heard => m.arg = selected
    BY <1>0, <1>5, <1>7, <2>1 DEF CallsAreComing, ForPick
  <2> QED
    BY <1>5, <1>7, <2>1, <2>2 DEF AnswerFits, Answered
<1>9. /\ shownCalls' = IF m.heard /\ m.ok THEN [of |-> m.arg, calls |-> m.says] ELSE shownCalls
      /\ trouble' = (trouble \/ (m.heard /\ ~m.ok))
  BY <1>1, <1>5, <1>7
<1>10. PageTypes'
  <2>1. trouble' \in BOOLEAN
    BY <1>0, <1>8, <1>9 DEF PageTypes
  <2> QED
    BY <1>0, <1>1, <1>2, <1>6, <2>1 DEF PageTypes
<1>11. ShownFits'
  <2>1. /\ shownCalls'.calls \subseteq Linked(linked, shownCalls'.of)
        /\ shownCalls'.of \in 1..Len(cards) \/ shownCalls'.calls = {}
    <3>1. CASE m.heard /\ m.ok
      <4>1. shownCalls'.of = m.arg /\ shownCalls'.calls = m.says
        BY <1>9, <3>1
      <4> QED
        BY <1>8, <3>1, <4>1
    <3>2. CASE ~(m.heard /\ m.ok)
      <4>1. shownCalls' = shownCalls
        BY <1>9, <3>2
      <4> QED
        BY <1>0, <4>1 DEF ShownFits
    <3> QED
      BY <3>1, <3>2
  <2> QED
    BY <1>0, <1>1, <1>2, <2>1 DEF ShownFits
<1>12. ListsFit'
  BY <1>0, <1>1, <1>2, <1>4, <1>5, <1>6 DEF ListsFit
<1>13. AddingFits'
  BY <1>0, <1>1, <1>2, <1>4, <1>5, <1>6 DEF AddingFits, HalfShown
<1>14. PickIsShown'
  <2> SUFFICES ASSUME ~refused PROVE Coming(selected, contacts, v, half)
    BY <1>1, <1>4 DEF PickIsShown
  <2>1. Coming(selected, contacts, wire, half)
    BY <1>0 DEF PickIsShown
  <2>2. wire[1].of = "calls"
    BY <1>1, <1>5
  <2>3. \/ selected = 0 \/ selected \in DOMAIN contacts \/ \A h : Coming(selected, contacts, v, h)
    BY <1>1, <1>3, <1>6, <2>1, <2>2, StillComing DEF HalfShown
  <2> QED
    BY <2>3 DEF Coming
<1>15. CallsAreComing'
  <2>1. CASE m.heard
    <3>1. trouble' \/ shownCalls'.of = selected
      BY <1>8, <1>9, <2>1
    <3> QED
      BY <1>1, <1>4, <1>6, <3>1 DEF CallsAreComing
  <2>2. CASE ~m.heard
    <3>1. trouble' = trouble /\ shownCalls' = shownCalls
      BY <1>0, <1>9, <2>2 DEF PageTypes
    <3> QED
      BY <1>0, <1>1, <1>4, <1>6, <1>7, <2>2, <3>1 DEF CallsAreComing
  <2> QED
    BY <2>1, <2>2
<1> QED
  BY <1>2, <1>10, <1>11, <1>12, <1>13, <1>14, <1>15 DEF BookInv

LEMMA HearRefusedKeeps ==
    ASSUME BookInv, HearRefused PROVE BookInv'
<1>0. TablesFit /\ PageTypes /\ ShownFits /\ ListsFit /\ AddingFits /\ PickIsShown /\ CallsAreComing
  BY BookParts
<1>1. /\ wire # <<>> /\ Head(wire).of = "create" /\ UNCHANGED tables
      /\ refused' = TRUE /\ adding' = FALSE
      /\ UNCHANGED <<phase, half, contacts, recent, selected, shownCalls, trouble>>
  BY DEF HearRefused, Reached, lists
<1>2. TablesFit' /\ Len(cards') = Len(cards) /\ linked' = linked
  BY <1>1, TablesAreOld
<1>3. PICK v : v = Tail(wire)
  OBVIOUS
<1>4. wire' = v
  BY <1>3 DEF HearRefused
<1>5. /\ Head(wire) = wire[1] /\ AnswerFits(wire[1], Len(cards), linked)
      /\ WireFits(v, Len(cards), linked)
      /\ \A dom : Precedes(wire, dom) => Precedes(v, dom)
      /\ wire[1].by = "submit" /\ wire[1].of \in {"create", "contacts"} => Submits(v) = {}
  BY <1>1, <1>3, HeardFits
<1>6. wire[1].of = "create" /\ wire[1].by = "submit" /\ Submits(v) = {}
  BY <1>1, <1>5 DEF AnswerFits
<1>7. /\ \A i \in 1..Len(v) : v[i].of = "create" /\ ~v[i].done => Len(cards) < MaxCards
      /\ ForPick(v, selected) /\ ~half.ok /\ phase # "absent"
      /\ Listening(wire) => Listening(v)
  BY <1>1, <1>3, <1>6, StillAsked
<1>8. PageTypes'
  BY <1>0, <1>1, <1>2, <1>7 DEF PageTypes
<1>9. ShownFits'
  BY <1>0, <1>1, <1>2 DEF ShownFits
<1>10. ListsFit'
  BY <1>0, <1>1, <1>2, <1>4, <1>5, <1>7 DEF ListsFit
<1>11. AddingFits'
  BY <1>1, <1>2, <1>4, <1>6, <1>7 DEF AddingFits, HalfShown
<1>12. PickIsShown'
  BY <1>1 DEF PickIsShown
<1>13. CallsAreComing'
  BY <1>0, <1>1, <1>4, <1>7 DEF CallsAreComing
<1> QED
  BY <1>2, <1>8, <1>9, <1>10, <1>11, <1>12, <1>13 DEF BookInv

LEMMA HearAvailableKeeps ==
    ASSUME BookInv, HearAvailable PROVE BookInv'
<1>0. TablesFit /\ PageTypes /\ ShownFits /\ ListsFit /\ AddingFits /\ PickIsShown /\ CallsAreComing
  BY BookParts
<1>1. /\ wire # <<>> /\ Head(wire).of = "available" /\ UNCHANGED tables
      /\ UNCHANGED <<half, contacts, recent, selected, shownCalls, trouble, adding, refused>>
  BY DEF HearAvailable, Reached, formFields
<1>2. TablesFit' /\ Len(cards') = Len(cards) /\ linked' = linked
  BY <1>1, TablesAreOld
<1>3. PICK v : v = Tail(wire)
  OBVIOUS
<1>4. /\ WireFits(v, Len(cards), linked) /\ Len(v) \in Nat /\ wire[1].of = "available"
      /\ \A dom : Precedes(wire, dom) => Precedes(v, dom)
      /\ Submits(wire) = {} => Submits(v) = {}
  BY <1>1, <1>3, HeardFits
<1>5. /\ \A i \in 1..Len(v) : v[i].of = "create" /\ ~v[i].done => Len(cards) < MaxCards
      /\ ForPick(v, selected) /\ ~half.ok /\ phase # "absent"
      /\ Listening(wire) => Listening(v)
  BY <1>1, <1>3, <1>4, StillAsked
<1>6. refused \/ selected = 0 \/ selected \in DOMAIN contacts \/ \A h : Coming(selected, contacts, v, h)
  BY <1>0, <1>1, <1>3, <1>4, <1>5, StillComing DEF PickIsShown, HalfShown
<1>7. \/ wire' = v /\ phase' = "unavailable"
      \/ wire' = v \o Refresh("mount") /\ phase' = phase
  BY <1>3 DEF HearAvailable
<1>8. PICK a : a = Request("contacts", "mount", 0)
  OBVIOUS
<1>9. PICK b : b = Request("recent", "mount", 0)
  OBVIOUS
<1>10. a.of = "contacts" /\ a.by = "mount" /\ b.of = "recent" /\ b.by = "mount"
  BY <1>8, <1>9, RequestIs
<1>11. /\ WireFits(wire', Len(cards), linked) /\ Len(wire') \in {Len(v), Len(v) + 2}
       /\ \A i \in 1..Len(v) : wire'[i] = v[i] /\ i \in 1..Len(wire')
       /\ Len(wire') = Len(v) + 2 => wire'[Len(v) + 1] = a /\ wire'[Len(v) + 2] = b
       /\ \A dom : Precedes(v, dom) => Precedes(wire', dom)
       /\ \A i \in Submits(wire') : i \in Submits(v)
  <2>1. CASE wire' = v
    <3>1. Len(wire') # Len(v) + 2
      BY <1>4, <2>1
    <3> QED
      BY <1>4, <2>1, <3>1
  <2>2. CASE wire' = v \o Refresh("mount")
    <3>1. WireFits(wire', Len(cards), linked) /\ Len(wire') = Len(v) + 2
      BY <1>4, <2>2, AskedAgain
    <3>2. \A i \in 1..Len(v) : wire'[i] = v[i] /\ i \in 1..Len(wire')
      BY <1>4, <2>2, AskedAgain
    <3>3. wire'[Len(v) + 1] = a /\ wire'[Len(v) + 2] = b
      BY <1>4, <1>8, <1>9, <2>2, AskedAgain
    <3>4. \A dom : Precedes(v, dom) => Precedes(wire', dom)
      BY <1>4, <2>2, AskedAgain
    <3>5. \A i \in Submits(wire') : i \in Submits(v)
      BY <1>4, <2>2, AskedAgain
    <3> QED
      BY <3>1, <3>2, <3>3, <3>4, <3>5
  <2> QED
    BY <1>7, <2>1, <2>2
<1>12. \A i \in 1..Len(wire') :
          \/ i \in 1..Len(v) /\ wire'[i] = v[i]
          \/ wire'[i].of \in {"contacts", "recent"} /\ wire'[i].by = "mount"
  <2> SUFFICES ASSUME NEW i \in 1..Len(wire'), i \notin 1..Len(v)
               PROVE  wire'[i].of \in {"contacts", "recent"} /\ wire'[i].by = "mount"
    BY <1>11
  <2>1. Len(wire') = Len(v) + 2 /\ (i = Len(v) + 1 \/ i = Len(v) + 2)
    BY <1>4, <1>11
  <2> QED
    BY <1>10, <1>11, <2>1
<1>13. PageTypes'
  <2>1. phase' \in {"absent", "loading", "unavailable", "ready"} /\ phase' # "absent"
    BY <1>0, <1>5, <1>7 DEF PageTypes
  <2> QED
    BY <1>0, <1>1, <1>2, <2>1 DEF PageTypes
<1>14. ShownFits'
  BY <1>0, <1>1, <1>2 DEF ShownFits
<1>15. ListsFit'
  BY <1>0, <1>1, <1>2, <1>4, <1>5, <1>11 DEF ListsFit
<1>16. AddingFits'
  <2>1. \A i \in 1..Len(wire') : wire'[i].of = "create" /\ ~wire'[i].done => Len(cards) < MaxCards
    BY <1>5, <1>12
  <2>2. Submits(wire) = {} => Submits(wire') = {}
    BY <1>4, <1>11
  <2> QED
    BY <1>0, <1>1, <1>2, <1>5, <2>1, <2>2 DEF AddingFits, HalfShown
<1>17. PickIsShown'
  <2> SUFFICES ASSUME \A h : Coming(selected, contacts, v, h) PROVE Coming(selected, contacts, wire', half)
    BY <1>1, <1>6 DEF PickIsShown, Coming
  <2>1. Coming(selected, contacts, v, half)
    OBVIOUS
  <2>2. ~HalfShown(v, half)
    BY <1>5 DEF HalfShown
  <2> QED
    BY <1>11, <2>1, <2>2 DEF Coming
<1>18. CallsAreComing'
  <2>1. ForPick(wire', selected)
    BY <1>5, <1>12 DEF ForPick
  <2>2. Listening(v) => Listening(wire')
    BY <1>11 DEF Listening
  <2> QED
    BY <1>0, <1>1, <1>5, <2>1, <2>2 DEF CallsAreComing
<1> QED
  BY <1>2, <1>13, <1>14, <1>15, <1>16, <1>17, <1>18 DEF BookInv

LEMMA HearContactsKeeps ==
    ASSUME BookInv, HearContacts PROVE BookInv'
<1>0. TablesFit /\ PageTypes /\ ShownFits /\ ListsFit /\ AddingFits /\ PickIsShown /\ CallsAreComing
  BY BookParts
<1>1. /\ wire # <<>> /\ Head(wire).of = "contacts" /\ Head(wire).done /\ UNCHANGED tables
      /\ UNCHANGED <<contacts, recent, selected, shownCalls>>
      /\ half' = [ok |-> Head(wire).ok, says |-> Head(wire).says]
      /\ IF Head(wire).ok THEN UNCHANGED <<phase, trouble, adding, refused>> ELSE RefreshSettles(Head(wire).by, FALSE)
  BY DEF HearContacts, Reached, formFields
<1>2. TablesFit' /\ Len(cards') = Len(cards) /\ linked' = linked
  BY <1>1, TablesAreOld
<1>3. PICK v : v = Tail(wire)
  OBVIOUS
<1>4. wire' = v
  BY <1>3 DEF HearContacts
<1>5. /\ Head(wire) = wire[1] /\ 1 \in 1..Len(wire) /\ wire[1] \in Ask /\ AnswerFits(wire[1], Len(cards), linked)
      /\ WireFits(v, Len(cards), linked) /\ Len(v) \in Nat /\ Len(v) = Len(wire) - 1
      /\ \A i \in 1..Len(v) : v[i] = wire[i + 1] /\ i + 1 \in 1..Len(wire)
      /\ \A dom : Precedes(wire, dom) => Precedes(v, dom)
      /\ Submits(wire) = {} => Submits(v) = {}
      /\ wire[1].by = "submit" /\ wire[1].of \in {"create", "contacts"} => Submits(v) = {}
  BY <1>1, <1>3, HeardFits
<1>6. PICK m : m = wire[1]
  OBVIOUS
<1>7. m.of = "contacts" /\ m.done /\ m.ok \in BOOLEAN /\ m.says \in Answers
      /\ half'.ok = m.ok /\ half'.says = m.says /\ half' \in [ok : BOOLEAN, says : Answers]
  BY <1>1, <1>5, <1>6 DEF Ask
<1>8. /\ \A i \in 1..Len(v) : v[i].of = "create" /\ ~v[i].done => Len(cards) < MaxCards
      /\ ForPick(v, selected) /\ ~half.ok /\ phase # "absent"
      /\ Listening(wire) => Listening(v)
  BY <1>1, <1>3, <1>6, <1>7, StillAsked
<1>9. wire[2].of = "recent" /\ wire[2].by = m.by /\ v # <<>> /\ v[1] = wire[2] /\ 1 \in 1..Len(v)
  <2>1. 1 + 1 \in 1..Len(wire) /\ wire[1 + 1].of = "recent" /\ wire[1 + 1].by = wire[1].by
    BY <1>0, <1>5, <1>6, <1>7 DEF ListsFit, WireFits, Paired
  <2>2. 1 \in 1..Len(v) /\ 1 + 1 = 2
    BY <1>5, <2>1
  <2>3. v[1] = wire[2]
    BY <1>5, <2>2
  <2>4. v # <<>>
    BY <2>2
  <2> QED
    BY <1>6, <2>1, <2>2, <2>3, <2>4
<1>10. m.ok => CountsFit(m.says, Len(cards), linked) /\ Answered(m, "contacts")
  BY <1>5, <1>6, <1>7 DEF AnswerFits, Answered
<1>11. /\ phase' \in {"loading", "unavailable", "ready"} /\ adding' \in BOOLEAN /\ refused' \in BOOLEAN
       /\ trouble' \in BOOLEAN
       /\ trouble => trouble'
       /\ refused => refused'
       /\ m.ok => adding' = adding
       /\ ~m.ok /\ m.by = "submit" => refused'
       /\ ~m.ok /\ m.by # "submit" => adding' = adding
  <2>1. CASE m.ok
    <3>1. UNCHANGED <<phase, trouble, adding, refused>>
      BY <1>1, <1>5, <1>6, <2>1
    <3> QED
      BY <1>0, <1>8, <2>1, <3>1 DEF PageTypes
  <2>2. CASE ~m.ok
    <3>1. RefreshSettles(m.by, FALSE)
      BY <1>1, <1>5, <1>6, <2>2
    <3>2. phase' = IF m.by = "mount" THEN "ready" ELSE phase
      BY <3>1 DEF RefreshSettles
    <3>3. phase' \in {"loading", "unavailable", "ready"}
      BY <1>0, <1>8, <3>2 DEF PageTypes
    <3>4. /\ adding' = (adding /\ m.by # "submit")
          /\ refused' = (refused \/ (m.by = "submit" /\ ~FALSE))
          /\ trouble' = (trouble \/ (m.by # "submit" /\ ~FALSE))
      BY <3>1 DEF RefreshSettles
    <3>5. adding \in BOOLEAN /\ refused \in BOOLEAN /\ trouble \in BOOLEAN
      BY <1>0 DEF PageTypes
    <3> QED
      BY <2>2, <3>3, <3>4, <3>5
  <2> QED
    BY <1>7, <2>1, <2>2
<1>12. PageTypes'
  BY <1>0, <1>1, <1>2, <1>7, <1>11 DEF PageTypes
<1>13. ShownFits'
  BY <1>0, <1>1, <1>2, <1>7, <1>10 DEF ShownFits
<1>14. ListsFit'
  <2>1. Precedes(v, DOMAIN contacts)
    BY <1>0, <1>5 DEF ListsFit
  <2>2. m.ok => DOMAIN contacts \subseteq DOMAIN m.says
    BY <1>0, <1>5, <1>6, <1>10 DEF ListsFit, Precedes
  <2>3. m.ok => Precedes(v, DOMAIN m.says)
    <3> SUFFICES ASSUME m.ok, NEW i \in 1..Len(v), Answered(v[i], "contacts")
                 PROVE  DOMAIN m.says \subseteq DOMAIN v[i].says
      BY DEF Precedes
    <3>1. v[i] = wire[i + 1] /\ i + 1 \in 1..Len(wire) /\ 1 < i + 1
      BY <1>5
    <3> QED
      BY <1>0, <1>5, <1>6, <1>10, <3>1 DEF ListsFit, WireFits, Growing
  <2> QED
    BY <1>1, <1>2, <1>4, <1>5, <1>7, <1>9, <2>1, <2>2, <2>3 DEF ListsFit
<1>15. AddingFits'
  <2>1. m.by = "submit" => adding /\ Submits(v) = {}
    <3>1. m.by = "submit" => 1 \in Submits(wire)
      BY <1>5, <1>6, <1>7 DEF Submits
    <3> QED
      BY <1>0, <1>5, <1>6, <1>7, <3>1 DEF AddingFits
  <2>2. Submits(v) # {} => adding'
    BY <1>0, <1>5, <1>7, <1>11, <2>1 DEF AddingFits
  <2>3. HalfShown(v, half') => adding' /\ Submits(v) = {}
    BY <1>7, <1>9, <1>11, <2>1 DEF HalfShown
  <2> QED
    BY <1>2, <1>4, <1>8, <2>2, <2>3 DEF AddingFits
<1>16. PickIsShown'
  <2> SUFFICES ASSUME ~refused' PROVE Coming(selected, contacts, v, half')
    BY <1>1, <1>4 DEF PickIsShown
  <2>1. Coming(selected, contacts, wire, half) /\ (m.ok \/ m.by # "submit")
    BY <1>0, <1>11 DEF PickIsShown
  <2>2. \/ selected = 0 \/ selected \in DOMAIN contacts \/ \A h : Coming(selected, contacts, v, h)
        \/ m.by = "submit" /\ (Answered(m, "contacts") => selected \in DOMAIN m.says)
    BY <1>1, <1>3, <1>6, <1>7, <1>8, <2>1, StillComing DEF HalfShown
  <2>3. CASE m.by = "submit" /\ (Answered(m, "contacts") => selected \in DOMAIN m.says)
    <3>1. HalfShown(v, half') /\ selected \in DOMAIN half'.says
      BY <1>7, <1>9, <1>10, <2>1, <2>3 DEF HalfShown
    <3> QED
      BY <3>1 DEF Coming
  <2>4. CASE \A h : Coming(selected, contacts, v, h)
    BY <2>4
  <2> QED
    BY <2>2, <2>3, <2>4 DEF Coming
<1>17. CallsAreComing'
  BY <1>0, <1>1, <1>4, <1>8, <1>11 DEF CallsAreComing
<1> QED
  BY <1>2, <1>12, <1>13, <1>14, <1>15, <1>16, <1>17 DEF BookInv

LEMMA HearRecentKeeps ==
    ASSUME BookInv, HearRecent PROVE BookInv'
<1>0. TablesFit /\ PageTypes /\ ShownFits /\ ListsFit /\ AddingFits /\ PickIsShown /\ CallsAreComing
  BY BookParts
<1>1. /\ wire # <<>> /\ Head(wire).of = "recent" /\ Head(wire).done /\ UNCHANGED tables
      /\ UNCHANGED <<selected, shownCalls>>
      /\ half' = [ok |-> FALSE, says |-> 0]
      /\ IF half.ok THEN RefreshSettles(Head(wire).by, Head(wire).ok) ELSE UNCHANGED <<phase, trouble, adding, refused>>
      /\ contacts' = IF half.ok /\ Head(wire).ok THEN half.says ELSE contacts
      /\ recent' = IF half.ok /\ Head(wire).ok THEN Head(wire).says ELSE recent
  BY DEF HearRecent, Reached, formFields
<1>2. TablesFit' /\ Len(cards') = Len(cards) /\ linked' = linked
  BY <1>1, TablesAreOld
<1>3. PICK v : v = Tail(wire)
  OBVIOUS
<1>4. wire' = v
  BY <1>3 DEF HearRecent
<1>5. /\ Head(wire) = wire[1] /\ wire[1] \in Ask /\ AnswerFits(wire[1], Len(cards), linked)
      /\ WireFits(v, Len(cards), linked)
      /\ \A dom : Precedes(wire, dom) => Precedes(v, dom)
      /\ Submits(wire) = {} => Submits(v) = {}
  BY <1>1, <1>3, HeardFits
<1>6. PICK m : m = wire[1]
  OBVIOUS
<1>7. m.of = "recent" /\ m.done /\ m.ok \in BOOLEAN /\ half.ok \in BOOLEAN
  BY <1>0, <1>1, <1>5, <1>6 DEF Ask, PageTypes
<1>8. /\ \A i \in 1..Len(v) : v[i].of = "create" /\ ~v[i].done => Len(cards) < MaxCards
      /\ ForPick(v, selected) /\ phase # "absent"
      /\ Listening(wire) => Listening(v)
  BY <1>1, <1>3, <1>6, <1>7, StillAsked
<1>9. m.ok => LinksFit(m.says, Len(cards), linked)
  BY <1>5, <1>6, <1>7 DEF AnswerFits, Answered
<1>10. HalfShown(wire, half) <=> half.ok /\ m.by = "submit"
  BY <1>1, <1>6, <1>7 DEF HalfShown
<1>11. /\ phase' \in {"loading", "unavailable", "ready"} /\ adding' \in BOOLEAN /\ refused' \in BOOLEAN
       /\ trouble' \in BOOLEAN
       /\ trouble => trouble'
       /\ refused => refused'
       /\ ~(half.ok /\ m.by = "submit") => adding' = adding
       /\ half.ok /\ ~m.ok /\ m.by = "submit" => refused'
  <2>0. adding \in BOOLEAN /\ refused \in BOOLEAN /\ trouble \in BOOLEAN
    BY <1>0 DEF PageTypes
  <2>1. CASE ~half.ok
    <3>1. UNCHANGED <<phase, trouble, adding, refused>>
      BY <1>1, <2>1
    <3>2. phase' \in {"loading", "unavailable", "ready"}
      BY <1>0, <1>8, <3>1 DEF PageTypes
    <3> QED
      BY <2>0, <2>1, <3>1, <3>2
  <2>2. CASE half.ok
    <3>1. RefreshSettles(m.by, m.ok)
      BY <1>1, <1>5, <1>6, <2>2
    <3>2. phase' = IF m.by = "mount" THEN "ready" ELSE phase
      BY <3>1 DEF RefreshSettles
    <3>3. phase' \in {"loading", "unavailable", "ready"}
      BY <1>0, <1>8, <3>2 DEF PageTypes
    <3>4. /\ adding' = (adding /\ m.by # "submit")
          /\ refused' = (refused \/ (m.by = "submit" /\ ~m.ok))
          /\ trouble' = (trouble \/ (m.by # "submit" /\ ~m.ok))
      BY <3>1 DEF RefreshSettles
    <3> QED
      BY <1>7, <2>0, <2>2, <3>3, <3>4
  <2> QED
    BY <1>7, <2>1, <2>2
<1>12. PageTypes'
  <2>1. half' \in [ok : BOOLEAN, says : Answers]
    <3>1. 0 \in Answers
      BY DEF Answers
    <3> QED
      BY <1>1, <3>1
  <2> QED
    BY <1>0, <1>1, <1>2, <1>11, <2>1 DEF PageTypes
<1>13. /\ contacts' = IF half.ok /\ m.ok THEN half.says ELSE contacts
       /\ recent' = IF half.ok /\ m.ok THEN m.says ELSE recent
       /\ half'.ok = FALSE
  BY <1>1, <1>5, <1>6
<1>14. ShownFits'
  <2>1. CountsFit(contacts', Len(cards), linked) /\ LinksFit(recent', Len(cards), linked)
    BY <1>0, <1>9, <1>13 DEF ShownFits
  <2> QED
    BY <1>0, <1>1, <1>2, <1>13, <2>1 DEF ShownFits
<1>15. ListsFit'
  <2>1. Precedes(v, DOMAIN contacts')
    BY <1>0, <1>5, <1>13 DEF ListsFit
  <2> QED
    BY <1>2, <1>4, <1>5, <1>13, <2>1 DEF ListsFit
<1>16. AddingFits'
  <2>1. Submits(v) # {} => adding'
    BY <1>0, <1>5, <1>10, <1>11 DEF AddingFits
  <2>2. ~HalfShown(v, half')
    BY <1>13 DEF HalfShown
  <2> QED
    BY <1>2, <1>4, <1>8, <2>1, <2>2 DEF AddingFits
<1>17. PickIsShown'
  <2> SUFFICES ASSUME ~refused' PROVE Coming(selected, contacts', v, half')
    BY <1>1, <1>4 DEF PickIsShown
  <2>1. Coming(selected, contacts, wire, half)
    BY <1>0, <1>11 DEF PickIsShown
  <2>2. DOMAIN contacts \subseteq DOMAIN contacts'
    BY <1>0, <1>13 DEF ListsFit
  <2>3. \/ selected = 0 \/ selected \in DOMAIN contacts \/ \A h : Coming(selected, contacts, v, h)
        \/ HalfShown(wire, half) /\ selected \in DOMAIN half.says
    BY <1>1, <1>3, <1>6, <1>7, <2>1, StillComing
  <2>4. CASE HalfShown(wire, half) /\ selected \in DOMAIN half.says
    <3>1. contacts' = half.says
      BY <1>10, <1>11, <1>13, <2>4
    <3> QED
      BY <2>4, <3>1 DEF Coming
  <2>5. CASE \A h : Coming(selected, contacts, v, h)
    BY <2>2, <2>5 DEF Coming
  <2> QED
    BY <2>2, <2>3, <2>4, <2>5 DEF Coming
<1>18. CallsAreComing'
  BY <1>0, <1>1, <1>4, <1>8, <1>11 DEF CallsAreComing
<1> QED
  BY <1>2, <1>12, <1>14, <1>15, <1>16, <1>17, <1>18 DEF BookInv

LEMMA HearAddedKeeps ==
    ASSUME BookInv, HearAdded PROVE BookInv'
<1>0. TablesFit /\ PageTypes /\ ShownFits /\ ListsFit /\ AddingFits /\ PickIsShown /\ CallsAreComing
      /\ Len(cards) \in Nat
  BY BookParts
<1>1. /\ wire # <<>> /\ Head(wire).of = "create" /\ Head(wire).done /\ Head(wire).ok /\ UNCHANGED tables
      /\ UNCHANGED <<phase, half, contacts, recent, shownCalls, trouble, adding, refused>>
      /\ Select(Head(wire).says, Tail(wire) \o Refresh("submit"))
  BY DEF HearAdded, Reached, lists
<1>2. TablesFit' /\ Len(cards') = Len(cards) /\ linked' = linked
  BY <1>1, TablesAreOld
<1>3. PICK v : v = Tail(wire)
  OBVIOUS
<1>4. /\ Head(wire) = wire[1] /\ 1 \in 1..Len(wire) /\ AnswerFits(wire[1], Len(cards), linked)
      /\ WireFits(v, Len(cards), linked) /\ Len(v) \in Nat
      /\ \A dom : Precedes(wire, dom) => Precedes(v, dom)
      /\ wire[1].by = "submit" /\ wire[1].of \in {"create", "contacts"} => Submits(v) = {}
  BY <1>1, <1>3, HeardFits
<1>5. PICK k : k = Head(wire).says
  OBVIOUS
<1>6. wire[1].of = "create" /\ wire[1].by = "submit" /\ Submits(v) = {} /\ k \in 1..Len(cards)
  BY <1>1, <1>4, <1>5 DEF AnswerFits, Answered
<1>7. 1 \in Submits(wire)
  BY <1>4, <1>6 DEF Submits
<1>8. adding /\ ~half.ok /\ phase # "absent"
      /\ \A i \in 1..Len(v) : v[i].of = "create" /\ ~v[i].done => Len(cards) < MaxCards
  BY <1>0, <1>1, <1>3, <1>6, <1>7, StillAsked DEF AddingFits
<1>9. PICK u : u = v \o Refresh("submit")
  OBVIOUS
<1>10. PICK a : a = Request("contacts", "submit", 0)
  OBVIOUS
<1>11. PICK b : b = Request("recent", "submit", 0)
  OBVIOUS
<1>12. a.of = "contacts" /\ a.by = "submit" /\ ~a.done /\ b.of = "recent" /\ b.by = "submit"
  BY <1>10, <1>11, RequestIs
<1>13. WireFits(u, Len(cards), linked) /\ Len(u) = Len(v) + 2
  <2>1. WireFits(u, Len(cards), linked)
    BY <1>4, <1>6, <1>9, AskedAgain
  <2>2. "submit" \in {"mount", "button", "submit"}
    OBVIOUS
  <2>3. Len(u) = Len(v) + 2
    BY <1>4, <1>6, <1>9, <2>2, AskedAgain, ZenonT(60)
  <2> QED
    BY <2>1, <2>3
<1>14. \A i \in 1..Len(v) : u[i] = v[i] /\ i \in 1..Len(u)
  BY <1>4, <1>6, <1>9, AskedAgain
<1>15. u[Len(v) + 1] = a /\ u[Len(v) + 2] = b
  BY <1>4, <1>6, <1>9, <1>10, <1>11, AskedAgain
<1>16. \A dom : Precedes(v, dom) => Precedes(u, dom)
  BY <1>4, <1>6, <1>9, AskedAgain
<1>17. Select(k, u)
  BY <1>1, <1>3, <1>5, <1>9
<1>18. /\ selected' = k /\ WireFits(wire', Len(cards), linked) /\ Submits(wire') = Submits(u)
       /\ \A dom : Precedes(u, dom) => Precedes(wire', dom)
       /\ ForPick(wire', k) /\ Listening(wire') /\ wire' # <<>>
       /\ Len(wire') = Len(u) + 1
       /\ \A i \in 1..Len(u) :
             /\ i \in 1..Len(wire') /\ wire'[i].of = u[i].of /\ wire'[i].by = u[i].by
             /\ wire'[i].done = u[i].done
       /\ wire'[Len(u) + 1].of = "calls"
  BY <1>0, <1>6, <1>13, <1>17, SelectIs
<1>19. PageTypes'
  <2>1. selected' \in 0..Len(cards)
    BY <1>0, <1>6, <1>18
  <2> QED
    BY <1>0, <1>1, <1>2, <1>8, <2>1 DEF PageTypes
<1>20. ShownFits'
  BY <1>0, <1>1, <1>2 DEF ShownFits
<1>21. ListsFit'
  BY <1>0, <1>1, <1>2, <1>4, <1>8, <1>16, <1>18 DEF ListsFit
<1>22. AddingFits'
  <2>1. ASSUME NEW i \in 1..Len(wire'), wire'[i].of = "create", ~wire'[i].done PROVE Len(cards) < MaxCards
    <3>1. i \in 1..Len(v) \/ i = Len(v) + 1 \/ i = Len(v) + 2 \/ i = Len(u) + 1
      BY <1>4, <1>13, <1>18
    <3>2. Len(v) + 1 \in 1..Len(u) /\ Len(v) + 2 \in 1..Len(u)
      BY <1>4, <1>13
    <3>3. i \in 1..Len(v)
      BY <1>12, <1>15, <1>18, <2>1, <3>1, <3>2
    <3> QED
      BY <1>8, <1>14, <1>18, <2>1, <3>3
  <2> QED
    BY <1>1, <1>2, <1>8, <2>1 DEF AddingFits, HalfShown
<1>23. PickIsShown'
  <2>1. Len(v) + 1 \in 1..Len(u)
    BY <1>4, <1>13
  <2>2. Len(v) + 1 \in 1..Len(wire') /\ wire'[Len(v) + 1].of = "contacts" /\ wire'[Len(v) + 1].by = "submit"
        /\ ~wire'[Len(v) + 1].done
    BY <1>12, <1>15, <1>18, <2>1
  <2> QED
    BY <2>2 DEF PickIsShown, Coming, Answered
<1>24. CallsAreComing'
  BY <1>18 DEF CallsAreComing
<1> QED
  BY <1>2, <1>19, <1>20, <1>21, <1>22, <1>23, <1>24 DEF BookInv

LEMMA BookKeeps == BookInv /\ [BookNext]_bookVars => BookInv'
<1> SUFFICES ASSUME BookInv, [BookNext]_bookVars PROVE BookInv'
  OBVIOUS
<1>1. CASE \E r \in Rings : SaveRing(r)
  BY <1>1, SaveRingKeeps
<1>2. CASE MountPage
  BY <1>2, MountKeeps
<1>3. CASE Attend
  BY <1>3, ServeKeeps, CreateKeeps DEF Attend
<1>4. CASE \E k \in DOMAIN contacts : Pick(k)
  BY <1>4, PickKeeps
<1>5. CASE ClickRefresh
  BY <1>5, RefreshKeeps
<1>6. CASE \E numbers \in SUBSET Lines \ {{}} : ClickAdd(numbers)
  BY <1>6, AddKeeps
<1>7. CASE Hear
  BY <1>7, HearAvailableKeeps, HearContactsKeeps, HearRecentKeeps, HearCallsKeeps, HearAddedKeeps,
     HearRefusedKeeps DEF Hear
<1>8. CASE UNCHANGED bookVars
  BY <1>8 DEF bookVars, BookInv, TablesFit, PageTypes, ShownFits, ListsFit, AddingFits, PickIsShown,
     CallsAreComing, HalfShown
<1> QED
  BY <1>1, <1>2, <1>3, <1>4, <1>5, <1>6, <1>7, <1>8 DEF BookNext

-----------------------------------------------------------------------------
(* The calls placed from the page *)

Dial == [of : Lines, from : Phones \cup {0}]

DialInv ==
    /\ online \in SUBSET Phones /\ dialFrom \in Phones \cup {0} /\ dials \in Seq(Dial)
    /\ DialIsReported

LEMMA DialStarts == DialInit => DialInv
<1> SUFFICES ASSUME DialInit PROVE DialInv
  OBVIOUS
<1>1. online \in SUBSET Phones /\ dialFrom \in Phones \cup {0} /\ dials \in Seq(Dial)
  BY DEF DialInit
<1>2. dialState.of = "none"
  BY DEF DialInit
<1> QED
  BY <1>1, <1>2 DEF DialInv, DialIsReported

LEMMA DialKeeps == DialInv /\ [DialNext]_dialVars => DialInv'
<1> SUFFICES ASSUME DialInv, [DialNext]_dialVars PROVE DialInv'
  OBVIOUS
<1>0. /\ online \in SUBSET Phones /\ dialFrom \in Phones \cup {0} /\ dials \in Seq(Dial)
      /\ DialIsReported
  BY DEF DialInv
<1>1. ASSUME NEW p \in Phones, PhoneComesOrGoes(p) PROVE DialInv'
  <2>1. online' \in SUBSET Phones /\ dials' = dials /\ dialState' = dialState /\ dialFrom' = Defaulted(dialFrom)
    BY <1>0, <1>1 DEF PhoneComesOrGoes
  <2>2. dialFrom' \in Phones \cup {0}
    <3>1. CASE online' # {} /\ dialFrom = 0
      <4>1. dialFrom' = CHOOSE x \in online' : \A y \in online' : x <= y
        BY <2>1, <3>1 DEF Defaulted
      <4>2. online' \in SUBSET Nat
        BY <2>1, BookAssumption
      <4>3. \E x \in online' : \A y \in online' : x <= y
        BY <3>1, <4>2, LeastOfSome
      <4>4. dialFrom' \in online'
        BY <4>1, <4>3
      <4> QED
        BY <2>1, <4>4
    <3>2. CASE online' = {}
      BY <2>1, <3>2 DEF Defaulted
    <3>3. CASE online' # {} /\ dialFrom # 0
      <4>1. dialFrom' = dialFrom
        BY <2>1, <3>3 DEF Defaulted
      <4> QED
        BY <1>0, <4>1
    <3> QED
      BY <3>1, <3>2, <3>3
  <2> QED
    BY <1>0, <2>1, <2>2 DEF DialInv, DialIsReported
<1>2. ASSUME NEW p \in Phones, ChooseFrom(p) PROVE DialInv'
  BY <1>0, <1>2 DEF ChooseFrom, DialInv, DialIsReported
<1>3. ASSUME NEW line \in Lines, ClickDial(line) PROVE DialInv'
  <2>1. [of |-> line, from |-> dialFrom] \in Dial
    BY <1>0 DEF Dial
  <2>2. dials' = Append(dials, [of |-> line, from |-> dialFrom]) /\ online' = online /\ dialFrom' = dialFrom
    BY <1>3 DEF ClickDial
  <2>3. PICK m \in Dial : dials' = Append(dials, m)
    BY <2>1, <2>2
  <2>4. dials' \in Seq(Dial) /\ dials' # <<>>
    BY <1>0, <2>3
  <2> QED
    BY <1>0, <2>2, <2>4 DEF DialInv, DialIsReported
<1>4. ASSUME NEW i \in 1..MaxDials, DialAnswered(i) PROVE DialInv'
  <2>1. /\ i \in 1..Len(dials) /\ Len(dials) \in Nat
        /\ dials' = SubSeq(dials, 1, i - 1) \o SubSeq(dials, i + 1, Len(dials))
        /\ online' = online /\ dialFrom' = dialFrom
    BY <1>0, <1>4 DEF DialAnswered
  <2>2. dialState'.done
    BY <1>4 DEF DialAnswered
  <2>3. SubSeq(dials, 1, i - 1) \in Seq(Dial)
    BY <1>0, <2>1, SubSeqProperties
  <2>4. SubSeq(dials, i + 1, Len(dials)) \in Seq(Dial)
    BY <1>0, <2>1, SubSeqProperties
  <2>5. dials' \in Seq(Dial)
    BY <2>1, <2>3, <2>4
  <2> QED
    BY <1>0, <2>1, <2>2, <2>5 DEF DialInv, DialIsReported
<1>5. CASE UNCHANGED dialVars
  BY <1>0, <1>5 DEF dialVars, DialInv, DialIsReported
<1> QED
  BY <1>1, <1>2, <1>3, <1>4, <1>5 DEF DialNext

LEMMA DialFits == DialInv => DialIsReported
  BY DEF DialInv
-----------------------------------------------------------------------------
(* The desktop program: each part of a behaviour is a behaviour of its own *)

LEMMA EachStarts ==
    MCInit => /\ StoreInv /\ FormInv /\ AgentsInv /\ RuntimeInv /\ MetricsInv /\ BookInv /\ DialInv
  BY StoreStarts, FormStarts, AgentsStart, RuntimeStarts, MetricsStart, BookStarts, DialStarts DEF MCInit

LEMMA EachKeeps ==
    [MCNext]_desktopVars =>
      /\ [StoreNext]_storeVars /\ [FormNext]_formVars /\ [AgentsNext]_agentVars
      /\ [RuntimeNext]_runtimeVars /\ [MetricsNext]_metricsVars
      /\ [BookNext]_bookVars /\ [DialNext]_dialVars
  BY DEF MCNext, desktopVars

\* For any fields, environment and saves: a setting survives a crash, a damaged file and a restart on
\* the layer it was set, what was called saved is on the disk, the configuration that is changed in
\* place is the one a restart would build, and the page, once everything sent has arrived, shows and
\* sends back what is stored, though saves, resets and the agents' card overtake each other; only behind
\* a reload that failed, of which it was sent an error alone, it may not
\* (settings.ts, runtime.ts, main.ts, settingsPatch.ts, SettingsPage.tsx).
THEOREM SettingsStayKept == MCSpec => []SettingsAreKept
<1>1. StoreInv /\ FormInv /\ [MCNext]_desktopVars => StoreInv' /\ FormInv'
  BY EachKeeps, StoreKeeps, FormKeeps
<1>2. StoreInv /\ FormInv => SettingsAreKept
  BY StoreFits, FormFits DEF SettingsAreKept
<1> QED
  BY <1>1, <1>2, EachStarts, PTL DEF MCSpec

\* For any phones, agents, saves, calls and contacts: Autopilots replace each other and one answers,
\* with the settings saved last, and texts with them; a text service is lost only where two reloads
\* waited for it at once; the places that know which agent answers a phone agree where no reload has
\* failed, and the service with them where requests came one by one; the metrics add up, and are
\* those of the Autopilot in use or of one that kept its port; and what the Contacts page shows is true
\* (main.ts, runtime.ts, metricsServer.ts, ContactsPage.tsx).
THEOREM RuntimeStaysAgreed == MCSpec => []RuntimeAgrees
<1> DEFINE All == RuntimeInv /\ AgentsInv /\ MetricsInv /\ BookInv /\ DialInv
<1>1. All /\ [MCNext]_desktopVars => All'
  BY EachKeeps, RuntimeKeeps, AgentsKeep, MetricsKeep, BookKeeps, DialKeeps
<1>2. All => RuntimeAgrees
  BY RuntimeFits, AgentsFit, MetricsFit, BookFits, DialFits DEF RuntimeAgrees
<1>3. MCInit => All
  BY EachStarts
<1> HIDE DEF All
<1> QED
  BY <1>1, <1>2, <1>3, PTL DEF MCSpec

\* A call that comes between two requests is not turned away for an agent that is gone, as long as
\* requests came one by one from a page that knew the file, none was lost half-way and the last reload
\* was not refused (main.ts, the handlers that save and delete the agent of a phone).
THEOREM AgentsAreThere == MCSpec => NoAgentIsRefused
<1>1. MCInit => AgentsInv
  BY EachStarts
<1>2. AgentsInv /\ [MCNext]_desktopVars => AgentsInv'
  BY EachKeeps, AgentsKeep
<1>3. AgentsInv /\ [MCNext]_desktopVars =>
        [session' = "refused" /\ session # "refused"
            => ~NoneUnderWay \/ flawed # {} \/ "runtime" \in behind]_agentVars
  BY EachKeeps, CallIsAnswered
<1> QED
  BY <1>1, <1>2, <1>3, PTL DEF MCSpec, NoAgentIsRefused
=============================================================================
