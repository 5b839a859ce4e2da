----------------------------- MODULE HitlPolicy -----------------------------
(***************************************************************************)
(* The level a tool call runs at (HitlPolicyService.decide): the static    *)
(* level of the registry, then the override of the feature flags, then the *)
(* autonomy mode.  An override is in force when the row of                 *)
(* feature_flag_hitl_overrides equals what the loaded YAML declares.       *)
(* SIGHUPs reload the YAML, possibly while an earlier reload still awaits  *)
(* the database; the owner may approve an old request at any time.         *)
(***************************************************************************)
EXTENDS Naturals

CONSTANTS
  Tools,        \* names of tools
  StaticLevel,  \* hitlLevel of each tool
  HumanOnly,    \* tools with humanDecision
  Guarded,      \* tools with guardedInSemiAuto
  Reloads,      \* reload() calls that may overlap
  MaxEdits,     \* bound: edits of the YAML
  MaxSignals    \* bound: SIGHUPs

Levels == {"auto", "notify", "confirm", "dual-confirm"}

ASSUME RegistryAssumption == StaticLevel \in [Tools -> Levels] /\ "none" \notin Tools
ASSUME GuardsAssumption == HumanOnly \subseteq Tools /\ Guarded \subseteq Tools
ASSUME FlagBoundsAssumption == MaxEdits \in Nat /\ MaxSignals \in Nat

VARIABLES
  yaml,        \* hitlOverrides of config/feature-flags.yaml on disk
  declared,    \* hitlOverrides of the config in memory
  override,    \* feature_flag_hitl_overrides, by tool
  asked,       \* pending requests to lower a tool to a level
  reload,      \* every reload(): control and locals
  dec,         \* the decision in progress
  mode,        \* autonomy mode in force
  edits, signals,
  \* history
  granted,     \* lowerings the owner approved, twice
  settled      \* "yes" while the last reload ran alone and nothing changed since

flagVars == <<yaml, declared, override, asked, reload, edits, signals, granted, settled>>
policyVars == <<flagVars, dec, mode>>

NoReload == [pc |-> "idle", next |-> [t \in Tools |-> "none"], todo |-> {}]
NoDecision == [pc |-> "idle", tool |-> "none", want |-> "none", level |-> "auto",
               by |-> "static", hard |-> "none"]

-----------------------------------------------------------------------------
(* hitl/types.ts, hitl/classifier.ts, autonomy.logic.ts *)

\* hitlLevelOrdinal
HitlLevelOrdinal(l) ==
  CASE l = "auto" -> 0 [] l = "notify" -> 1 [] l = "confirm" -> 2 [] l = "dual-confirm" -> 3

\* approvalsRequiredFor
ApprovalsRequiredFor(l) == CASE l = "confirm" -> 1 [] l = "dual-confirm" -> 2 [] OTHER -> 0

\* relaxDecision
RelaxDecision(l, t) ==
  /\ mode # "supervised" /\ l = "confirm" /\ t \notin HumanOnly
  /\ ~(mode = "semi-auto" /\ t \in Guarded)

\* What resolveEffectiveLevel calls in force.
InForce(t) == declared[t] # "none" /\ override[t] = declared[t]

\* The raised level that holds for t under a config and rows, if any.
Hardened(t, config, rows) ==
  IF /\ config[t] # "none" /\ rows[t] = config[t]
     /\ HitlLevelOrdinal(rows[t]) > HitlLevelOrdinal(StaticLevel[t])
    THEN rows[t] ELSE "none"

-----------------------------------------------------------------------------
(* decide *)

\* Starts the decision; the config in memory is read at once, the row awaited.
Decide ==
  /\ dec.pc = "idle"
  /\ \E t \in Tools :
       dec' = [NoDecision EXCEPT !.tool = t, !.want = declared[t], !.level = StaticLevel[t],
                                 !.hard = Hardened(t, declared, override),
                                 !.pc = IF declared[t] = "none" THEN "relax" ELSE "row"]
  /\ UNCHANGED <<flagVars, mode>>

\* resolveEffectiveLevel: a flag that changes the level decides.
ResolveEffectiveLevel ==
  /\ dec.pc = "row"
  /\ dec' = IF override[dec.tool] = dec.want /\ dec.want # StaticLevel[dec.tool]
              THEN [dec EXCEPT !.level = dec.want, !.by = "flag", !.pc = "done"]
              ELSE [dec EXCEPT !.pc = "relax"]
  /\ UNCHANGED <<flagVars, mode>>

\* AutonomyService.relax (its own steps are in Autonomy), then the caller acts.
Relax ==
  /\ dec.pc = "relax"
  /\ dec' = IF RelaxDecision(dec.level, dec.tool)
              THEN [dec EXCEPT !.level = "notify", !.by = "mode", !.pc = "done"]
              ELSE [dec EXCEPT !.pc = "done"]
  /\ UNCHANGED <<flagVars, mode>>

Decided ==
  /\ dec.pc = "done"
  /\ dec' = NoDecision
  /\ UNCHANGED <<flagVars, mode>>

\* The owner or the clock changes the autonomy mode.
SetMode(m) ==
  /\ mode # m /\ mode' = m
  /\ UNCHANGED <<flagVars, dec>>

-----------------------------------------------------------------------------
(* FeatureFlagsService *)

\* A raise that a decision in progress relies on is gone.
Disturb ==
  dec' = IF dec.hard # "none" /\ Hardened(dec.tool, declared', override') # dec.hard
           THEN [dec EXCEPT !.hard = "none"] ELSE dec

Edit(t, l) ==
  /\ edits < MaxEdits /\ yaml[t] # l
  /\ yaml' = [yaml EXCEPT ![t] = l] /\ edits' = edits + 1 /\ settled' = "no"
  /\ UNCHANGED <<declared, override, asked, reload, signals, granted, dec, mode>>

\* reload reads the file.
Sighup(r) ==
  /\ reload[r].pc = "idle" /\ signals < MaxSignals
  /\ signals' = signals + 1
  /\ reload' = [reload EXCEPT ![r] = [pc |-> "run", next |-> yaml,
                                      todo |-> {t \in Tools : yaml[t] # "none"}]]
  /\ settled' = IF \A q \in Reloads : reload[q].pc = "idle" THEN "next" ELSE "no"
  /\ UNCHANGED <<yaml, declared, override, asked, edits, granted, dec, mode>>

\* Mutant: compares with the row it replaces, not with the registry.
LowersFromRow(t, l) ==
  LET base == IF override[t] = "none" THEN StaticLevel[t] ELSE override[t]
  IN  HitlLevelOrdinal(l) < HitlLevelOrdinal(base)

\* A level below the registry's needs the owner.
Lowers(t, l) == HitlLevelOrdinal(l) < HitlLevelOrdinal(StaticLevel[t])

\* reconcileHitlOverride of one declared tool.
Reconcile(r) ==
  /\ reload[r].pc = "run"
  /\ \E t \in reload[r].todo :
       LET l == reload[r].next[t] IN
       /\ reload' = [reload EXCEPT ![r].todo = @ \ {t}]
       /\ override' = IF override[t] # l /\ ~Lowers(t, l)
                        THEN [override EXCEPT ![t] = l] ELSE override
       /\ asked' = IF override[t] # l /\ Lowers(t, l) THEN asked \cup {<<t, l>>} ELSE asked
  /\ UNCHANGED <<yaml, declared, edits, signals, granted, settled, mode>>
  /\ Disturb

\* The loop is over: the config is swapped.
SwapConfig(r) ==
  /\ reload[r].pc = "run" /\ reload[r].todo = {}
  /\ declared' = reload[r].next
  /\ reload' = [reload EXCEPT ![r] = NoReload]
  /\ settled' = IF settled = "next" THEN "yes" ELSE settled
  /\ UNCHANGED <<yaml, override, asked, edits, signals, granted, mode>>
  /\ Disturb

\* The database fails: main.ts logs it and the old config stays.
ReloadFails(r) ==
  /\ reload[r].pc = "run" /\ reload[r].todo # {}
  /\ reload' = [reload EXCEPT ![r] = NoReload]
  /\ settled' = "no"
  /\ UNCHANGED <<yaml, declared, override, asked, edits, signals, granted, dec, mode>>

\* applyApprovedOverride: runs when the owner approved the request twice.
ApplyApprovedOverride(t, l) ==
  /\ <<t, l>> \in asked
  /\ asked' = asked \ {<<t, l>>}
  /\ override' = [override EXCEPT ![t] = l]
  /\ granted' = granted \cup {<<t, l>>}
  /\ settled' = "no"
  /\ UNCHANGED <<yaml, declared, reload, edits, signals, mode>>
  /\ Disturb

\* The request is rejected or expires (Approvals).
DropRequest(t, l) ==
  /\ <<t, l>> \in asked
  /\ asked' = asked \ {<<t, l>>}
  /\ UNCHANGED <<yaml, declared, override, reload, edits, signals, granted, settled, dec, mode>>

\* A new process loads the YAML and reconciles nothing.
FlagsRestart ==
  /\ declared' = yaml
  /\ reload' = [r \in Reloads |-> NoReload]
  /\ dec' = NoDecision /\ settled' = "no"
  /\ UNCHANGED <<yaml, override, asked, edits, signals, granted, mode>>

-----------------------------------------------------------------------------
PolicyInit ==
  /\ yaml = [t \in Tools |-> "none"] /\ declared = yaml /\ override = yaml
  /\ asked = {} /\ granted = {}
  /\ reload = [r \in Reloads |-> NoReload]
  /\ dec = NoDecision /\ mode = "supervised"
  /\ edits = 0 /\ signals = 0 /\ settled = "yes"

PolicyNext ==
  \/ Decide \/ ResolveEffectiveLevel \/ Relax \/ Decided
  \/ \E m \in {"supervised", "semi-auto", "auto"} : SetMode(m)
  \/ \E t \in Tools, l \in Levels \cup {"none"} : Edit(t, l)
  \/ \E r \in Reloads : Sighup(r) \/ Reconcile(r) \/ SwapConfig(r) \/ ReloadFails(r)
  \/ \E t \in Tools, l \in Levels : ApplyApprovedOverride(t, l) \/ DropRequest(t, l)
  \/ FlagsRestart

PolicySpec == PolicyInit /\ [][PolicyNext]_policyVars

-----------------------------------------------------------------------------
\* Types of the flags, the reloads and the decision; requests only ever lower.
PolicyTypeOK ==
  /\ yaml \in [Tools -> Levels \cup {"none"}] /\ declared \in [Tools -> Levels \cup {"none"}]
  /\ override \in [Tools -> Levels \cup {"none"}]
  /\ asked \subseteq Tools \X Levels /\ granted \subseteq Tools \X Levels
  /\ \A r \in Reloads : /\ reload[r].pc \in {"idle", "run"} /\ reload[r].todo \subseteq Tools
                        /\ reload[r].next \in [Tools -> Levels \cup {"none"}]
                        /\ \A t \in reload[r].todo : reload[r].next[t] # "none"
  /\ dec.pc \in {"idle", "row", "relax", "done"} /\ dec.level \in Levels
  /\ dec.tool \in Tools \cup {"none"} /\ (dec.pc # "idle" => dec.tool \in Tools)
  /\ mode \in {"supervised", "semi-auto", "auto"}
  /\ edits \in 0 .. MaxEdits /\ signals \in 0 .. MaxSignals /\ settled \in {"yes", "next", "no"}

\* A call runs below the level the registry gives its tool only if the owner approved
\* that level for that tool, or an autonomy mode relaxed a confirm to a notify; no
\* order of reloads, edits, restarts and approvals gets a lower level in by itself.
LoweringIsGranted ==
  /\ \A t \in Tools : override[t] # "none" /\ Lowers(t, override[t]) => <<t, override[t]>> \in granted
  /\ dec.pc = "done" /\ HitlLevelOrdinal(dec.level) < HitlLevelOrdinal(StaticLevel[dec.tool])
       => \/ dec.by = "flag" /\ <<dec.tool, dec.level>> \in granted
          \/ /\ dec.by = "mode" /\ StaticLevel[dec.tool] = "confirm"
             /\ dec.level = "notify" /\ dec.tool \notin HumanOnly

\* A raised level that is in force for the whole of a decision is what the decision
\* returns: no autonomy mode undoes what the owner hardened for one tool.
HardenedNotRelaxed ==
  dec.pc = "done" /\ dec.hard # "none"
    => dec.level = dec.hard /\ ApprovalsRequiredFor(dec.level) >= ApprovalsRequiredFor(dec.hard)

\* When one reload ran alone and to its end, and neither the file nor the rows were
\* changed since, memory declares the file and every raise of it is in force.
ReloadTakesEffect ==
  settled = "yes" => /\ declared = yaml
                     /\ \A t \in Tools : yaml[t] # "none" /\ ~Lowers(t, yaml[t]) => InForce(t)

\* The level of a call, over reloads, edits, restarts and approvals in any order: never lowered
\* without a grant, never relaxed once hardened, and a reload that ran alone is in force.
PolicyInv == PolicyTypeOK /\ LoweringIsGranted /\ HardenedNotRelaxed /\ ReloadTakesEffect
=============================================================================
