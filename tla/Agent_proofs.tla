---------------------------- MODULE Agent_proofs -----------------------------
(***************************************************************************)
(* The level policy, the agent loop that asks it and the memory it leaves, *)
(* proved for any tools, levels of the registry, number of overlapping     *)
(* reloads and consolidations, keys, embeddings and limits.                *)
(***************************************************************************)
EXTENDS HitlPolicy, AgentLoop, Memory, Integers, FiniteSetTheorems, SequenceTheorems, WellFoundedInduction, TLAPS

-----------------------------------------------------------------------------
(* HitlPolicy: the inductive invariant. *)

FlagMaps == [Tools -> Levels \cup {"none"}]
ReloadType == [pc : {"idle", "run"}, next : FlagMaps, todo : SUBSET Tools]
DecisionType == [pc : {"idle", "row", "relax", "done"}, tool : Tools \cup {"none"},
                 want : Levels \cup {"none"}, level : Levels, by : {"static", "flag", "mode"},
                 hard : Levels \cup {"none"}]

FlagTypes ==
  /\ yaml \in FlagMaps /\ declared \in FlagMaps /\ override \in FlagMaps
  /\ asked \subseteq Tools \X Levels /\ granted \subseteq Tools \X Levels
  /\ mode \in {"supervised", "semi-auto", "auto"}
  /\ edits \in 0 .. MaxEdits /\ signals \in 0 .. MaxSignals /\ settled \in {"yes", "next", "no"}

ReloadTypes ==
  /\ reload \in [Reloads -> ReloadType]
  /\ \A r \in Reloads : \A t \in reload[r].todo : reload[r].next[t] # "none"

\* No row lowers a tool without the owner's approval.
RowsGranted(rows, gr) == \A t \in Tools : rows[t] # "none" /\ Lowers(t, rows[t]) => <<t, rows[t]>> \in gr

\* What a decision has read so far: the registry's level until a flag or a mode changes it; and a
\* raise that was in force from its start is the one it waits to confirm.
DecisionOK(w, config, rows, gr) ==
  /\ w.pc # "idle" => w.tool \in Tools
  /\ w.pc = "idle" => w.hard = "none"
  /\ w.pc = "row" => w.want \in Levels /\ w.level = StaticLevel[w.tool]
  /\ w.pc = "relax" => w.level = StaticLevel[w.tool] /\ w.hard = "none"
  /\ w.pc = "done" /\ HitlLevelOrdinal(w.level) < HitlLevelOrdinal(StaticLevel[w.tool])
       => \/ w.by = "flag" /\ <<w.tool, w.level>> \in gr
          \/ /\ w.by = "mode" /\ StaticLevel[w.tool] = "confirm"
             /\ w.level = "notify" /\ w.tool \notin HumanOnly
  /\ w.hard # "none" => /\ Hardened(w.tool, config, rows) = w.hard
                        /\ w.pc = "row" => w.want = w.hard
                        /\ w.pc = "done" => w.level = w.hard

\* The rows have every raise of the file but those still to do.
RaisesApplied(todo) ==
  \A t \in Tools : yaml[t] # "none" /\ ~Lowers(t, yaml[t]) /\ t \notin todo => override[t] = yaml[t]

\* A reload that runs alone has read the file as it is, and works through it.
ReloadProgress ==
  /\ settled = "yes" => declared = yaml /\ RaisesApplied({}) /\ \A r \in Reloads : reload[r].pc = "idle"
  /\ settled = "next" => \E r \in Reloads : /\ reload[r].pc = "run" /\ reload[r].next = yaml
                                            /\ RaisesApplied(reload[r].todo)
                                            /\ \A q \in Reloads \ {r} : reload[q].pc = "idle"

FlagsInv ==
  /\ FlagTypes /\ ReloadTypes /\ dec \in DecisionType /\ RowsGranted(override, granted)
  /\ DecisionOK(dec, declared, override, granted) /\ ReloadProgress

-----------------------------------------------------------------------------
(* HitlPolicy: its operators. *)

\* The levels are ordered by four numbers.
LEMMA Ordinals == \A l \in Levels : HitlLevelOrdinal(l) \in 0 .. 3
  BY DEF Levels, HitlLevelOrdinal

\* A raise is a level in force above the registry's.
LEMMA HardenedIs ==
  ASSUME NEW t \in Tools, NEW config \in FlagMaps, NEW rows \in FlagMaps, NEW h, h # "none",
         Hardened(t, config, rows) = h
  PROVE  /\ config[t] = h /\ rows[t] = h /\ h \in Levels /\ h # StaticLevel[t]
         /\ HitlLevelOrdinal(h) > HitlLevelOrdinal(StaticLevel[t])
<1>1. config[t] # "none" /\ rows[t] = config[t]
      /\ HitlLevelOrdinal(rows[t]) > HitlLevelOrdinal(StaticLevel[t]) /\ rows[t] = h
  BY DEF Hardened
<1>2. rows[t] \in Levels \cup {"none"}
  BY DEF FlagMaps
<1>3. h \in Levels /\ StaticLevel[t] \in Levels
  BY <1>1, <1>2, RegistryAssumption
<1>4. HitlLevelOrdinal(h) \in Nat /\ HitlLevelOrdinal(StaticLevel[t]) \in Nat
  BY <1>3, Ordinals
<1>5. h # StaticLevel[t]
  BY <1>1, <1>4
<1>6. QED  BY <1>1, <1>3, <1>5

\* The raise that a decision finds is a level or none.
LEMMA HardenedType ==
  ASSUME NEW t \in Tools, NEW config \in FlagMaps, NEW rows \in FlagMaps
  PROVE  Hardened(t, config, rows) \in Levels \cup {"none"}
  BY DEF Hardened, FlagMaps

\* The records a decision and a reload begin and end with.
LEMMA NoRecords ==
  /\ NoDecision \in DecisionType /\ NoDecision.pc = "idle" /\ NoDecision.hard = "none"
  /\ NoReload \in ReloadType /\ NoReload.pc = "idle" /\ NoReload.todo = {}
  BY DEF NoDecision, DecisionType, NoReload, ReloadType, FlagMaps, Levels

\* A decision at rest is as it should be.
LEMMA NoDecisionOK == ASSUME NEW config, NEW rows, NEW gr  PROVE DecisionOK(NoDecision, config, rows, gr)
  BY NoRecords DEF DecisionOK

\* A change of the flags forgets a raise that it ends, and nothing else of a decision.
LEMMA Disturbed ==
  ASSUME dec \in DecisionType, DecisionOK(dec, declared, override, granted), Disturb,
         granted \subseteq granted'
  PROVE  dec' \in DecisionType /\ DecisionOK(dec', declared', override', granted')
<1>1. CASE dec.hard # "none" /\ Hardened(dec.tool, declared', override') # dec.hard
  <2>1. dec' = [dec EXCEPT !.hard = "none"]
    BY <1>1 DEF Disturb
  <2>2. dec' \in DecisionType /\ dec'.hard = "none" /\ dec'.pc = dec.pc /\ dec'.tool = dec.tool
        /\ dec'.want = dec.want /\ dec'.level = dec.level /\ dec'.by = dec.by
    BY <2>1 DEF DecisionType
  <2>3. QED  BY <2>2 DEF DecisionOK
<1>2. CASE ~(dec.hard # "none" /\ Hardened(dec.tool, declared', override') # dec.hard)
  <2>1. dec' = dec
    BY <1>2 DEF Disturb
  <2>2. QED  BY <1>2, <2>1 DEF DecisionOK
<1>3. QED  BY <1>1, <1>2

\* Only decisions and the mode change.
LEMMA FlagsSame ==
  ASSUME FlagsInv, UNCHANGED flagVars, mode' \in {"supervised", "semi-auto", "auto"},
         dec' \in DecisionType, DecisionOK(dec', declared, override, granted)
  PROVE  FlagsInv'
<1>1. UNCHANGED <<yaml, declared, override, asked, reload, edits, signals, granted, settled>>
  BY DEF flagVars
<1>2. FlagTypes'
  BY <1>1 DEF FlagsInv, FlagTypes
<1>3. ReloadTypes'
  BY <1>1 DEF FlagsInv, ReloadTypes
<1>4. RowsGranted(override', granted') /\ DecisionOK(dec', declared', override', granted')
  BY <1>1 DEF FlagsInv
<1>5. ReloadProgress'
  BY <1>1 DEF FlagsInv, ReloadProgress, RaisesApplied, Lowers
<1>6. QED  BY <1>2, <1>3, <1>4, <1>5 DEF FlagsInv

-----------------------------------------------------------------------------
(* HitlPolicy: the decision. *)

\* A decision begins at the level of the registry.
LEMMA DecideStep ==
  ASSUME FlagsInv, Decide
  PROVE  FlagsInv'
<1>1. PICK t \in Tools :
        dec' = [NoDecision EXCEPT !.tool = t, !.want = declared[t], !.level = StaticLevel[t],
                                  !.hard = Hardened(t, declared, override),
                                  !.pc = IF declared[t] = "none" THEN "relax" ELSE "row"]
  BY DEF Decide
<1>2. UNCHANGED flagVars /\ mode' = mode
  BY DEF Decide
<1>3. declared \in FlagMaps /\ override \in FlagMaps /\ declared[t] \in Levels \cup {"none"}
      /\ StaticLevel[t] \in Levels
  BY RegistryAssumption DEF FlagsInv, FlagTypes, FlagMaps
<1> DEFINE hard == Hardened(t, declared, override)
           pcn == IF declared[t] = "none" THEN "relax" ELSE "row"
           v == [pc |-> pcn, tool |-> t, want |-> declared[t], level |-> StaticLevel[t],
                 by |-> "static", hard |-> hard]
<1>4. hard \in Levels \cup {"none"}
  BY <1>3, HardenedType
<1>5. hard # "none" => declared[t] = hard
  BY <1>3, HardenedIs
<1>6. pcn \in {"relax", "row"} /\ (pcn = "relax" <=> declared[t] = "none")
  OBVIOUS
<1>7. dec' = v
  <2> HIDE DEF pcn, hard
  <2>1. dec' = [NoDecision EXCEPT !.tool = t, !.want = declared[t], !.level = StaticLevel[t],
                                  !.hard = hard, !.pc = pcn]
    BY <1>1 DEF hard, pcn
  <2>2. QED  BY <2>1 DEF NoDecision
<1>8. dec'.hard # "none" => Hardened(dec'.tool, declared, override) = dec'.hard
  BY <1>7
<1> HIDE DEF hard, pcn
<1>9. dec' \in DecisionType
  BY <1>3, <1>4, <1>6, <1>7 DEF DecisionType
<1>10. DecisionOK(dec', declared, override, granted)
  BY <1>3, <1>5, <1>6, <1>7, <1>8 DEF DecisionOK
<1>11. QED  BY <1>2, <1>9, <1>10, FlagsSame DEF FlagsInv, FlagTypes

\* A flag that is in force decides: lowered only by a grant, and a raise is always found.
LEMMA ResolveStep ==
  ASSUME FlagsInv, ResolveEffectiveLevel
  PROVE  FlagsInv'
<1>1. dec \in DecisionType /\ dec.pc = "row" /\ dec.tool \in Tools /\ dec.want \in Levels
      /\ dec.level = StaticLevel[dec.tool] /\ UNCHANGED flagVars /\ mode' = mode
  BY DEF ResolveEffectiveLevel, FlagsInv, DecisionOK
<1>2. declared \in FlagMaps /\ override \in FlagMaps /\ RowsGranted(override, granted)
      /\ DecisionOK(dec, declared, override, granted)
  BY DEF FlagsInv, FlagTypes
<1>3. "none" \notin Levels
  BY DEF Levels
<1>4. dec.hard # "none" => dec.want = dec.hard /\ override[dec.tool] = dec.want
                           /\ dec.want # StaticLevel[dec.tool]
                           /\ Hardened(dec.tool, declared, override) = dec.hard
  <2> SUFFICES ASSUME dec.hard # "none"
               PROVE  dec.want = dec.hard /\ override[dec.tool] = dec.want
                      /\ dec.want # StaticLevel[dec.tool]
                      /\ Hardened(dec.tool, declared, override) = dec.hard
    OBVIOUS
  <2>1. Hardened(dec.tool, declared, override) = dec.hard /\ dec.want = dec.hard
    BY <1>1, <1>2 DEF DecisionOK
  <2>2. override[dec.tool] = dec.hard /\ dec.hard # StaticLevel[dec.tool]
    BY <1>1, <1>2, <2>1, HardenedIs
  <2>3. QED  BY <2>1, <2>2
<1>5. CASE override[dec.tool] = dec.want /\ dec.want # StaticLevel[dec.tool]
  <2>1. dec' = [dec EXCEPT !.level = dec.want, !.by = "flag", !.pc = "done"]
    BY <1>5 DEF ResolveEffectiveLevel
  <2>2. dec' \in DecisionType /\ dec'.pc = "done" /\ dec'.level = dec.want /\ dec'.by = "flag"
        /\ dec'.tool = dec.tool /\ dec'.hard = dec.hard
    BY <1>1, <2>1 DEF DecisionType
  <2>3. HitlLevelOrdinal(dec.want) < HitlLevelOrdinal(StaticLevel[dec.tool]) =>
          <<dec.tool, dec.want>> \in granted
    BY <1>1, <1>2, <1>3, <1>5 DEF RowsGranted, Lowers
  <2>4. DecisionOK(dec', declared, override, granted)
    BY <1>1, <1>4, <2>2, <2>3 DEF DecisionOK
  <2>5. QED  BY <1>1, <2>2, <2>4, FlagsSame DEF FlagsInv, FlagTypes
<1>6. CASE ~(override[dec.tool] = dec.want /\ dec.want # StaticLevel[dec.tool])
  <2>1. dec' = [dec EXCEPT !.pc = "relax"]
    BY <1>6 DEF ResolveEffectiveLevel
  <2>2. dec' \in DecisionType /\ dec'.pc = "relax" /\ dec'.level = dec.level
        /\ dec'.tool = dec.tool /\ dec'.hard = dec.hard
    BY <1>1, <2>1 DEF DecisionType
  <2>3. dec.hard = "none"
    BY <1>4, <1>6
  <2>4. DecisionOK(dec', declared, override, granted)
    BY <1>1, <2>2, <2>3 DEF DecisionOK
  <2>5. QED  BY <1>1, <2>2, <2>4, FlagsSame DEF FlagsInv, FlagTypes
<1>7. QED  BY <1>5, <1>6

\* A mode relaxes a confirm that no flag decided, and only for tools without humanDecision.
LEMMA RelaxStep ==
  ASSUME FlagsInv, Relax
  PROVE  FlagsInv'
<1>1. dec \in DecisionType /\ dec.pc = "relax" /\ dec.tool \in Tools /\ dec.hard = "none"
      /\ dec.level = StaticLevel[dec.tool] /\ UNCHANGED flagVars /\ mode' = mode
  BY DEF Relax, FlagsInv, DecisionOK
<1>2. CASE RelaxDecision(dec.level, dec.tool)
  <2>1. dec' = [dec EXCEPT !.level = "notify", !.by = "mode", !.pc = "done"]
        /\ dec.level = "confirm" /\ dec.tool \notin HumanOnly
    BY <1>2 DEF Relax, RelaxDecision
  <2>2. dec' \in DecisionType /\ dec'.pc = "done" /\ dec'.level = "notify" /\ dec'.by = "mode"
        /\ dec'.tool = dec.tool /\ dec'.hard = "none"
    BY <1>1, <2>1 DEF DecisionType, Levels
  <2>3. DecisionOK(dec', declared, override, granted)
    BY <1>1, <2>1, <2>2 DEF DecisionOK
  <2>4. QED  BY <1>1, <2>2, <2>3, FlagsSame DEF FlagsInv, FlagTypes
<1>3. CASE ~RelaxDecision(dec.level, dec.tool)
  <2>1. dec' = [dec EXCEPT !.pc = "done"]
    BY <1>3 DEF Relax
  <2>2. dec' \in DecisionType /\ dec'.pc = "done" /\ dec'.level = dec.level
        /\ dec'.tool = dec.tool /\ dec'.hard = "none"
    BY <1>1, <2>1 DEF DecisionType
  <2>3. HitlLevelOrdinal(StaticLevel[dec.tool]) \in Nat
    BY <1>1, RegistryAssumption, Ordinals
  <2>4. ~(HitlLevelOrdinal(dec'.level) < HitlLevelOrdinal(StaticLevel[dec'.tool]))
    BY <1>1, <2>2, <2>3
  <2>5. DecisionOK(dec', declared, override, granted)
    BY <1>1, <2>2, <2>4 DEF DecisionOK
  <2>6. QED  BY <1>1, <2>2, <2>5, FlagsSame DEF FlagsInv, FlagTypes
<1>4. QED  BY <1>2, <1>3

\* The decision is handed to its caller.
LEMMA DecidedStep ==
  ASSUME FlagsInv, Decided
  PROVE  FlagsInv'
<1>1. dec' = NoDecision /\ UNCHANGED flagVars /\ mode' = mode
  BY DEF Decided
<1>2. dec' \in DecisionType /\ DecisionOK(dec', declared, override, granted)
  BY <1>1, NoRecords, NoDecisionOK
<1>3. QED  BY <1>1, <1>2, FlagsSame DEF FlagsInv, FlagTypes

\* The mode changes under a decision.
LEMMA SetModeStep ==
  ASSUME FlagsInv, NEW m \in {"supervised", "semi-auto", "auto"}, SetMode(m)
  PROVE  FlagsInv'
<1>1. dec' = dec /\ UNCHANGED flagVars /\ mode' \in {"supervised", "semi-auto", "auto"}
  BY DEF SetMode
<1>2. QED  BY <1>1, FlagsSame DEF FlagsInv

-----------------------------------------------------------------------------
(* HitlPolicy: the file, its reloads and the rows. *)

\* Steps that touch neither the rows, the grants, the config in memory nor the decision.
LEMMA RowsSame ==
  ASSUME FlagsInv, UNCHANGED <<declared, override, granted, dec>>
  PROVE  dec' \in DecisionType /\ RowsGranted(override', granted')
         /\ DecisionOK(dec', declared', override', granted')
  BY DEF FlagsInv

\* The file is edited: nothing is settled until the next reload.
LEMMA EditStep ==
  ASSUME FlagsInv, NEW t \in Tools, NEW l \in Levels \cup {"none"}, Edit(t, l)
  PROVE  FlagsInv'
<1>1. FlagTypes'
  BY FlagBoundsAssumption DEF FlagsInv, FlagTypes, Edit, FlagMaps
<1>2. ReloadTypes'
  BY DEF FlagsInv, ReloadTypes, Edit
<1>3. ReloadProgress'
  BY DEF Edit, ReloadProgress
<1>4. QED  BY <1>1, <1>2, <1>3, RowsSame DEF FlagsInv, Edit

\* A signal starts a reload; alone, it has every raise of the file still to do.
LEMMA SighupStep ==
  ASSUME FlagsInv, NEW r \in Reloads, Sighup(r)
  PROVE  FlagsInv'
<1> DEFINE todo == {t \in Tools : yaml[t] # "none"}
           new == [pc |-> "run", next |-> yaml, todo |-> todo]
<1>1. reload' = [reload EXCEPT ![r] = new] /\ UNCHANGED <<yaml, declared, override, asked, edits, granted, dec, mode>>
      /\ settled' = (IF \A q \in Reloads : reload[q].pc = "idle" THEN "next" ELSE "no")
      /\ signals' = signals + 1 /\ signals < MaxSignals
  BY DEF Sighup
<1>2. yaml \in FlagMaps /\ reload \in [Reloads -> ReloadType]
  BY DEF FlagsInv, FlagTypes, ReloadTypes
<1>3. todo \subseteq Tools /\ \A t \in todo : yaml[t] # "none"
  OBVIOUS
<1> HIDE DEF todo
<1>4. new \in ReloadType
  BY <1>2, <1>3 DEF ReloadType
<1>5. new.pc = "run" /\ new.next = yaml /\ new.todo = todo
  OBVIOUS
<1> HIDE DEF new
<1>6. reload' \in [Reloads -> ReloadType] /\ reload'[r] = new
      /\ \A q \in Reloads \ {r} : reload'[q] = reload[q]
  BY <1>1, <1>2, <1>4
<1>7. FlagTypes'
  BY <1>1, FlagBoundsAssumption DEF FlagsInv, FlagTypes
<1>8. ReloadTypes'
  BY <1>3, <1>5, <1>6 DEF FlagsInv, ReloadTypes
<1>9. ReloadProgress'
  <2>1. settled' # "yes"
    BY <1>1
  <2>2. ASSUME settled' = "next"
        PROVE  reload'[r].pc = "run" /\ reload'[r].next = yaml' /\ RaisesApplied(reload[r].todo)'
               /\ \A q \in Reloads \ {r} : reload'[q].pc = "idle"
    <3>1. \A q \in Reloads : reload[q].pc = "idle"
      BY <1>1, <2>2
    <3>2. \A t \in Tools : yaml[t] # "none" => t \in todo
      BY DEF todo
    <3>3. RaisesApplied(reload[r].todo)'
      BY <1>1, <1>5, <1>6, <3>2 DEF RaisesApplied
    <3>4. QED  BY <1>1, <1>5, <1>6, <3>1, <3>3
  <2>3. QED  BY <2>1, <2>2 DEF ReloadProgress
<1>10. QED  BY <1>1, <1>7, <1>8, <1>9, RowsSame DEF FlagsInv

\* A reload fails: its progress is lost, and what it already applied stays.
LEMMA ReloadFailsStep ==
  ASSUME FlagsInv, NEW r \in Reloads, ReloadFails(r)
  PROVE  FlagsInv'
<1>1. FlagTypes'
  BY DEF FlagsInv, FlagTypes, ReloadFails
<1>2. ReloadTypes'
  BY NoRecords DEF FlagsInv, ReloadTypes, ReloadFails
<1>3. ReloadProgress'
  BY DEF ReloadFails, ReloadProgress
<1>4. QED  BY <1>1, <1>2, <1>3, RowsSame DEF FlagsInv, ReloadFails

\* One declared tool: a raise is written, a lowering is only asked for.
LEMMA ReconcileStep ==
  ASSUME FlagsInv, NEW r \in Reloads, Reconcile(r)
  PROVE  FlagsInv'
<1>1. PICK t \in reload[r].todo :
        /\ reload' = [reload EXCEPT ![r].todo = @ \ {t}]
        /\ override' = IF override[t] # reload[r].next[t] /\ ~Lowers(t, reload[r].next[t])
                         THEN [override EXCEPT ![t] = reload[r].next[t]] ELSE override
        /\ asked' = IF override[t] # reload[r].next[t] /\ Lowers(t, reload[r].next[t])
                      THEN asked \cup {<<t, reload[r].next[t]>>} ELSE asked
  BY DEF Reconcile
<1>2. PICK l : l = reload[r].next[t]
  OBVIOUS
<1>3. UNCHANGED <<yaml, declared, edits, signals, granted, settled, mode>> /\ Disturb
      /\ reload[r].pc = "run"
  BY DEF Reconcile
<1>4. reload \in [Reloads -> ReloadType] /\ reload[r] \in ReloadType /\ t \in Tools /\ l # "none"
  BY <1>2 DEF FlagsInv, ReloadTypes, ReloadType
<1>5. l \in Levels
  BY <1>2, <1>4 DEF ReloadType, FlagMaps
<1>6. PICK old \in ReloadType : old = reload[r]
  BY <1>4
<1>7. reload'[r] = [old EXCEPT !.todo = old.todo \ {t}] /\ (\A q \in Reloads \ {r} : reload'[q] = reload[q])
      /\ DOMAIN reload' = Reloads
  BY <1>1, <1>4, <1>6
<1>8. reload'[r] \in ReloadType /\ reload'[r].pc = old.pc /\ reload'[r].next = old.next
      /\ reload'[r].todo = old.todo \ {t}
  BY <1>7 DEF ReloadType
<1>9. reload' \in [Reloads -> ReloadType]
  BY <1>1, <1>4, <1>7, <1>8
<1>10. override \in FlagMaps /\ asked \subseteq Tools \X Levels
  BY DEF FlagsInv, FlagTypes
<1>11. override' \in FlagMaps /\ asked' \subseteq Tools \X Levels
  BY <1>1, <1>2, <1>4, <1>5, <1>10 DEF FlagMaps
<1>12. FlagTypes'
  BY <1>3, <1>11 DEF FlagsInv, FlagTypes
<1>13. ReloadTypes'
  <2>1. \A q \in Reloads : \A u \in reload[q].todo : reload[q].next[u] # "none"
    BY DEF FlagsInv, ReloadTypes
  <2>2. \A u \in old.todo \ {t} : old.next[u] # "none"
    BY <1>6, <2>1
  <2>3. \A u \in reload'[r].todo : reload'[r].next[u] # "none"
    BY <1>8, <2>2
  <2>4. \A q \in Reloads \ {r} : \A u \in reload'[q].todo : reload'[q].next[u] # "none"
    BY <1>7, <2>1
  <2>5. QED  BY <1>9, <2>3, <2>4 DEF ReloadTypes
<1>14. ~Lowers(t, l) => override'[t] = l
  BY <1>1, <1>2, <1>4, <1>10 DEF FlagMaps
<1>15. \A u \in Tools : override'[u] = override[u] \/ (u = t /\ override'[u] = l /\ ~Lowers(t, l))
  BY <1>1, <1>2, <1>4, <1>10 DEF FlagMaps
<1>16. RowsGranted(override', granted')
  BY <1>3, <1>15 DEF FlagsInv, RowsGranted
<1>17. dec' \in DecisionType /\ DecisionOK(dec', declared', override', granted')
  BY <1>3, Disturbed DEF FlagsInv
<1>18. ReloadProgress'
  <2>1. settled # "yes"
    BY <1>3, <1>4 DEF FlagsInv, ReloadProgress
  <2>2. ASSUME settled = "next"
        PROVE  old.next = yaml /\ RaisesApplied(old.todo) /\ \A q \in Reloads \ {r} : reload[q].pc = "idle"
    <3>1. PICK s \in Reloads : /\ reload[s].pc = "run" /\ reload[s].next = yaml
                               /\ RaisesApplied(reload[s].todo)
                               /\ \A q \in Reloads \ {s} : reload[q].pc = "idle"
      BY <2>2 DEF FlagsInv, ReloadProgress
    <3>2. s = r
      BY <1>3, <3>1
    <3>3. QED  BY <1>6, <3>1, <3>2
  <2>3. ASSUME settled = "next"
        PROVE  RaisesApplied(reload[r].todo)'
    <3> SUFFICES ASSUME NEW u \in Tools, yaml[u] # "none", ~Lowers(u, yaml[u]), u \notin old.todo \ {t}
                 PROVE  override'[u] = yaml[u]
      BY <1>3, <1>8 DEF RaisesApplied, Lowers
    <3>1. CASE u = t
      BY <1>2, <1>6, <1>14, <2>2, <2>3, <3>1
    <3>2. CASE u # t
      BY <1>15, <2>2, <2>3, <3>2 DEF RaisesApplied
    <3>3. QED  BY <3>1, <3>2
  <2>4. ASSUME settled = "next"
        PROVE  reload'[r].pc = "run" /\ reload'[r].next = yaml' /\ RaisesApplied(reload[r].todo)'
               /\ \A q \in Reloads \ {r} : reload'[q].pc = "idle"
    <3>1. reload'[r].pc = "run" /\ reload'[r].next = yaml'
      BY <1>3, <1>6, <1>8, <2>2, <2>4
    <3>2. \A q \in Reloads \ {r} : reload'[q].pc = "idle"
      BY <1>7, <2>2, <2>4
    <3>3. QED  BY <2>3, <2>4, <3>1, <3>2
  <2>5. settled' = settled
    BY <1>3
  <2>6. QED  BY <2>1, <2>4, <2>5 DEF ReloadProgress
<1>19. QED  BY <1>12, <1>13, <1>16, <1>17, <1>18 DEF FlagsInv

\* The end of a reload: alone, it has put every raise of the file in force.
LEMMA SwapConfigStep ==
  ASSUME FlagsInv, NEW r \in Reloads, SwapConfig(r)
  PROVE  FlagsInv'
<1>1. /\ reload[r].pc = "run" /\ reload[r].todo = {} /\ declared' = reload[r].next
      /\ reload' = [reload EXCEPT ![r] = NoReload]
      /\ settled' = (IF settled = "next" THEN "yes" ELSE settled)
      /\ UNCHANGED <<yaml, override, asked, edits, signals, granted, mode>> /\ Disturb
  BY DEF SwapConfig
<1>2. reload \in [Reloads -> ReloadType] /\ reload[r] \in ReloadType
  BY DEF FlagsInv, ReloadTypes
<1>3. declared' \in FlagMaps
  BY <1>1, <1>2 DEF ReloadType
<1>4. FlagTypes'
  BY <1>1, <1>3 DEF FlagsInv, FlagTypes
<1>5. reload' \in [Reloads -> ReloadType] /\ reload'[r] = NoReload
      /\ \A q \in Reloads \ {r} : reload'[q] = reload[q]
  BY <1>1, <1>2, NoRecords
<1>6. ReloadTypes'
  BY <1>5, NoRecords DEF FlagsInv, ReloadTypes
<1>7. RowsGranted(override', granted')
  BY <1>1 DEF FlagsInv
<1>8. dec' \in DecisionType /\ DecisionOK(dec', declared', override', granted')
  BY <1>1, Disturbed DEF FlagsInv
<1>9. ReloadProgress'
  <2>1. settled # "yes"
    BY <1>1 DEF FlagsInv, ReloadProgress
  <2>2. ASSUME settled' = "yes"
        PROVE  declared' = yaml' /\ RaisesApplied({})' /\ \A q \in Reloads : reload'[q].pc = "idle"
    <3>1. PICK s \in Reloads : /\ reload[s].pc = "run" /\ reload[s].next = yaml
                               /\ RaisesApplied(reload[s].todo)
                               /\ \A q \in Reloads \ {s} : reload[q].pc = "idle"
      BY <1>1, <2>1, <2>2 DEF FlagsInv, ReloadProgress
    <3>2. s = r
      BY <1>1, <3>1
    <3>3. RaisesApplied({})'
      BY <1>1, <3>1, <3>2 DEF RaisesApplied, Lowers
    <3>4. QED  BY <1>1, <1>5, <3>1, <3>2, <3>3, NoRecords
  <2>3. settled' # "next"
    BY <1>1, <2>1
  <2>4. QED  BY <2>2, <2>3 DEF ReloadProgress
<1>10. QED  BY <1>4, <1>6, <1>7, <1>8, <1>9 DEF FlagsInv

\* The owner approved a lowering, twice: the row is written and the grant is on record.
LEMMA ApplyStep ==
  ASSUME FlagsInv, NEW t \in Tools, NEW l \in Levels, ApplyApprovedOverride(t, l)
  PROVE  FlagsInv'
<1>1. /\ asked' = asked \ {<<t, l>>} /\ override' = [override EXCEPT ![t] = l]
      /\ granted' = granted \cup {<<t, l>>} /\ settled' = "no"
      /\ UNCHANGED <<yaml, declared, reload, edits, signals, mode>> /\ Disturb
  BY DEF ApplyApprovedOverride
<1>2. override \in FlagMaps
  BY DEF FlagsInv, FlagTypes
<1>3. override' \in FlagMaps
  BY <1>1, <1>2 DEF FlagMaps
<1>4. FlagTypes'
  BY <1>1, <1>3 DEF FlagsInv, FlagTypes
<1>5. ReloadTypes'
  BY <1>1 DEF FlagsInv, ReloadTypes
<1>6. RowsGranted(override', granted')
  BY <1>1, <1>2 DEF FlagsInv, RowsGranted, FlagMaps
<1>7. dec' \in DecisionType /\ DecisionOK(dec', declared', override', granted')
  BY <1>1, Disturbed DEF FlagsInv
<1>8. ReloadProgress'
  BY <1>1 DEF ReloadProgress
<1>9. QED  BY <1>4, <1>5, <1>6, <1>7, <1>8 DEF FlagsInv

\* A request is rejected or expires: nothing else changes.
LEMMA DropStep ==
  ASSUME FlagsInv, NEW t \in Tools, NEW l \in Levels, DropRequest(t, l)
  PROVE  FlagsInv'
<1>1. FlagTypes'
  BY DEF FlagsInv, FlagTypes, DropRequest
<1>2. ReloadTypes'
  BY DEF FlagsInv, ReloadTypes, DropRequest
<1>3. ReloadProgress'
  BY DEF FlagsInv, DropRequest, ReloadProgress, RaisesApplied, Lowers
<1>4. QED  BY <1>1, <1>2, <1>3, RowsSame DEF FlagsInv, DropRequest

\* A new process starts from the file and the rows; decisions and reloads are gone.
LEMMA FlagsRestartStep ==
  ASSUME FlagsInv, FlagsRestart
  PROVE  FlagsInv'
<1>1. FlagTypes'
  BY DEF FlagsInv, FlagTypes, FlagsRestart
<1>2. reload' \in [Reloads -> ReloadType] /\ \A r \in Reloads : reload'[r].todo = {}
  BY NoRecords DEF FlagsRestart
<1>3. ReloadTypes'
  BY <1>2 DEF ReloadTypes
<1>4. ReloadProgress'
  BY DEF FlagsRestart, ReloadProgress
<1>5. RowsGranted(override', granted')
  BY DEF FlagsInv, FlagsRestart
<1>6. dec' \in DecisionType /\ DecisionOK(dec', declared', override', granted')
  BY NoRecords, NoDecisionOK DEF FlagsRestart
<1>7. QED  BY <1>1, <1>3, <1>4, <1>5, <1>6 DEF FlagsInv

\* Nothing is declared, nothing is in force and nothing runs.
LEMMA PolicyStarts == PolicyInit => FlagsInv
<1> SUFFICES ASSUME PolicyInit  PROVE FlagsInv
  OBVIOUS
<1>1. FlagTypes
  BY FlagBoundsAssumption DEF PolicyInit, FlagTypes, FlagMaps
<1>2. reload \in [Reloads -> ReloadType] /\ \A r \in Reloads : reload[r].pc = "idle" /\ reload[r].todo = {}
  BY NoRecords DEF PolicyInit
<1>3. ReloadTypes
  BY <1>2 DEF ReloadTypes
<1>4. dec \in DecisionType /\ DecisionOK(dec, declared, override, granted)
  BY NoRecords, NoDecisionOK DEF PolicyInit
<1>5. RowsGranted(override, granted)
  BY DEF PolicyInit, RowsGranted
<1>6. ReloadProgress
  BY <1>2 DEF PolicyInit, ReloadProgress, RaisesApplied
<1>7. QED  BY <1>1, <1>3, <1>4, <1>5, <1>6 DEF FlagsInv

\* Every step of HitlPolicyService, FeatureFlagsService, the owner and the clock.
LEMMA PolicyStep == FlagsInv /\ [PolicyNext]_policyVars => FlagsInv'
<1> SUFFICES ASSUME FlagsInv, [PolicyNext]_policyVars  PROVE FlagsInv'
  OBVIOUS
<1>1. CASE Decide                 BY <1>1, DecideStep
<1>2. CASE ResolveEffectiveLevel  BY <1>2, ResolveStep
<1>3. CASE Relax                  BY <1>3, RelaxStep
<1>4. CASE Decided                BY <1>4, DecidedStep
<1>5. CASE \E m \in {"supervised", "semi-auto", "auto"} : SetMode(m)
  BY <1>5, SetModeStep
<1>6. CASE \E t \in Tools, l \in Levels \cup {"none"} : Edit(t, l)
  BY <1>6, EditStep
<1>7. CASE \E r \in Reloads : Sighup(r) \/ Reconcile(r) \/ SwapConfig(r) \/ ReloadFails(r)
  BY <1>7, SighupStep, ReconcileStep, SwapConfigStep, ReloadFailsStep
<1>8. CASE \E t \in Tools, l \in Levels : ApplyApprovedOverride(t, l) \/ DropRequest(t, l)
  BY <1>8, ApplyStep, DropStep
<1>9. CASE FlagsRestart           BY <1>9, FlagsRestartStep
<1>10. CASE UNCHANGED policyVars
  <2>1. UNCHANGED flagVars /\ dec' = dec /\ mode' = mode
    BY <1>10 DEF policyVars
  <2>2. QED  BY <2>1, FlagsSame DEF FlagsInv, FlagTypes
<1>11. QED
  BY <1>1, <1>2, <1>3, <1>4, <1>5, <1>6, <1>7, <1>8, <1>9, <1>10 DEF PolicyNext

\* The inductive invariant of the level policy: whatever the order of reloads, edits, restarts and
\* approvals, no row lowers a tool without a grant, a decision in progress holds only what it read,
\* and a reload that runs alone works through the file as it is.
THEOREM PolicySafety == PolicySpec => []FlagsInv
<1>1. QED  BY PolicyStarts, PolicyStep, PTL DEF PolicySpec

\* HitlPolicyService.decide and FeatureFlagsService.reload: a call is never below the registry's
\* level without a grant or a mode that may relax it, a hardened level is not relaxed, and a reload
\* that ran alone is in force.
THEOREM LevelsAreGoverned == PolicySpec => []PolicyInv
<1>1. FlagsInv => PolicyInv
  <2> SUFFICES ASSUME FlagsInv  PROVE PolicyInv
    OBVIOUS
  <2>1. PolicyTypeOK
    BY DEF FlagsInv, FlagTypes, ReloadTypes, ReloadType, DecisionType, DecisionOK, FlagMaps, PolicyTypeOK
  <2>2. LoweringIsGranted
    BY DEF FlagsInv, RowsGranted, DecisionOK, LoweringIsGranted
  <2>3. HardenedNotRelaxed
    <3>1. ApprovalsRequiredFor(dec.level) \in Nat
      BY DEF ApprovalsRequiredFor
    <3>2. QED  BY <3>1 DEF FlagsInv, DecisionOK, HardenedNotRelaxed
  <2>4. ReloadTakesEffect
    BY DEF FlagsInv, ReloadProgress, RaisesApplied, ReloadTakesEffect, InForce
  <2>5. QED  BY <2>1, <2>2, <2>3, <2>4 DEF PolicyInv
<1>2. QED  BY <1>1, PolicySafety, PTL

-----------------------------------------------------------------------------
(* AgentLoop: what the smallest element of a set of places is. *)

\* A set of natural numbers that is not empty has a smallest one.
LEMMA MinOf ==
  ASSUME NEW S, S \subseteq Nat, S # {}
  PROVE  Min(S) \in S /\ \A y \in S : Min(S) <= y
<1>1. \E x \in S : \A y \in S : ~ (<<y, x>> \in OpToRel(<, Nat))
  BY NatLessThanWellFounded, WFMin, Zenon
<1>2. PICK x \in S : \A y \in S : ~ (<<y, x>> \in OpToRel(<, Nat))
  BY <1>1
<1>3. ASSUME NEW y \in S PROVE x <= y
  <2>1. x \in Nat /\ y \in Nat
    OBVIOUS
  <2>2. ASSUME y < x PROVE <<y, x>> \in OpToRel(<, Nat)
    <3>1. <<y, x>> \in Nat \X Nat /\ <<y, x>>[1] < <<y, x>>[2]
      BY <2>1, <2>2
    <3> QED
      BY <3>1, Zenon DEF OpToRel
  <2>3. ~ y < x
    BY <1>2, <2>2, Zenon
  <2> QED
    BY <2>1, <2>3
<1> QED
  BY <1>3 DEF Min

-----------------------------------------------------------------------------
(* AgentLoop: the inductive invariant. *)

CallIds == Nat \X Nat \X Nat
Messages == [role : {"user", "assistant"}, of : SUBSET Nat, uses : Seq(CallIds), results : Seq(CallIds), text : BOOLEAN]

\* A message: an objective or an answer, the tool calls of a response, or all their results.
Plain(m) == m.text /\ m.uses = <<>> /\ m.results = <<>>
Asks(m) == ~m.text /\ m.role = "assistant" /\ m.uses # <<>> /\ m.results = <<>>
Answers(m) == ~m.text /\ m.role = "user" /\ m.uses = <<>> /\ m.results # <<>>

\* A conversation opens with an objective; results come after the calls they answer, and only there.
Rounds(ms) ==
  /\ ms # <<>> => ms[1].role = "user" /\ ms[1].text
  /\ \A i \in 1 .. Len(ms) :
       /\ Plain(ms[i]) \/ Asks(ms[i]) \/ Answers(ms[i])
       /\ Asks(ms[i]) /\ i < Len(ms) => ms[i + 1].results = ms[i].uses
       /\ Answers(ms[i]) => i > 1 /\ ms[i - 1].uses = ms[i].results

\* No call waits for its result.
Settled(ms) == ms # <<>> => ms[Len(ms)].uses = <<>>

StartsFrom(ms, i) == {j \in FindTurnStartIndices(ms) : j >= i}

\* The first n turns are told, and the last ones start where counting the starts from the end
\* finds them.
Told(ms, n) ==
  /\ Transcript(ms) = 0 .. n - 1
  /\ \A t \in 0 .. n - 1 : t + PreserveLast >= n =>
       \E i \in FindTurnStartIndices(ms) : ms[i].of = {t} /\ Cardinality(StartsFrom(ms, i)) <= n - t

LoopShape ==
  /\ history \in Seq(Messages) /\ messages \in Seq(Messages)
  /\ pc \in {"idle", "model", "calls", "final"} /\ enabled \in {"on", "off"}
  /\ iter \in 0 .. MaxIterations /\ turns \in 0 .. MaxTurns /\ (pc # "idle" => turns < MaxTurns)
  /\ memory \subseteq 0 .. MaxTurns /\ plan \in Seq(PlanStatus)
  /\ answer \in {"none", "text", "cut", "out of space", "limit"} /\ (answer # "none" <=> pc = "final")

CountersOK ==
  /\ fails \in [Keys -> 0 .. MaxFailures] /\ tries = fails
  /\ unaudited \in [Keys -> Nat] /\ (\A k \in Keys : unaudited[k] <= fails[k])
  /\ listed \in Nat /\ created = listed

\* The calls of the last message, handled and to handle, in order.
CallsOK ==
  /\ calls \in Seq(Names) /\ results \in Seq(CallIds)
  /\ pc # "calls" => results = <<>>
  /\ \A i \in 1 .. Len(results) : results[i] = <<turns, iter, i>>
  /\ pc = "calls" => /\ messages # <<>> /\ Asks(messages[Len(messages)])
                     /\ messages[Len(messages)].uses = Ids(Len(results) + Len(calls))

TalkOK ==
  /\ Rounds(history) /\ Settled(history) /\ Told(history, turns)
  /\ pc # "idle" => messages # <<>> /\ Rounds(messages) /\ Told(messages, turns + 1)
  /\ pc \in {"model", "final"} => Settled(messages)

LoopSafe == LoopShape /\ CountersOK /\ CallsOK /\ TalkOK

-----------------------------------------------------------------------------
(* Conversations, message by message. *)

\* A message at the end of a conversation.
LEMMA OneMore ==
  ASSUME NEW S, NEW s \in Seq(S), NEW m \in S
  PROVE  /\ Len(s) \in Nat /\ DOMAIN s = 1 .. Len(s) /\ (s = <<>> <=> Len(s) = 0) /\ \A i \in 1 .. Len(s) : s[i] \in S
         /\ Append(s, m) \in Seq(S) /\ Append(s, m) # <<>> /\ Len(Append(s, m)) = Len(s) + 1
         /\ DOMAIN Append(s, m) = 1 .. Len(s) + 1
         /\ Append(s, m)[Len(s) + 1] = m /\ \A i \in 1 .. Len(s) : Append(s, m)[i] = s[i]
<1>1. Len(s) \in Nat /\ DOMAIN s = 1 .. Len(s) /\ (s = <<>> <=> Len(s) = 0) /\ \A i \in 1 .. Len(s) : s[i] \in S
  OBVIOUS
<1>2. Append(s, m) \in Seq(S) /\ Len(Append(s, m)) = Len(s) + 1
  OBVIOUS
<1>3. Append(s, m) # <<>> /\ DOMAIN Append(s, m) = 1 .. Len(s) + 1
  BY <1>1, <1>2
<1>4. Append(s, m)[Len(s) + 1] = m /\ \A i \in 1 .. Len(s) : Append(s, m)[i] = s[i]
  BY <1>1
<1> QED
  BY <1>1, <1>2, <1>3, <1>4

\* A text, and a message of blocks.
LEMMA TextIsPlain ==
  ASSUME NEW role \in {"user", "assistant"}, NEW of \in SUBSET Nat
  PROVE  Text(role, of) \in Messages /\ Plain(Text(role, of)) /\ Text(role, of).role = role /\ Text(role, of).of = of
<1>1. <<>> \in Seq(CallIds)
  OBVIOUS
<1> QED
  BY <1>1 DEF Text, Messages, Plain

\* An assistant message of tool uses asks, the user message of their results answers it.
LEMMA BlocksAsk ==
  ASSUME NEW ids \in Seq(CallIds), ids # <<>>
  PROVE  /\ Blocks("assistant", ids, <<>>) \in Messages /\ Asks(Blocks("assistant", ids, <<>>))
         /\ Blocks("assistant", ids, <<>>).uses = ids /\ Blocks("assistant", ids, <<>>).of = {}
         /\ Blocks("user", <<>>, ids) \in Messages /\ Answers(Blocks("user", <<>>, ids))
         /\ Blocks("user", <<>>, ids).results = ids /\ Blocks("user", <<>>, ids).of = {}
         /\ Blocks("user", <<>>, ids).uses = <<>>
<1>1. <<>> \in Seq(CallIds) /\ {} \in SUBSET Nat
  OBVIOUS
<1> QED
  BY <1>1 DEF Blocks, Messages, Asks, Answers

\* There are finitely many starts.
LEMMA StartsFinite ==
  ASSUME NEW ms \in Seq(Messages)
  PROVE  /\ FindTurnStartIndices(ms) \subseteq 1 .. Len(ms)
         /\ \A i : IsFiniteSet(StartsFrom(ms, i)) /\ Cardinality(StartsFrom(ms, i)) \in Nat
<1>1. Len(ms) \in Nat /\ DOMAIN ms = 1 .. Len(ms)
  OBVIOUS
<1>2. FindTurnStartIndices(ms) \subseteq 1 .. Len(ms)
  BY <1>1 DEF FindTurnStartIndices
<1>3. 1 \in Int /\ Len(ms) \in Int
  BY <1>1
<1>4. IsFiniteSet(1 .. Len(ms))
  BY <1>3, FS_Interval, Zenon
<1>5. ASSUME NEW i PROVE IsFiniteSet(StartsFrom(ms, i)) /\ Cardinality(StartsFrom(ms, i)) \in Nat
  <2>1. StartsFrom(ms, i) \in SUBSET (1 .. Len(ms))
    BY <1>2 DEF StartsFrom
  <2>2. IsFiniteSet(StartsFrom(ms, i))
    BY <1>4, <2>1, FS_Subset, Zenon
  <2> QED
    BY <2>2, FS_CardinalityType, Zenon
<1> QED
  BY <1>2, <1>5

\* A message that starts no turn changes nothing of what is told.
LEMMA ToldAfter ==
  ASSUME NEW ms \in Seq(Messages), NEW m \in Messages, NEW n \in Nat, Told(ms, n),
         m.of \subseteq 0 .. n - 1, ~ (m.role = "user" /\ m.text)
  PROVE  Told(Append(ms, m), n)
<1> PICK s : s = Append(ms, m)
  OBVIOUS
<1>1. /\ Len(ms) \in Nat /\ DOMAIN ms = 1 .. Len(ms) /\ DOMAIN s = 1 .. Len(ms) + 1
      /\ s[Len(ms) + 1] = m /\ \A i \in 1 .. Len(ms) : s[i] = ms[i]
  BY OneMore
<1>2. FindTurnStartIndices(s) = FindTurnStartIndices(ms)
  BY <1>1 DEF FindTurnStartIndices
<1>3. \A i \in FindTurnStartIndices(ms) : s[i] = ms[i]
  BY <1>1 DEF FindTurnStartIndices
<1>4. \A i : StartsFrom(s, i) = StartsFrom(ms, i)
  BY <1>2 DEF StartsFrom
<1>5. Transcript(s) = Transcript(ms)
  <2>1. Transcript(ms) = 0 .. n - 1
    BY DEF Told
  <2>2. \A x \in Transcript(ms) : x \in Transcript(s)
    BY <1>1 DEF Transcript
  <2>3. ASSUME NEW x \in Transcript(s) PROVE x \in Transcript(ms)
    <3>1. PICK i \in 1 .. Len(ms) + 1 : x \in s[i].of
      BY <1>1, <2>3 DEF Transcript
    <3>2. CASE i = Len(ms) + 1
      BY <1>1, <2>1, <3>1, <3>2
    <3>3. CASE i \in 1 .. Len(ms)
      BY <1>1, <3>1, <3>3 DEF Transcript
    <3> QED
      BY <1>1, <3>2, <3>3
  <2> QED
    BY <2>2, <2>3
<1> QED
  BY <1>2, <1>3, <1>4, <1>5 DEF Told

\* An objective is the next turn.
LEMMA ToldNext ==
  ASSUME NEW ms \in Seq(Messages), NEW m \in Messages, NEW n \in Nat, Told(ms, n),
         m.of = {n}, m.role = "user", m.text
  PROVE  Told(Append(ms, m), n + 1)
<1> PICK s : s = Append(ms, m)
  OBVIOUS
<1> PICK l : l = Len(ms) + 1
  OBVIOUS
<1>1. /\ Len(ms) \in Nat /\ DOMAIN ms = 1 .. Len(ms) /\ DOMAIN s = 1 .. Len(ms) + 1 /\ l \in Nat /\ l \in 1 .. Len(ms) + 1
      /\ s[l] = m /\ \A i \in 1 .. Len(ms) : s[i] = ms[i] /\ i < l
  BY OneMore
<1>2. FindTurnStartIndices(s) = FindTurnStartIndices(ms) \cup {l}
  BY <1>1 DEF FindTurnStartIndices
<1>3. \A i \in FindTurnStartIndices(ms) : s[i] = ms[i] /\ i \in 1 .. Len(ms)
  BY <1>1 DEF FindTurnStartIndices
<1>4. Transcript(s) = 0 .. (n + 1) - 1
  <2>1. Transcript(ms) = 0 .. n - 1
    BY DEF Told
  <2>2. Transcript(s) = Transcript(ms) \cup {n}
    <3>1. \A x \in Transcript(ms) \cup {n} : x \in Transcript(s)
      BY <1>1 DEF Transcript
    <3>2. ASSUME NEW x \in Transcript(s) PROVE x \in Transcript(ms) \cup {n}
      <4>1. PICK i \in 1 .. Len(ms) + 1 : x \in s[i].of
        BY <1>1, <3>2 DEF Transcript
      <4>2. CASE i = l
        BY <1>1, <4>1, <4>2
      <4>3. CASE i \in 1 .. Len(ms)
        BY <1>1, <4>1, <4>3 DEF Transcript
      <4> QED
        BY <1>1, <4>2, <4>3
    <3> QED
      BY <3>1, <3>2
  <2> QED
    BY <2>1, <2>2
<1>5. ASSUME NEW t \in 0 .. (n + 1) - 1, t + PreserveLast >= n + 1
      PROVE  \E i \in FindTurnStartIndices(s) : s[i].of = {t} /\ Cardinality(StartsFrom(s, i)) <= (n + 1) - t
  <2>p. PreserveLast \in Nat /\ t \in 0 .. n
    BY LoopAssumption
  <2>1. CASE t = n
    <3>1. StartsFrom(s, l) = {l}
      BY <1>1, <1>2, <1>3 DEF StartsFrom
    <3>2. Cardinality(StartsFrom(s, l)) = 1
      BY <3>1, FS_Singleton, Zenon
    <3>3. 1 <= (n + 1) - t
      BY <2>1
    <3> QED
      BY <1>1, <1>2, <2>1, <3>2, <3>3
  <2>2. CASE t # n
    <3>1. t \in 0 .. n - 1 /\ t + PreserveLast >= n
      BY <1>5, <2>p, <2>2
    <3>2. PICK i \in FindTurnStartIndices(ms) : ms[i].of = {t} /\ Cardinality(StartsFrom(ms, i)) <= n - t
      BY <3>1 DEF Told
    <3>3. StartsFrom(s, i) = StartsFrom(ms, i) \cup {l} /\ l \notin StartsFrom(ms, i)
      BY <1>1, <1>2, <1>3 DEF StartsFrom
    <3>4. IsFiniteSet(StartsFrom(ms, i)) /\ Cardinality(StartsFrom(ms, i)) \in Nat
      BY StartsFinite
    <3>5. Cardinality(StartsFrom(s, i)) = Cardinality(StartsFrom(ms, i)) + 1
      BY <3>3, <3>4, FS_AddElement, Zenon
    <3>6. Cardinality(StartsFrom(s, i)) <= (n + 1) - t
      BY <3>1, <3>2, <3>4, <3>5
    <3> QED
      BY <1>2, <1>3, <3>2, <3>6
  <2> QED
    BY <2>1, <2>2
<1> QED
  BY <1>4, <1>5 DEF Told


\* The next message of a well-formed conversation.
LEMMA RoundsAfter ==
  ASSUME NEW ms \in Seq(Messages), NEW m \in Messages, Rounds(ms), Plain(m) \/ Asks(m) \/ Answers(m),
         ms = <<>> => Plain(m) /\ m.role = "user",
         ms # <<>> /\ Answers(m) => Asks(ms[Len(ms)]) /\ m.results = ms[Len(ms)].uses,
         ms # <<>> /\ ~Answers(m) => ms[Len(ms)].uses = <<>>
  PROVE  Rounds(Append(ms, m)) /\ (~Asks(m) => Settled(Append(ms, m)))
<1> PICK s : s = Append(ms, m)
  OBVIOUS
<1> PICK l : l = Len(ms)
  OBVIOUS
<1>1. /\ l \in Nat /\ Len(s) = l + 1 /\ s # <<>> /\ (ms = <<>> <=> l = 0)
      /\ s[l + 1] = m /\ \A i \in 1 .. l : s[i] = ms[i]
  BY OneMore
<1>2. s[1].role = "user" /\ s[1].text
  <2>1. CASE l = 0
    BY <1>1, <2>1 DEF Plain
  <2>2. CASE l > 0
    <3>1. s[1] = ms[1] /\ ms # <<>>
      BY <1>1, <2>2
    <3> QED
      BY <3>1 DEF Rounds
  <2> QED
    BY <1>1, <2>1, <2>2
<1>3. ASSUME NEW i \in 1 .. l + 1
      PROVE  /\ Plain(s[i]) \/ Asks(s[i]) \/ Answers(s[i])
             /\ Asks(s[i]) /\ i < l + 1 => s[i + 1].results = s[i].uses
             /\ Answers(s[i]) => i > 1 /\ s[i - 1].uses = s[i].results
  <2>1. CASE i = l + 1
    <3>1. s[i] = m /\ ~ i < l + 1
      BY <1>1, <2>1
    <3>2. Answers(m) => l # 0 /\ m.results = ms[l].uses
      BY <1>1 DEF Plain, Answers
    <3>3. l # 0 => i > 1 /\ i - 1 = l /\ s[i - 1] = ms[l]
      BY <1>1, <2>1
    <3> QED
      BY <3>1, <3>2, <3>3
  <2>2. CASE i \in 1 .. l
    <3>1. s[i] = ms[i] /\ ms # <<>>
      BY <1>1, <2>2
    <3>2. /\ Plain(ms[i]) \/ Asks(ms[i]) \/ Answers(ms[i])
          /\ Asks(ms[i]) /\ i < l => ms[i + 1].results = ms[i].uses
          /\ Answers(ms[i]) => i > 1 /\ ms[i - 1].uses = ms[i].results
      BY <2>2 DEF Rounds
    <3>3. i > 1 => s[i - 1] = ms[i - 1]
      BY <1>1, <2>2
    <3>4. CASE i < l
      <4>1. s[i + 1] = ms[i + 1]
        BY <1>1, <2>2, <3>4
      <4> QED
        BY <3>1, <3>2, <3>3, <3>4, <4>1
    <3>5. CASE i = l
      <4>1. s[i + 1] = m
        BY <1>1, <3>5
      <4>2. Asks(ms[l]) => m.results = ms[l].uses
        BY <3>1 DEF Asks
      <4> QED
        BY <3>1, <3>2, <3>3, <3>5, <4>1, <4>2
    <3> QED
      BY <1>1, <2>2, <3>4, <3>5
  <2> QED
    BY <1>1, <2>1, <2>2
<1>4. ~Asks(m) => m.uses = <<>>
  BY DEF Plain, Asks, Answers
<1> QED
  BY <1>1, <1>2, <1>3, <1>4 DEF Rounds, Settled

\* What compaction makes of a conversation: the summary, then the messages from the cut on.
Compacted(summary, ms, cut) == <<summary>> \o SubSeq(ms, cut, Len(ms))

\* Compaction keeps every message from the cut on, one place after the summary.
LEMMA CompactedFacts ==
  ASSUME NEW ms \in Seq(Messages), NEW summary \in Messages, NEW cut \in 1 .. Len(ms)
  PROVE  /\ Compacted(summary, ms, cut) \in Seq(Messages) /\ Len(Compacted(summary, ms, cut)) = Len(ms) - cut + 2
         /\ Compacted(summary, ms, cut)[1] = summary
         /\ \A i \in 2 .. Len(ms) - cut + 2 : Compacted(summary, ms, cut)[i] = ms[cut + i - 2]
<1> PICK rest : rest = SubSeq(ms, cut, Len(ms))
  OBVIOUS
<1> PICK one : one = <<summary>>
  OBVIOUS
<1>1. Len(ms) \in Nat /\ cut \in Int /\ Len(ms) \in Int /\ cut >= 1 /\ cut <= Len(ms) /\ \A i \in cut .. Len(ms) : ms[i] \in Messages
  OBVIOUS
<1>2. /\ rest \in Seq(Messages) /\ Len(rest) = IF cut <= Len(ms) THEN Len(ms) - cut + 1 ELSE 0
      /\ \A i \in 1 .. Len(ms) - cut + 1 : rest[i] = ms[cut + i - 1]
  BY <1>1, SubSeqProperties
<1>3. one \in Seq(Messages) /\ Len(one) = 1 /\ one[1] = summary
  OBVIOUS
<1>4. /\ one \o rest \in Seq(Messages) /\ Len(one \o rest) = Len(one) + Len(rest)
      /\ \A i \in 1 .. Len(one) + Len(rest) : (one \o rest)[i] = IF i <= Len(one) THEN one[i] ELSE rest[i - Len(one)]
  BY <1>2, <1>3, ConcatProperties
<1>5. Len(rest) = Len(ms) - cut + 1
  BY <1>1, <1>2
<1>6. ASSUME NEW i \in 2 .. Len(ms) - cut + 2 PROVE (one \o rest)[i] = ms[cut + i - 2]
  <2>1. i \in 1 .. Len(one) + Len(rest) /\ ~ i <= Len(one) /\ i - Len(one) = i - 1 /\ i - 1 \in 1 .. Len(ms) - cut + 1
    BY <1>1, <1>3, <1>5
  <2>2. (one \o rest)[i] = rest[i - 1]
    BY <1>4, <2>1
  <2>3. cut + (i - 1) - 1 = cut + i - 2
    BY <1>1
  <2> QED
    BY <1>2, <2>1, <2>2, <2>3
<1>7. (one \o rest)[1] = summary
  <2>1. 1 \in 1 .. Len(one) + Len(rest) /\ 1 <= Len(one)
    BY <1>1, <1>3, <1>5
  <2> QED
    BY <1>3, <1>4, <2>1
<1>8. Len(one \o rest) = Len(ms) - cut + 2
  BY <1>1, <1>3, <1>4, <1>5
<1> QED
  BY <1>4, <1>6, <1>7, <1>8 DEF Compacted

\* The cut falls between turns: what is kept is well formed.
LEMMA RoundsCompacted ==
  ASSUME NEW ms \in Seq(Messages), NEW summary \in Messages, Rounds(ms), Settled(ms),
         Plain(summary), summary.role = "user", NEW cut \in FindTurnStartIndices(ms)
  PROVE  Rounds(Compacted(summary, ms, cut)) /\ Settled(Compacted(summary, ms, cut))
<1> PICK c : c = Compacted(summary, ms, cut)
  OBVIOUS
<1> PICK l : l = Len(ms)
  OBVIOUS
<1>0. l \in Nat /\ DOMAIN ms = 1 .. l /\ (ms = <<>> => l = 0)
  OBVIOUS
<1>c. l \in Nat /\ cut \in 1 .. l
  BY <1>0 DEF FindTurnStartIndices
<1>1. l \in Nat /\ cut \in 1 .. l /\ ms[cut].text /\ ms # <<>>
  BY <1>0 DEF FindTurnStartIndices
<1>2. c \in Seq(Messages) /\ Len(c) = l - cut + 2 /\ c[1] = summary /\ \A i \in 2 .. l - cut + 2 : c[i] = ms[cut + i - 2]
  BY <1>c, CompactedFacts
<1>3. c # <<>>
  BY <1>1, <1>2
<1>4. ASSUME NEW i \in 1 .. l - cut + 2
      PROVE  /\ Plain(c[i]) \/ Asks(c[i]) \/ Answers(c[i])
             /\ Asks(c[i]) /\ i < l - cut + 2 => c[i + 1].results = c[i].uses
             /\ Answers(c[i]) => i > 1 /\ c[i - 1].uses = c[i].results
  <2>1. CASE i = 1
    BY <1>2, <2>1 DEF Plain, Asks, Answers
  <2>2. CASE i # 1
    <3> PICK k : k = cut + i - 2
      OBVIOUS
    <3>1. i \in 2 .. l - cut + 2 /\ k \in 1 .. l
      BY <1>1, <2>2
    <3>2. c[i] = ms[k]
      BY <1>2, <3>1
    <3>3. /\ Plain(ms[k]) \/ Asks(ms[k]) \/ Answers(ms[k])
          /\ Asks(ms[k]) /\ k < l => ms[k + 1].results = ms[k].uses
          /\ Answers(ms[k]) => k > 1 /\ ms[k - 1].uses = ms[k].results
      BY <3>1 DEF Rounds
    <3>4. ASSUME i < l - cut + 2 PROVE k < l /\ c[i + 1] = ms[k + 1]
      <4>1. i + 1 \in 2 .. l - cut + 2 /\ cut + (i + 1) - 2 = k + 1 /\ k < l
        BY <1>1, <3>1, <3>4
      <4> QED
        BY <1>2, <4>1
    <3>5. ASSUME Answers(ms[k]) PROVE i > 1 /\ c[i - 1] = ms[k - 1]
      <4>1. k # cut
        BY <1>1, <3>5 DEF Answers
      <4>2. i - 1 \in 2 .. l - cut + 2 /\ cut + (i - 1) - 2 = k - 1 /\ i > 1
        BY <1>1, <3>1, <4>1
      <4> QED
        BY <1>2, <4>2
    <3> QED
      BY <3>2, <3>3, <3>4, <3>5
  <2> QED
    BY <2>1, <2>2
<1>5. c[Len(c)].uses = <<>>
  <2>1. l - cut + 2 \in 2 .. l - cut + 2 /\ cut + (l - cut + 2) - 2 = l
    BY <1>1
  <2>2. c[Len(c)] = ms[l]
    BY <1>2, <2>1
  <2> QED
    BY <1>1, <2>2 DEF Settled
<1>6. c[1].role = "user" /\ c[1].text
  BY <1>2 DEF Plain
<1> QED
  BY <1>2, <1>4, <1>5, <1>6 DEF Rounds, Settled


\* Where the cut of a conversation falls that needs one.
LEMMA CutFacts ==
  ASSUME NEW ms \in Seq(Messages), NEW n \in Nat, n > 0, Told(ms, n), PlanHistoryCompaction(ms) > 1
  PROVE  /\ PlanHistoryCompaction(ms) \in FindTurnStartIndices(ms)
         /\ \A i \in FindTurnStartIndices(ms) :
              Cardinality(StartsFrom(ms, i)) <= PreserveLast => PlanHistoryCompaction(ms) <= i
<1> PICK S : S = {i \in FindTurnStartIndices(ms) : Cardinality(StartsFrom(ms, i)) <= PreserveLast}
  OBVIOUS
<1>1. ~ 1 > 1 /\ PreserveLast \in Nat /\ PreserveLast > 0
  BY LoopAssumption
<1>2. PlanHistoryCompaction(ms) = Min(S)
  BY <1>1 DEF PlanHistoryCompaction, StartsFrom
<1>3. S # {}
  <2>1. n - 1 \in 0 .. n - 1 /\ n - 1 + PreserveLast >= n /\ n - (n - 1) = 1
    BY <1>1
  <2>2. PICK i \in FindTurnStartIndices(ms) : Cardinality(StartsFrom(ms, i)) <= n - (n - 1)
    BY <2>1 DEF Told
  <2>3. Cardinality(StartsFrom(ms, i)) \in Nat
    BY StartsFinite
  <2>4. Cardinality(StartsFrom(ms, i)) <= PreserveLast
    BY <1>1, <2>1, <2>2, <2>3
  <2> QED
    BY <2>4
<1>4. S \subseteq Nat
  <2>1. FindTurnStartIndices(ms) \subseteq 1 .. Len(ms) /\ 1 .. Len(ms) \subseteq Nat
    BY StartsFinite
  <2> QED
    BY <2>1
<1>5. Min(S) \in S /\ \A y \in S : Min(S) <= y
  BY <1>3, <1>4, MinOf
<1> QED
  BY <1>2, <1>5

\* The summary tells the turns before the cut; those that must be kept start after it.
LEMMA ToldCompacted ==
  ASSUME NEW ms \in Seq(Messages), NEW summary \in Messages, NEW n \in Nat, Told(ms, n),
         NEW cut \in FindTurnStartIndices(ms),
         summary.of = Transcript(SubSeq(ms, 1, cut - 1)),
         \A i \in FindTurnStartIndices(ms) : Cardinality(StartsFrom(ms, i)) <= PreserveLast => cut <= i
  PROVE  Told(Compacted(summary, ms, cut), n)
<1> PICK c : c = Compacted(summary, ms, cut)
  OBVIOUS
<1> PICK l : l = Len(ms)
  OBVIOUS
<1> PICK old : old = SubSeq(ms, 1, cut - 1)
  OBVIOUS
<1>0. l \in Nat /\ DOMAIN ms = 1 .. l
  OBVIOUS
<1>1. l \in Nat /\ cut \in 1 .. l
  BY <1>0 DEF FindTurnStartIndices
<1>2. c \in Seq(Messages) /\ Len(c) = l - cut + 2 /\ c[1] = summary /\ \A i \in 2 .. l - cut + 2 : c[i] = ms[cut + i - 2]
  BY <1>1, CompactedFacts
<1>3. DOMAIN c = 1 .. l - cut + 2
  BY <1>2
<1>4. ASSUME NEW k \in cut .. l PROVE k - cut + 2 \in 2 .. l - cut + 2 /\ k - cut + 2 \in DOMAIN c /\ c[k - cut + 2] = ms[k]
  <2>1. k - cut + 2 \in 2 .. l - cut + 2 /\ cut + (k - cut + 2) - 2 = k
    BY <1>1
  <2>2. k - cut + 2 \in DOMAIN c
    BY <1>1, <1>3
  <2> QED
    BY <1>2, <2>1, <2>2
<1>5. Transcript(c) = 0 .. n - 1
  <2>1. Transcript(ms) = 0 .. n - 1
    BY DEF Told
  <2>2. DOMAIN old = 1 .. cut - 1 /\ \A i \in 1 .. cut - 1 : old[i] = ms[i]
    <3>1. \A i \in 1 .. cut - 1 : ms[i] \in Messages
      BY <1>1
    <3>2. 1 \in Int /\ cut - 1 \in Int
      BY <1>1
    <3>3. /\ old \in Seq(Messages) /\ Len(old) = IF 1 <= cut - 1 THEN cut - 1 - 1 + 1 ELSE 0
          /\ \A i \in 1 .. cut - 1 - 1 + 1 : old[i] = ms[1 + i - 1]
      BY <3>1, <3>2, SubSeqProperties
    <3>4. Len(old) = cut - 1 /\ cut - 1 - 1 + 1 = cut - 1 /\ \A i \in 1 .. cut - 1 : 1 + i - 1 = i
      BY <1>1, <3>3
    <3>5. DOMAIN old = 1 .. cut - 1
      BY <3>3, <3>4
    <3> QED
      BY <3>3, <3>4, <3>5
  <2>3. ASSUME NEW x \in Transcript(ms) PROVE x \in Transcript(c)
    <3>1. PICK i \in 1 .. l : x \in ms[i].of
      BY <1>0, <2>3 DEF Transcript
    <3>2. CASE i \in 1 .. cut - 1
      <4>1. x \in Transcript(old)
        BY <2>2, <3>1, <3>2 DEF Transcript
      <4>2. 1 \in DOMAIN c /\ x \in c[1].of
        BY <1>1, <1>2, <1>3, <4>1
      <4> QED
        BY <4>2 DEF Transcript
    <3>3. CASE i \in cut .. l
      BY <1>4, <3>1, <3>3 DEF Transcript
    <3> QED
      BY <1>1, <3>2, <3>3
  <2>4. ASSUME NEW x \in Transcript(c) PROVE x \in Transcript(ms)
    <3>1. PICK i \in 1 .. l - cut + 2 : x \in c[i].of
      BY <1>3, <2>4 DEF Transcript
    <3>2. CASE i = 1
      <4>1. x \in Transcript(old)
        BY <1>2, <3>1, <3>2
      <4>2. PICK k \in 1 .. cut - 1 : x \in ms[k].of
        BY <2>2, <4>1 DEF Transcript
      <4>3. k \in 1 .. l
        BY <1>1
      <4> QED
        BY <1>0, <4>2, <4>3 DEF Transcript
    <3>3. CASE i \in 2 .. l - cut + 2
      <4>1. cut + i - 2 \in 1 .. l /\ c[i] = ms[cut + i - 2]
        BY <1>1, <1>2, <3>3
      <4> QED
        BY <1>0, <3>1, <4>1 DEF Transcript
    <3> QED
      BY <1>1, <3>2, <3>3
  <2> QED
    BY <2>1, <2>3, <2>4
<1>6. ASSUME NEW t \in 0 .. n - 1, t + PreserveLast >= n
      PROVE  \E i \in FindTurnStartIndices(c) : c[i].of = {t} /\ Cardinality(StartsFrom(c, i)) <= n - t
  <2>1. PICK i \in FindTurnStartIndices(ms) : ms[i].of = {t} /\ Cardinality(StartsFrom(ms, i)) <= n - t
    BY <1>6 DEF Told
  <2>2. IsFiniteSet(StartsFrom(ms, i)) /\ Cardinality(StartsFrom(ms, i)) \in Nat
    BY StartsFinite
  <2>3. cut <= i
    <3>1. PreserveLast \in Nat
      BY LoopAssumption
    <3>2. Cardinality(StartsFrom(ms, i)) <= PreserveLast
      BY <1>6, <2>1, <2>2, <3>1
    <3> QED
      BY <2>1, <3>2
  <2>4. i \in 1 .. l /\ i \in cut .. l
    BY <1>0, <1>1, <2>1, <2>3 DEF FindTurnStartIndices
  <2> PICK j : j = i - cut + 2
    OBVIOUS
  <2>5. j \in 2 .. l - cut + 2 /\ j \in DOMAIN c /\ c[j] = ms[i]
    BY <1>4, <2>4
  <2>6. j \in FindTurnStartIndices(c) /\ c[j].of = {t}
    BY <2>1, <2>5 DEF FindTurnStartIndices
  <2>7. IsFiniteSet(StartsFrom(c, j)) /\ Cardinality(StartsFrom(c, j)) <= Cardinality(StartsFrom(ms, i))
    <3> PICK f : f = [k \in StartsFrom(c, j) |-> cut + k - 2]
      OBVIOUS
    <3>1. ASSUME NEW k \in StartsFrom(c, j) PROVE k \in Nat /\ cut + k - 2 \in StartsFrom(ms, i)
      <4>1. k \in 1 .. l - cut + 2 /\ k >= j /\ c[k].role = "user" /\ c[k].text
        BY <1>3 DEF StartsFrom, FindTurnStartIndices
      <4>2. k \in 2 .. l - cut + 2 /\ cut + k - 2 \in 1 .. l /\ cut + k - 2 >= i
        BY <1>1, <2>4, <2>5, <4>1
      <4>3. c[k] = ms[cut + k - 2]
        BY <1>2, <4>2
      <4> QED
        BY <1>0, <4>1, <4>2, <4>3 DEF StartsFrom, FindTurnStartIndices
    <3>2. f \in [StartsFrom(c, j) -> StartsFrom(ms, i)]
      BY <3>1
    <3>3. \A a, b \in StartsFrom(c, j) : f[a] = f[b] => a = b
      BY <1>1, <3>1
    <3>4. f \in Injection(StartsFrom(c, j), StartsFrom(ms, i))
      BY <3>2, <3>3 DEF Injection, IsInjective
    <3> QED
      BY <2>2, <3>4, FS_Injection, Zenon
  <2>8. Cardinality(StartsFrom(c, j)) <= n - t
    <3>1. Cardinality(StartsFrom(c, j)) \in Nat
      BY <1>2, StartsFinite
    <3> QED
      BY <2>1, <2>2, <2>7, <3>1
  <2> QED
    BY <2>6, <2>8
<1> QED
  BY <1>5, <1>6 DEF Told


-----------------------------------------------------------------------------
(* AgentLoop, action by action. *)

\* The ids of a response's calls.
LEMMA IdsFacts ==
  ASSUME NEW n \in Nat, turns \in Nat, iter \in Nat
  PROVE  /\ Ids(n) \in Seq(CallIds) /\ Len(Ids(n)) = n /\ \A i \in 1 .. n : Ids(n)[i] = <<turns, iter, i>>
         /\ n > 0 => Ids(n) # <<>>
<1>1. \A i \in 1 .. n : <<turns, iter, i>> \in CallIds
  BY DEF CallIds
<1>2. Ids(n) \in [1 .. n -> CallIds] /\ \A i \in 1 .. n : Ids(n)[i] = <<turns, iter, i>>
  BY <1>1 DEF Ids
<1>3. Ids(n) \in Seq(CallIds)
  BY <1>2, SeqDef
<1>4. DOMAIN Ids(n) = 1 .. n /\ DOMAIN Ids(n) = 1 .. Len(Ids(n)) /\ Len(Ids(n)) \in Nat
  BY <1>2, <1>3, LenProperties
<1>5. Len(Ids(n)) = n
  BY <1>4
<1>6. n > 0 => Ids(n) # <<>>
  BY <1>5
<1> QED
  BY <1>2, <1>3, <1>5, <1>6

\* The counters of a turn start at zero.
LEMMA ZeroCounters == Zero \in [Keys -> 0 .. MaxFailures] /\ Zero \in [Keys -> Nat] /\ \A k \in Keys : Zero[k] = 0
BY LoopAssumption DEF Zero

\* A turn is over, with the history it leaves.
LEMMA EndTurnStep ==
  ASSUME EndTurn, history' \in Seq(Messages), Rounds(history'), Settled(history'), Told(history', turns'),
         turns' \in 0 .. MaxTurns, memory' \subseteq 0 .. MaxTurns, enabled' \in {"on", "off"}
  PROVE  LoopSafe'
<1>1. /\ pc' = "idle" /\ messages' = <<>> /\ iter' = 0 /\ calls' = <<>> /\ results' = <<>>
      /\ fails' = Zero /\ plan' = <<>> /\ listed' = 0 /\ answer' = "none"
      /\ tries' = Zero /\ unaudited' = Zero /\ created' = 0
  BY DEF EndTurn
<1>2. /\ messages' \in Seq(Messages) /\ calls' \in Seq(Names) /\ results' \in Seq(CallIds) /\ plan' \in Seq(PlanStatus)
      /\ Len(results') = 0
  BY <1>1
<1>3. LoopShape'
  <2>1. 0 \in 0 .. MaxIterations
    BY LoopAssumption
  <2> QED
    BY <1>1, <1>2, <2>1 DEF LoopShape
<1>4. CountersOK'
  <2>1. 0 \in Nat /\ 0 <= 0
    OBVIOUS
  <2> QED
    BY <1>1, <2>1, ZeroCounters DEF CountersOK
<1>5. CallsOK'
  BY <1>1, <1>2 DEF CallsOK
<1>6. TalkOK'
  BY <1>1 DEF TalkOK
<1> QED
  BY <1>3, <1>4, <1>5, <1>6 DEF LoopSafe

\* Nothing was said yet.
LEMMA LoopStarts ==
  ASSUME LoopInit
  PROVE  LoopSafe
<1>1. /\ history = <<>> /\ messages = <<>> /\ pc = "idle" /\ iter = 0
      /\ calls = <<>> /\ results = <<>> /\ fails = Zero /\ plan = <<>> /\ listed = 0
      /\ answer = "none" /\ enabled = "on" /\ turns = 0
      /\ tries = Zero /\ unaudited = Zero /\ created = 0 /\ memory = {}
  BY DEF LoopInit
<1>2. /\ messages \in Seq(Messages) /\ calls \in Seq(Names) /\ results \in Seq(CallIds) /\ plan \in Seq(PlanStatus)
      /\ history \in Seq(Messages) /\ Len(results) = 0 /\ Len(history) = 0
  BY <1>1
<1>3. LoopShape
  <2>1. 0 \in 0 .. MaxIterations /\ 0 \in 0 .. MaxTurns
    BY LoopAssumption
  <2> QED
    BY <1>1, <1>2, <2>1 DEF LoopShape
<1>4. CountersOK
  <2>1. 0 \in Nat /\ 0 <= 0
    OBVIOUS
  <2> QED
    BY <1>1, <2>1, ZeroCounters DEF CountersOK
<1>5. CallsOK
  BY <1>1, <1>2 DEF CallsOK
<1>6. Rounds(history) /\ Settled(history)
  BY <1>1, <1>2 DEF Rounds, Settled
<1>7. Told(history, turns)
  <2>1. Transcript(history) = {} /\ 0 .. turns - 1 = {}
    BY <1>1 DEF Transcript
  <2> QED
    BY <2>1 DEF Told
<1>8. TalkOK
  BY <1>1, <1>6, <1>7 DEF TalkOK
<1> QED
  BY <1>3, <1>4, <1>5, <1>8 DEF LoopSafe

\* The numbers in a call's id.
LEMMA NumbersOfTurn ==
  ASSUME LoopSafe
  PROVE  turns \in Nat /\ iter \in Nat
<1>1. turns \in 0 .. MaxTurns /\ iter \in 0 .. MaxIterations
  BY DEF LoopSafe, LoopShape
<1> QED
  BY <1>1, LoopAssumption

\* A turn begins with the objective.
LEMMA RunTurnStep ==
  ASSUME LoopSafe, RunTurn
  PROVE  LoopSafe'
<1> PICK m : m = Text("user", {turns})
  OBVIOUS
<1>1. /\ pc = "idle" /\ turns < MaxTurns /\ messages' = Append(history, m) /\ pc' = "model" /\ iter' = 1
      /\ UNCHANGED <<history, calls, results, fails, plan, listed, answer, enabled, turns, tries, unaudited, created, memory>>
  BY DEF RunTurn
<1>2. history \in Seq(Messages) /\ turns \in Nat /\ Rounds(history) /\ Settled(history) /\ Told(history, turns)
  <2>1. history \in Seq(Messages)
    BY DEF LoopSafe, LoopShape
  <2>2. Rounds(history) /\ Settled(history) /\ Told(history, turns)
    BY DEF LoopSafe, TalkOK
  <2> QED
    BY <2>1, <2>2, NumbersOfTurn
<1>3. m \in Messages /\ Plain(m) /\ m.role = "user" /\ m.of = {turns}
  <2>1. {turns} \in SUBSET Nat
    BY <1>2
  <2> QED
    BY <2>1, TextIsPlain
<1>4. m.text /\ ~Answers(m) /\ ~Asks(m)
  BY <1>3 DEF Plain, Answers, Asks
<1>5. Told(messages', turns + 1)
  BY <1>1, <1>2, <1>3, <1>4, ToldNext
<1>6. Rounds(messages') /\ Settled(messages')
  BY <1>1, <1>2, <1>3, <1>4, RoundsAfter DEF Settled
<1>7. messages' \in Seq(Messages) /\ messages' # <<>>
  BY <1>1, <1>2, <1>3, OneMore
<1>8. LoopShape'
  <2>1. 1 \in 0 .. MaxIterations
    BY LoopAssumption
  <2> QED
    BY <1>1, <1>7, <2>1 DEF LoopSafe, LoopShape
<1>9. CountersOK'
  BY <1>1 DEF LoopSafe, CountersOK
<1>10. CallsOK'
  <2>1. results = <<>> /\ Len(results) = 0
    BY <1>1 DEF LoopSafe, CallsOK
  <2> QED
    BY <1>1, <2>1 DEF LoopSafe, CallsOK
<1>11. TalkOK'
  BY <1>1, <1>2, <1>5, <1>6, <1>7 DEF TalkOK
<1> QED
  BY <1>8, <1>9, <1>10, <1>11 DEF LoopSafe

\* The model answers.
LEMMA ModelAnswersStep ==
  ASSUME LoopSafe, ModelAnswers
  PROVE  LoopSafe'
<1>0. PICK stop \in {"end_turn", "max_tokens", "refusal", "tool_use"}, content \in {"text", "empty"} :
        answer' = ResolveFinalResponseText(stop, content)
  BY DEF ModelAnswers
<1>a. ResolveFinalResponseText(stop, content) \in {"out of space", "cut", "text"}
  BY DEF ResolveFinalResponseText
<1>1. /\ pc = "model" /\ pc' = "final" /\ answer' \in {"out of space", "cut", "text"}
      /\ UNCHANGED <<history, messages, iter, calls, results, fails, plan, listed, enabled, turns, tries, unaudited, created, memory>>
  BY <1>0, <1>a DEF ModelAnswers
<1>2. LoopShape'
  BY <1>1 DEF LoopSafe, LoopShape
<1>3. CountersOK'
  BY <1>1 DEF LoopSafe, CountersOK
<1>4. CallsOK'
  BY <1>1 DEF LoopSafe, CallsOK
<1>5. TalkOK'
  BY <1>1 DEF LoopSafe, TalkOK
<1> QED
  BY <1>2, <1>3, <1>4, <1>5 DEF LoopSafe

\* The feature flags change.
LEMMA ToggleStep ==
  ASSUME LoopSafe, Toggle
  PROVE  LoopSafe'
<1>1. /\ enabled' \in {"on", "off"} /\ UNCHANGED <<history, messages, pc, iter, calls, results, fails, plan, listed, answer>>
      /\ UNCHANGED <<turns, tries, unaudited, created, memory>>
  BY DEF Toggle, turnVars
<1>2. LoopShape'
  BY <1>1 DEF LoopSafe, LoopShape
<1>3. CountersOK'
  BY <1>1 DEF LoopSafe, CountersOK
<1>4. CallsOK'
  BY <1>1 DEF LoopSafe, CallsOK, Ids
<1>5. TalkOK'
  BY <1>1 DEF LoopSafe, TalkOK
<1> QED
  BY <1>2, <1>3, <1>4, <1>5 DEF LoopSafe


\* The model asks for tools.
LEMMA ModelCallsToolsStep ==
  ASSUME LoopSafe, ModelCallsTools
  PROVE  LoopSafe'
<1>1. PICK n \in 1 .. MaxCalls : \E s \in [1 .. n -> Names] :
        calls' = s /\ messages' = Append(messages, Blocks("assistant", Ids(n), <<>>))
  BY DEF ModelCallsTools
<1>2. /\ pc = "model" /\ results' = <<>> /\ pc' = "calls"
      /\ UNCHANGED <<history, iter, fails, plan, listed, answer, enabled, turns, tries, unaudited, created, memory>>
  BY DEF ModelCallsTools
<1> PICK m : m = Blocks("assistant", Ids(n), <<>>)
  OBVIOUS
<1>3. n \in Nat /\ n > 0 /\ turns \in Nat /\ iter \in Nat
  BY LoopAssumption, NumbersOfTurn
<1>4. Ids(n) \in Seq(CallIds) /\ Ids(n) # <<>>
  BY <1>3, IdsFacts
<1>5. m \in Messages /\ Asks(m) /\ m.uses = Ids(n) /\ m.of = {}
  BY <1>4, BlocksAsk
<1>6. ~(m.role = "user" /\ m.text) /\ ~Answers(m) /\ ~Plain(m)
  BY <1>5 DEF Asks, Answers, Plain
<1>7. messages \in Seq(Messages)
  BY DEF LoopSafe, LoopShape
<1>8. messages # <<>> /\ Rounds(messages) /\ Told(messages, turns + 1) /\ Settled(messages)
  BY <1>2 DEF LoopSafe, TalkOK
<1>9. /\ messages' = Append(messages, m) /\ messages' \in Seq(Messages) /\ messages' # <<>>
      /\ messages'[Len(messages')] = m
  <2>1. messages' = Append(messages, m)
    BY <1>1
  <2> QED
    BY <1>5, <1>7, <2>1, OneMore
<1>10. Rounds(messages')
  BY <1>5, <1>6, <1>7, <1>8, <1>9, RoundsAfter DEF Settled
<1>11. Told(messages', turns + 1)
  <2>1. turns + 1 \in Nat /\ m.of \subseteq 0 .. (turns + 1) - 1
    BY <1>3, <1>5
  <2> QED
    BY <1>5, <1>6, <1>7, <1>8, <1>9, <2>1, ToldAfter
<1>12. calls' \in Seq(Names) /\ Len(calls') = n
  <2>1. calls' \in [1 .. n -> Names]
    BY <1>1
  <2>2. calls' \in Seq(Names)
    BY <1>3, <2>1, SeqDef
  <2>3. DOMAIN calls' = 1 .. n /\ DOMAIN calls' = 1 .. Len(calls') /\ Len(calls') \in Nat
    BY <2>1, <2>2, LenProperties
  <2> QED
    BY <1>3, <2>2, <2>3
<1>13. LoopShape'
  BY <1>2, <1>9 DEF LoopSafe, LoopShape
<1>14. CountersOK'
  BY <1>2 DEF LoopSafe, CountersOK
<1>15. CallsOK'
  <2>1. results' \in Seq(CallIds) /\ Len(results') = 0 /\ Len(results') + Len(calls') = n
    BY <1>2, <1>3, <1>12
  <2>2. messages'[Len(messages')].uses = Ids(Len(results') + Len(calls'))
    BY <1>5, <1>9, <2>1
  <2>3. \A k : Ids(k)' = Ids(k)
    BY <1>2 DEF Ids
  <2> QED
    BY <1>2, <1>5, <1>9, <1>12, <2>1, <2>2, <2>3 DEF CallsOK
<1>16. TalkOK'
  BY <1>2, <1>9, <1>10, <1>11 DEF LoopSafe, TalkOK
<1> QED
  BY <1>13, <1>14, <1>15, <1>16 DEF LoopSafe

\* A call is answered, whatever came of it: its result has its id.
LEMMA AnsweredStep ==
  ASSUME LoopSafe, pc = "calls", calls # <<>>, Answered, plan' \in Seq(PlanStatus), CountersOK'
  PROVE  LoopSafe'
<1> PICK x : x = <<turns, iter, Len(results) + 1>>
  OBVIOUS
<1>1. /\ results' = Append(results, x) /\ calls' = Tail(calls)
      /\ UNCHANGED <<history, messages, pc, iter, answer, enabled, turns, memory>>
  BY DEF Answered
<1>2. /\ calls \in Seq(Names) /\ results \in Seq(CallIds) /\ (\A i \in 1 .. Len(results) : results[i] = <<turns, iter, i>>)
      /\ messages # <<>> /\ Asks(messages[Len(messages)])
      /\ messages[Len(messages)].uses = Ids(Len(results) + Len(calls))
  BY DEF LoopSafe, CallsOK
<1>3. Len(results) \in Nat /\ turns \in Nat /\ iter \in Nat
  BY <1>2, NumbersOfTurn
<1>4. x \in CallIds
  BY <1>3 DEF CallIds
<1>5. results' \in Seq(CallIds) /\ Len(results') = Len(results) + 1
      /\ results'[Len(results) + 1] = x /\ \A i \in 1 .. Len(results) : results'[i] = results[i]
  BY <1>1, <1>2, <1>4, OneMore
<1>6. calls' \in Seq(Names) /\ Len(calls') = Len(calls) - 1 /\ Len(calls) \in Nat
  BY <1>1, <1>2
<1>7. \A i \in 1 .. Len(results') : results'[i] = <<turns, iter, i>>
  <2> SUFFICES ASSUME NEW i \in 1 .. Len(results) + 1 PROVE results'[i] = <<turns, iter, i>>
    BY <1>5
  <2>1. CASE i = Len(results) + 1
    BY <1>5, <2>1
  <2>2. CASE i \in 1 .. Len(results)
    BY <1>2, <1>5, <2>2
  <2> QED
    BY <1>3, <2>1, <2>2
<1>8. Len(results') + Len(calls') = Len(results) + Len(calls)
  BY <1>3, <1>5, <1>6
<1>9. \A k : Ids(k)' = Ids(k)
  BY <1>1 DEF Ids
<1>10. LoopShape'
  BY <1>1 DEF LoopSafe, LoopShape
<1>11. CallsOK'
  BY <1>1, <1>2, <1>5, <1>6, <1>7, <1>8, <1>9 DEF CallsOK
<1>12. TalkOK'
  BY <1>1 DEF LoopSafe, TalkOK
<1> QED
  BY <1>10, <1>11, <1>12 DEF LoopSafe

\* All results in one message: the next round, or the end of the turn.
LEMMA PushResultsStep ==
  ASSUME LoopSafe, PushResults
  PROVE  LoopSafe'
<1> PICK m : m = Blocks("user", <<>>, results)
  OBVIOUS
<1>1. /\ pc = "calls" /\ calls = <<>> /\ messages' = Append(messages, m) /\ results' = <<>>
      /\ UNCHANGED <<history, calls, fails, plan, listed, enabled, turns, tries, unaudited, created, memory>>
      /\ \/ iter < MaxIterations /\ iter' = iter + 1 /\ pc' = "model" /\ answer' = answer
         \/ ~ iter < MaxIterations /\ iter' = iter /\ pc' = "final" /\ answer' = "limit"
  BY DEF PushResults
<1>2. /\ results \in Seq(CallIds) /\ (\A i \in 1 .. Len(results) : results[i] = <<turns, iter, i>>)
      /\ messages # <<>> /\ Asks(messages[Len(messages)])
      /\ messages[Len(messages)].uses = Ids(Len(results) + Len(calls))
  BY <1>1 DEF LoopSafe, CallsOK
<1>3. turns \in Nat /\ iter \in Nat /\ Len(results) \in Nat /\ Len(results) + Len(calls) = Len(results)
  BY <1>1, <1>2, NumbersOfTurn
<1>4. results = messages[Len(messages)].uses
  <2>1. /\ Ids(Len(results)) \in Seq(CallIds) /\ Len(Ids(Len(results))) = Len(results)
        /\ \A i \in 1 .. Len(results) : Ids(Len(results))[i] = <<turns, iter, i>>
    BY <1>3, IdsFacts
  <2>2. \A i \in 1 .. Len(results) : results[i] = Ids(Len(results))[i]
    BY <1>2, <2>1
  <2>3. results = Ids(Len(results))
    BY <1>2, <2>1, <2>2, SeqEqual
  <2> QED
    BY <1>2, <1>3, <2>3
<1>5. results # <<>>
  BY <1>2, <1>4 DEF Asks
<1>6. m \in Messages /\ Answers(m) /\ m.results = results /\ m.of = {} /\ m.uses = <<>>
  BY <1>2, <1>5, BlocksAsk
<1>7. ~(m.role = "user" /\ m.text) /\ ~Asks(m)
  BY <1>6 DEF Asks, Answers
<1>8. messages \in Seq(Messages)
  BY DEF LoopSafe, LoopShape
<1>9. Rounds(messages) /\ Told(messages, turns + 1)
  BY <1>1 DEF LoopSafe, TalkOK
<1>10. messages' \in Seq(Messages) /\ messages' # <<>>
  BY <1>1, <1>6, <1>8, OneMore
<1>11. Rounds(messages') /\ Settled(messages')
  BY <1>1, <1>2, <1>4, <1>6, <1>7, <1>8, <1>9, RoundsAfter
<1>12. Told(messages', turns + 1)
  <2>1. turns + 1 \in Nat /\ m.of \subseteq 0 .. (turns + 1) - 1
    BY <1>3, <1>6
  <2> QED
    BY <1>1, <1>6, <1>7, <1>8, <1>9, <2>1, ToldAfter
<1>13. LoopShape'
  <2>1. iter' \in 0 .. MaxIterations
    <3>1. iter \in 0 .. MaxIterations
      BY DEF LoopSafe, LoopShape
    <3> QED
      BY <1>1, <3>1, LoopAssumption
  <2> QED
    BY <1>1, <1>10, <2>1 DEF LoopSafe, LoopShape
<1>14. CountersOK'
  BY <1>1 DEF LoopSafe, CountersOK
<1>15. CallsOK'
  <2>1. results' \in Seq(CallIds) /\ Len(results') = 0 /\ pc' # "calls"
    BY <1>1
  <2> QED
    BY <1>1, <2>1 DEF LoopSafe, CallsOK
<1>16. TalkOK'
  BY <1>1, <1>10, <1>11, <1>12 DEF LoopSafe, TalkOK
<1> QED
  BY <1>13, <1>14, <1>15, <1>16 DEF LoopSafe


\* The plan's own calls: the plan stays one.
LEMMA HandlePlanCallStep ==
  ASSUME LoopSafe, HandlePlanCall
  PROVE  LoopSafe'
<1>1. /\ pc = "calls" /\ calls # <<>> /\ Answered /\ UNCHANGED <<fails, listed, tries, unaudited, created>>
      /\ CASE Head(calls) = "declarePlan" -> plan' = DeclarePlan(1)
           [] Head(calls) = "badPlan"     -> plan' = <<>>
           [] OTHER -> \E i \in 1 .. 2, s \in PlanStatus : plan' = UpdatePlanStep(plan, i, s)
  BY DEF HandlePlanCall
<1>2. plan \in Seq(PlanStatus)
  BY DEF LoopSafe, LoopShape
<1>3. DeclarePlan(1) \in Seq(PlanStatus)
  <2>1. DeclarePlan(1) \in [1 .. 1 -> PlanStatus] /\ 1 \in Nat
    BY DEF DeclarePlan, PlanStatus
  <2> QED
    BY <2>1, SeqDef
<1>4. ASSUME NEW i \in 1 .. 2, NEW s \in PlanStatus PROVE UpdatePlanStep(plan, i, s) \in Seq(PlanStatus)
  <2>1. CASE i \in DOMAIN plan
    <3>1. i \in 1 .. Len(plan)
      BY <1>2, <2>1
    <3>2. [plan EXCEPT ![i] = s] \in Seq(PlanStatus)
      BY <1>2, <3>1, ExceptSeq
    <3> QED
      BY <2>1, <3>2 DEF UpdatePlanStep
  <2>2. CASE i \notin DOMAIN plan
    BY <1>2, <2>2 DEF UpdatePlanStep
  <2> QED
    BY <2>1, <2>2
<1>5. plan' \in Seq(PlanStatus)
  <2>1. <<>> \in Seq(PlanStatus)
    OBVIOUS
  <2>2. \/ plan' = DeclarePlan(1) \/ plan' = <<>>
        \/ \E i \in 1 .. 2, s \in PlanStatus : plan' = UpdatePlanStep(plan, i, s)
    BY <1>1
  <2> QED
    BY <1>3, <1>4, <2>1, <2>2
<1>6. CountersOK'
  BY <1>1 DEF LoopSafe, CountersOK
<1> QED
  BY <1>1, <1>5, <1>6, AnsweredStep

\* A call is refused: the integration is off, or it failed too often.
LEMMA RefuseCallStep ==
  ASSUME LoopSafe, RefuseCall
  PROVE  LoopSafe'
<1>1. pc = "calls" /\ calls # <<>> /\ Answered /\ UNCHANGED <<fails, plan, listed, tries, unaudited, created>>
  BY DEF RefuseCall, Real
<1>2. plan' \in Seq(PlanStatus)
  BY <1>1 DEF LoopSafe, LoopShape
<1>3. CountersOK'
  BY <1>1 DEF LoopSafe, CountersOK
<1> QED
  BY <1>1, <1>2, <1>3, AnsweredStep

\* A call that is attempted is a key, below its cap.
LEMMA AttemptFacts ==
  ASSUME LoopSafe, Attempt
  PROVE  /\ pc = "calls" /\ calls # <<>> /\ Key \in Keys /\ fails[Key] \in Nat /\ fails[Key] < MaxFailures
         /\ plan \in Seq(PlanStatus)
<1>1. pc = "calls" /\ calls # <<>> /\ Head(calls) \notin PlanCalls /\ fails[Key] < MaxFailures
  BY DEF Attempt, Real
<1>2. calls \in Seq(Names) /\ fails \in [Keys -> 0 .. MaxFailures] /\ plan \in Seq(PlanStatus)
  BY DEF LoopSafe, LoopShape, CallsOK, CountersOK
<1>3. Head(calls) \in Names
  BY <1>1, <1>2, HeadTailProperties
<1>4. Key \in Keys
  BY <1>1, <1>3 DEF Names, Key
<1>5. fails[Key] \in 0 .. MaxFailures
  BY <1>2, <1>4
<1> QED
  BY <1>1, <1>2, <1>4, <1>5, LoopAssumption

\* A failed attempt: the key has one failure more.
LEMMA FailedAttempt ==
  ASSUME LoopSafe, NEW k \in Keys, fails[k] \in Nat, fails[k] < MaxFailures,
         fails' = [fails EXCEPT ![k] = @ + 1], tries' = [tries EXCEPT ![k] = @ + 1],
         unaudited' = unaudited \/ unaudited' = [unaudited EXCEPT ![k] = @ + 1], UNCHANGED <<listed, created>>
  PROVE  CountersOK'
<1>1. /\ fails \in [Keys -> 0 .. MaxFailures] /\ tries = fails /\ unaudited \in [Keys -> Nat]
      /\ (\A q \in Keys : unaudited[q] <= fails[q]) /\ listed \in Nat /\ created = listed /\ MaxFailures \in Nat
  BY LoopAssumption DEF LoopSafe, CountersOK
<1>2. fails' \in [Keys -> 0 .. MaxFailures] /\ tries' = fails' /\ fails'[k] = fails[k] + 1 /\ \A q \in Keys : q # k => fails'[q] = fails[q]
  BY <1>1
<1>3. /\ unaudited' \in [Keys -> Nat] /\ unaudited'[k] <= unaudited[k] + 1
      /\ \A q \in Keys : q # k => unaudited'[q] = unaudited[q]
  BY <1>1
<1>4. ASSUME NEW q \in Keys PROVE unaudited'[q] <= fails'[q]
  <2>1. CASE q = k
    <3>1. unaudited[k] \in Nat /\ unaudited[k] <= fails[k] /\ unaudited'[k] \in Nat
      BY <1>1, <1>3
    <3> QED
      BY <1>2, <1>3, <2>1, <3>1
  <2>2. CASE q # k
    BY <1>1, <1>2, <1>3, <2>2
  <2> QED
    BY <2>1, <2>2
<1> QED
  BY <1>1, <1>2, <1>3, <1>4 DEF CountersOK

\* An attempt that worked, or was deferred: the key starts again.
LEMMA ResetAttempt ==
  ASSUME LoopSafe, NEW k \in Keys,
         fails' = [fails EXCEPT ![k] = 0], tries' = [tries EXCEPT ![k] = 0], unaudited' = [unaudited EXCEPT ![k] = 0],
         \/ UNCHANGED <<listed, created>>
         \/ listed' = listed + 1 /\ created' = created + 1
  PROVE  CountersOK'
<1>1. /\ fails \in [Keys -> 0 .. MaxFailures] /\ tries = fails /\ unaudited \in [Keys -> Nat]
      /\ (\A q \in Keys : unaudited[q] <= fails[q]) /\ listed \in Nat /\ created = listed /\ MaxFailures \in Nat
  BY LoopAssumption DEF LoopSafe, CountersOK
<1>2. fails' \in [Keys -> 0 .. MaxFailures] /\ tries' = fails' /\ fails'[k] = 0 /\ \A q \in Keys : q # k => fails'[q] = fails[q]
  BY <1>1
<1>3. unaudited' \in [Keys -> Nat] /\ unaudited'[k] = 0 /\ \A q \in Keys : q # k => unaudited'[q] = unaudited[q]
  BY <1>1
<1>4. \A q \in Keys : unaudited'[q] <= fails'[q]
  BY <1>1, <1>2, <1>3
<1>5. listed' \in Nat /\ created' = listed'
  BY <1>1
<1> QED
  BY <1>2, <1>3, <1>4, <1>5 DEF CountersOK

\* Every outcome of an attempted call.
LEMMA AttemptStep ==
  ASSUME LoopSafe, CallFails \/ DeferFails \/ Defer \/ Execute \/ ExecuteUnaudited
  PROVE  LoopSafe'
<1> HIDE DEF LoopSafe
<1>1. Attempt /\ Answered /\ plan' = plan
  BY DEF CallFails, DeferFails, Defer, Execute, ExecuteUnaudited
<1>2. /\ pc = "calls" /\ calls # <<>> /\ Key \in Keys /\ fails[Key] \in Nat /\ fails[Key] < MaxFailures
      /\ plan \in Seq(PlanStatus)
  BY <1>1, AttemptFacts
<1> PICK k : k = Key
  OBVIOUS
<1>3. CASE CallFails \/ DeferFails \/ ExecuteUnaudited
  <2>1. /\ fails' = [fails EXCEPT ![k] = @ + 1] /\ tries' = [tries EXCEPT ![k] = @ + 1]
        /\ unaudited' = unaudited \/ unaudited' = [unaudited EXCEPT ![k] = @ + 1]
        /\ UNCHANGED <<listed, created>>
    BY <1>3 DEF CallFails, DeferFails, ExecuteUnaudited, Caught
  <2>2. CountersOK'
    BY <1>2, <2>1, FailedAttempt
  <2> QED
    BY <1>1, <1>2, <2>2, AnsweredStep
<1>4. CASE Defer \/ Execute
  <2>1. /\ fails' = [fails EXCEPT ![k] = 0] /\ tries' = [tries EXCEPT ![k] = 0] /\ unaudited' = [unaudited EXCEPT ![k] = 0]
        /\ UNCHANGED <<listed, created>> \/ (listed' = listed + 1 /\ created' = created + 1)
    BY <1>4 DEF Defer, Execute
  <2>2. CountersOK'
    BY <1>2, <2>1, ResetAttempt
  <2> QED
    BY <1>1, <1>2, <2>2, AnsweredStep
<1> QED
  BY <1>3, <1>4

\* The turn is lost: the model failed, or the process died.
LEMMA TurnLostStep ==
  ASSUME LoopSafe, ModelFails \/ LoopCrash
  PROVE  LoopSafe'
<1>1. EndTurn /\ history' = history /\ enabled' = enabled /\ turns' = turns /\ memory' = memory
  BY DEF ModelFails, LoopCrash
<1>2. history \in Seq(Messages) /\ turns \in 0 .. MaxTurns /\ memory \subseteq 0 .. MaxTurns /\ enabled \in {"on", "off"}
  BY DEF LoopSafe, LoopShape
<1>3. Rounds(history) /\ Settled(history) /\ Told(history, turns)
  BY DEF LoopSafe, TalkOK
<1> HIDE DEF LoopSafe
<1> QED
  BY <1>1, <1>2, <1>3, EndTurnStep

\* The answer at the end of a conversation that tells of its turn.
LEMMA AnswerAfter ==
  ASSUME NEW ms \in Seq(Messages), ms # <<>>, NEW n \in Nat, Rounds(ms), Settled(ms), Told(ms, n + 1),
         NEW m, m = Text("assistant", {n})
  PROVE  /\ Append(ms, m) \in Seq(Messages) /\ Rounds(Append(ms, m)) /\ Settled(Append(ms, m))
         /\ Told(Append(ms, m), n + 1)
<1>1. m \in Messages /\ Plain(m) /\ m.role = "assistant" /\ m.of = {n}
  <2>1. {n} \in SUBSET Nat
    OBVIOUS
  <2> QED
    BY <2>1, TextIsPlain
<1>2. ~(m.role = "user" /\ m.text) /\ ~Answers(m) /\ ~Asks(m)
  BY <1>1 DEF Plain, Answers, Asks
<1>3. n + 1 \in Nat /\ m.of \subseteq 0 .. (n + 1) - 1
  <2>1. n + 1 \in Nat /\ n \in 0 .. (n + 1) - 1
    OBVIOUS
  <2> QED
    BY <1>1, <2>1
<1>4. Append(ms, m) \in Seq(Messages)
  BY <1>1, OneMore
<1>5. Rounds(Append(ms, m)) /\ Settled(Append(ms, m))
  <2>1. ms[Len(ms)].uses = <<>>
    BY DEF Settled
  <2> QED
    BY <1>1, <1>2, <2>1, RoundsAfter
<1>6. Told(Append(ms, m), n + 1)
  BY <1>1, <1>2, <1>3, ToldAfter
<1> QED
  BY <1>4, <1>5, <1>6


\* A message at the end, written as a concatenation.
LEMMA ConcatOne ==
  ASSUME NEW S, NEW s \in Seq(S), NEW x \in S, NEW y \in S
  PROVE  s \o <<x>> = Append(s, x) /\ s \o <<x, y>> = Append(Append(s, x), y)
<1>1. s \o <<x>> = Append(s, x)
  OBVIOUS
<1> PICK p : p = <<x, y>>
  OBVIOUS
<1> PICK q : q = Append(s, x)
  OBVIOUS
<1>2. p \in Seq(S) /\ Len(p) = 2 /\ p[1] = x /\ p[2] = y
  OBVIOUS
<1>3. q \in Seq(S) /\ Len(q) = Len(s) + 1 /\ q[Len(s) + 1] = x /\ (\A i \in 1 .. Len(s) : q[i] = s[i]) /\ Len(s) \in Nat
  BY OneMore
<1>4. /\ Append(q, y) \in Seq(S) /\ Len(Append(q, y)) = Len(q) + 1 /\ Append(q, y)[Len(q) + 1] = y
      /\ \A i \in 1 .. Len(q) : Append(q, y)[i] = q[i]
  BY <1>3, OneMore
<1>5. /\ s \o p \in Seq(S) /\ Len(s \o p) = Len(s) + Len(p)
      /\ \A i \in 1 .. Len(s) + Len(p) : (s \o p)[i] = IF i <= Len(s) THEN s[i] ELSE p[i - Len(s)]
  BY <1>2, ConcatProperties
<1>6. ASSUME NEW i \in 1 .. Len(s) + 2 PROVE (s \o p)[i] = Append(q, y)[i]
  <2>0. (s \o p)[i] = IF i <= Len(s) THEN s[i] ELSE p[i - Len(s)]
    BY <1>2, <1>5
  <2>1. CASE i \in 1 .. Len(s)
    <3>1. i <= Len(s) /\ i \in 1 .. Len(q)
      BY <1>3, <2>1
    <3> QED
      BY <1>3, <1>4, <2>0, <2>1, <3>1
  <2>2. CASE i = Len(s) + 1
    <3>1. ~ i <= Len(s) /\ i - Len(s) = 1 /\ i \in 1 .. Len(q)
      BY <1>3, <2>2
    <3> QED
      BY <1>2, <1>3, <1>4, <2>0, <2>2, <3>1
  <2>3. CASE i = Len(s) + 2
    <3>1. ~ i <= Len(s) /\ i - Len(s) = 2 /\ i = Len(q) + 1
      BY <1>3, <2>3
    <3> QED
      BY <1>2, <1>4, <2>0, <3>1
  <2> QED
    BY <1>3, <2>1, <2>2, <2>3
<1>7. Len(s \o p) = Len(s) + 2 /\ Len(Append(q, y)) = Len(s) + 2
  BY <1>2, <1>3, <1>4, <1>5
<1>8. s \o p = Append(q, y)
  BY <1>4, <1>5, <1>6, <1>7, SeqEqual
<1> QED
  BY <1>1, <1>8

\* The turn is answered, and the client adds it to its history.
LEMMA FinalizeTurnStep ==
  ASSUME LoopSafe, FinalizeTurn
  PROVE  LoopSafe'
<1> PICK u : u = Text("user", {turns})
  OBVIOUS
<1> PICK a : a = Text("assistant", {turns})
  OBVIOUS
<1>1. /\ pc = "final" /\ history' = history \o <<u, a>> /\ turns' = turns + 1 /\ EndTurn
      /\ enabled' = enabled /\ memory' = memory
  BY DEF FinalizeTurn
<1>2. /\ history \in Seq(Messages) /\ turns \in 0 .. MaxTurns /\ turns < MaxTurns /\ memory \subseteq 0 .. MaxTurns
      /\ enabled \in {"on", "off"}
  BY <1>1 DEF LoopSafe, LoopShape
<1>3. Rounds(history) /\ Settled(history) /\ Told(history, turns)
  BY DEF LoopSafe, TalkOK
<1>4. turns \in Nat /\ turns' \in 0 .. MaxTurns
  BY <1>1, <1>2, LoopAssumption
<1>5. u \in Messages /\ Plain(u) /\ u.role = "user" /\ u.of = {turns} /\ a \in Messages
  <2>1. {turns} \in SUBSET Nat
    BY <1>4
  <2> QED
    BY <2>1, TextIsPlain
<1>6. u.text /\ ~Answers(u) /\ ~Asks(u)
  BY <1>5 DEF Plain, Answers, Asks
<1> PICK h : h = Append(history, u)
  OBVIOUS
<1>7. h \in Seq(Messages) /\ h # <<>>
  BY <1>2, <1>5, OneMore
<1>8. Rounds(h) /\ Settled(h)
  BY <1>2, <1>3, <1>5, <1>6, RoundsAfter DEF Settled
<1>9. Told(h, turns + 1)
  BY <1>2, <1>3, <1>4, <1>5, <1>6, ToldNext
<1>10. history' = Append(h, a)
  <2>1. history \in Seq(Messages) /\ u \in Messages /\ a \in Messages
    BY <1>2, <1>5
  <2>e. ASSUME NEW s \in Seq(Messages), NEW x \in Messages, NEW y \in Messages PROVE s \o <<x, y>> = Append(Append(s, x), y)
    BY ONLY ConcatOne, s \in Seq(Messages), x \in Messages, y \in Messages
  <2>2. history \o <<u, a>> = Append(Append(history, u), a)
    BY ONLY <2>1, <2>e
  <2>3. history' = history \o <<u, a>>
    BY <1>1
  <2> QED
    BY <2>2, <2>3
<1>11. history' \in Seq(Messages) /\ Rounds(history') /\ Settled(history') /\ Told(history', turns + 1)
  BY <1>4, <1>7, <1>8, <1>9, <1>10, AnswerAfter
<1> HIDE DEF LoopSafe
<1> QED
  BY <1>1, <1>2, <1>4, <1>11, EndTurnStep

\* The turn is answered, and the history compacted: the summary stands for what is before the cut.
LEMMA CompactHistoryStep ==
  ASSUME LoopSafe, CompactHistory
  PROVE  LoopSafe'
<1> PICK cut : cut = PlanHistoryCompaction(messages)
  OBVIOUS
<1> PICK old : old = SubSeq(messages, 1, cut - 1)
  OBVIOUS
<1> PICK summary : summary = Text("user", Transcript(old))
  OBVIOUS
<1> PICK a : a = Text("assistant", {turns})
  OBVIOUS
<1> PICK c : c = Compacted(summary, messages, cut)
  OBVIOUS
<1>1. /\ pc = "final" /\ cut > 1 /\ memory' \in {memory, memory \cup Transcript(old)}
      /\ turns' = turns + 1 /\ EndTurn /\ enabled' = enabled
  BY DEF CompactHistory
<1>2. history' = c \o <<a>>
  BY DEF CompactHistory, Compacted
<1>3. /\ messages \in Seq(Messages) /\ turns \in 0 .. MaxTurns /\ turns < MaxTurns /\ memory \subseteq 0 .. MaxTurns
      /\ enabled \in {"on", "off"}
  BY <1>1 DEF LoopSafe, LoopShape
<1>4. messages # <<>> /\ Rounds(messages) /\ Settled(messages) /\ Told(messages, turns + 1)
  BY <1>1 DEF LoopSafe, TalkOK
<1>5. turns \in Nat /\ turns' \in 0 .. MaxTurns /\ turns + 1 \in Nat /\ turns + 1 > 0
  BY <1>1, <1>3, LoopAssumption
<1>6. /\ cut \in FindTurnStartIndices(messages)
      /\ \A i \in FindTurnStartIndices(messages) : Cardinality(StartsFrom(messages, i)) <= PreserveLast => cut <= i
  BY <1>1, <1>3, <1>4, <1>5, CutFacts
<1>7. cut \in 1 .. Len(messages)
  BY <1>3, <1>6, StartsFinite
<1>8. Transcript(old) \subseteq 0 .. turns
  <2>1. Transcript(messages) = 0 .. (turns + 1) - 1
    BY <1>4 DEF Told
  <2>2. Len(messages) \in Nat /\ DOMAIN messages = 1 .. Len(messages) /\ \A i \in 1 .. cut - 1 : messages[i] \in Messages
    BY <1>3, <1>7
  <2>3. 1 \in Int /\ cut - 1 \in Int /\ cut - 1 - 1 + 1 = cut - 1 /\ 1 <= cut - 1
    BY <1>1, <1>7, <2>2
  <2>4. /\ old \in Seq(Messages) /\ Len(old) = IF 1 <= cut - 1 THEN cut - 1 - 1 + 1 ELSE 0
        /\ \A i \in 1 .. cut - 1 - 1 + 1 : old[i] = messages[1 + i - 1]
    BY <2>2, <2>3, SubSeqProperties
  <2>5. DOMAIN old = 1 .. cut - 1 /\ \A i \in 1 .. cut - 1 : old[i] = messages[i] /\ i \in DOMAIN messages
    <3>1. Len(old) = cut - 1
      BY <2>3, <2>4
    <3>2. DOMAIN old = 1 .. cut - 1
      BY <2>4, <3>1
    <3>3. ASSUME NEW i \in 1 .. cut - 1 PROVE old[i] = messages[i] /\ i \in DOMAIN messages
      <4>1. i \in 1 .. cut - 1 - 1 + 1 /\ 1 + i - 1 = i /\ i \in 1 .. Len(messages)
        BY <1>7, <2>2, <2>3
      <4> QED
        BY <2>2, <2>4, <4>1
    <3> QED
      BY <3>2, <3>3
  <2>6. ASSUME NEW x \in Transcript(old) PROVE x \in Transcript(messages)
    <3>1. PICK i \in 1 .. cut - 1 : x \in old[i].of
      BY <2>5, <2>6 DEF Transcript
    <3>2. i \in DOMAIN messages /\ x \in messages[i].of
      BY <2>5, <3>1
    <3> QED
      BY <3>2 DEF Transcript
  <2>7. (turns + 1) - 1 = turns
    BY <1>5
  <2> QED
    BY <2>1, <2>6, <2>7
<1>9. memory' \subseteq 0 .. MaxTurns /\ Transcript(old) \in SUBSET Nat
  <2>1. 0 .. turns \subseteq 0 .. MaxTurns /\ 0 .. turns \subseteq Nat
    BY <1>3, <1>5, LoopAssumption
  <2> QED
    BY <1>1, <1>3, <1>8, <2>1
<1>10. summary \in Messages /\ Plain(summary) /\ summary.role = "user" /\ summary.of = Transcript(old)
  BY <1>9, TextIsPlain
<1>11. c \in Seq(Messages) /\ c # <<>>
  <2>1. c \in Seq(Messages) /\ Len(c) = Len(messages) - cut + 2
    BY <1>3, <1>7, <1>10, CompactedFacts
  <2>2. Len(messages) \in Nat
    BY <1>3
  <2>3. Len(c) # 0
    BY <1>7, <2>1, <2>2
  <2> QED
    BY <2>1, <2>3
<1>12. Rounds(c) /\ Settled(c)
  BY <1>3, <1>4, <1>6, <1>10, RoundsCompacted
<1>13. Told(c, turns + 1)
  BY <1>3, <1>4, <1>5, <1>6, <1>10, ToldCompacted
<1>14. a \in Messages
  <2>1. {turns} \in SUBSET Nat
    BY <1>5
  <2> QED
    BY <2>1, TextIsPlain
<1>15. history' = Append(c, a)
  BY <1>2, <1>11, <1>14, ConcatOne
<1>16. history' \in Seq(Messages) /\ Rounds(history') /\ Settled(history') /\ Told(history', turns + 1)
  BY <1>5, <1>11, <1>12, <1>13, <1>15, AnswerAfter
<1> HIDE DEF LoopSafe
<1> QED
  BY <1>1, <1>3, <1>5, <1>9, <1>16, EndTurnStep

\* The inductive invariant of the agent loop.
THEOREM LoopSafety == LoopSpec => []LoopSafe
<1>1. LoopInit => LoopSafe
  BY LoopStarts
<1>2. LoopSafe /\ [LoopNext]_loopVars => LoopSafe'
  <2> SUFFICES ASSUME LoopSafe, [LoopNext]_loopVars PROVE LoopSafe'
    OBVIOUS
  <2>1. CASE UNCHANGED loopVars
    <3>1. /\ UNCHANGED <<history, messages, pc, iter, calls, results, fails, plan, listed, answer>>
          /\ UNCHANGED <<enabled, turns, tries, unaudited, created, memory>>
      BY <2>1 DEF loopVars, turnVars
    <3>2. LoopShape'
      BY <3>1 DEF LoopSafe, LoopShape
    <3>3. CountersOK' /\ CallsOK'
      BY <3>1 DEF LoopSafe, CountersOK, CallsOK, Ids
    <3>4. TalkOK'
      BY <3>1 DEF LoopSafe, TalkOK
    <3> QED
      BY <3>2, <3>3, <3>4 DEF LoopSafe
  <2>2. CASE RunTurn \/ ModelAnswers \/ ModelCallsTools \/ ModelFails \/ LoopCrash \/ Toggle
    BY <2>2, RunTurnStep, ModelAnswersStep, ModelCallsToolsStep, TurnLostStep, ToggleStep
  <2>3. CASE HandlePlanCall \/ RefuseCall \/ CallFails \/ DeferFails \/ Defer \/ Execute \/ ExecuteUnaudited
    BY <2>3, HandlePlanCallStep, RefuseCallStep, AttemptStep
  <2>4. CASE PushResults \/ FinalizeTurn \/ CompactHistory
    BY <2>4, PushResultsStep, FinalizeTurnStep, CompactHistoryStep
  <2> QED
    BY <2>1, <2>2, <2>3, <2>4 DEF LoopNext
<1> QED
  BY <1>1, <1>2, PTL DEF LoopSpec


-----------------------------------------------------------------------------
(* AgentLoop: what the invariant gives. *)

\* Compaction loses nobody: every answered turn is told by the history the client sends back, and
\* the last PreserveLast of them are there word by word (planHistoryCompaction, compact, finalizeTurn).
THEOREM TurnsAreRemembered == LoopSpec => []RecentTurnsVerbatim
<1>1. LoopSafe => RecentTurnsVerbatim
  <2> SUFFICES ASSUME LoopSafe PROVE RecentTurnsVerbatim
    OBVIOUS
  <2>1. Told(history, turns)
    BY DEF LoopSafe, TalkOK
  <2> QED
    BY <2>1 DEF Told, RecentTurnsVerbatim, FindTurnStartIndices
<1> QED
  BY <1>1, LoopSafety, PTL

\* Every call of a response has one result, in its place, or is still to be handled.
LEMMA ResultsInOrder ==
  ASSUME LoopSafe, pc = "calls"
  PROVE  Last(messages).uses = results \o SubSeq(Ids(Len(results) + Len(calls)),
                                                Len(results) + 1, Len(results) + Len(calls))
<1>1. /\ calls \in Seq(Names) /\ results \in Seq(CallIds) /\ (\A i \in 1 .. Len(results) : results[i] = <<turns, iter, i>>)
      /\ messages[Len(messages)].uses = Ids(Len(results) + Len(calls))
  BY DEF LoopSafe, CallsOK
<1> PICK r : r = Len(results)
  OBVIOUS
<1> PICK n : n = Len(results) + Len(calls)
  OBVIOUS
<1>2. r \in Nat /\ n \in Nat /\ r <= n /\ turns \in Nat /\ iter \in Nat
  <2>1. Len(results) \in Nat /\ Len(calls) \in Nat
    BY <1>1
  <2> QED
    BY <2>1, NumbersOfTurn
<1> PICK ids : ids = Ids(n)
  OBVIOUS
<1>3. ids \in Seq(CallIds) /\ Len(ids) = n /\ \A i \in 1 .. n : ids[i] = <<turns, iter, i>>
  BY <1>2, IdsFacts
<1> PICK rest : rest = SubSeq(ids, r + 1, n)
  OBVIOUS
<1>4. r + 1 \in Int /\ n \in Int /\ \A i \in r + 1 .. n : ids[i] \in CallIds
  BY <1>2, <1>3
<1>5. /\ rest \in Seq(CallIds) /\ Len(rest) = IF r + 1 <= n THEN n - (r + 1) + 1 ELSE 0
      /\ \A i \in 1 .. n - (r + 1) + 1 : rest[i] = ids[(r + 1) + i - 1]
  BY <1>4, SubSeqProperties
<1>6. Len(rest) = n - r /\ n - (r + 1) + 1 = n - r
  BY <1>2, <1>5
<1>7. /\ results \o rest \in Seq(CallIds) /\ Len(results \o rest) = Len(results) + Len(rest)
      /\ \A i \in 1 .. Len(results) + Len(rest) :
           (results \o rest)[i] = IF i <= Len(results) THEN results[i] ELSE rest[i - Len(results)]
  BY <1>1, <1>5, ConcatProperties
<1>8. Len(results \o rest) = n
  BY <1>2, <1>6, <1>7
<1>9. ASSUME NEW i \in 1 .. n PROVE ids[i] = (results \o rest)[i]
  <2>1. (results \o rest)[i] = IF i <= r THEN results[i] ELSE rest[i - r]
    BY <1>7, <1>8
  <2>2. CASE i <= r
    <3>1. i \in 1 .. Len(results)
      BY <1>2, <2>2
    <3> QED
      BY <1>1, <1>3, <2>1, <2>2, <3>1
  <2>3. CASE ~ i <= r
    <3>1. i - r \in 1 .. n - (r + 1) + 1 /\ (r + 1) + (i - r) - 1 = i
      BY <1>2, <2>3
    <3> QED
      BY <1>5, <2>1, <2>3, <3>1
  <2> QED
    BY <2>2, <2>3
<1>10. ids = results \o rest
  BY <1>3, <1>7, <1>8, <1>9, SeqEqual
<1> QED
  BY <1>1, <1>10 DEF Last

\* One turn, whatever fails in it: one result per call and in order, a key is attempted at most
\* MaxFailures times without having worked, and the answer lists the approvals that exist
\* (runTurn, handleRealToolCall).
THEOREM TurnsAreSound == LoopSpec => []TurnInv
<1>1. LoopSafe => TurnInv
  <2> SUFFICES ASSUME LoopSafe PROVE TurnInv
    OBVIOUS
  <2>1. /\ fails \in [Keys -> 0 .. MaxFailures] /\ tries = fails /\ unaudited \in [Keys -> Nat]
        /\ (\A k \in Keys : unaudited[k] <= fails[k]) /\ listed \in Nat /\ created = listed
    BY DEF LoopSafe, CountersOK
  <2>2. tries \in [Keys -> Nat]
    BY <2>1, LoopAssumption
  <2>3. calls \in Seq(Names)
    BY DEF LoopSafe, CallsOK
  <2>4. /\ pc \in {"idle", "model", "calls", "final"} /\ iter \in 0 .. MaxIterations
        /\ turns \in 0 .. MaxTurns /\ enabled \in {"on", "off"} /\ plan \in Seq(PlanStatus) /\ memory \subseteq 0 .. MaxTurns
        /\ answer \in {"none", "text", "cut", "out of space", "limit"} /\ (answer # "none" <=> pc = "final")
    BY DEF LoopSafe, LoopShape
  <2>5. LoopTypeOK
    BY <2>1, <2>2, <2>3, <2>4, ResultsInOrder DEF LoopTypeOK
  <2>6. FailureCapHolds
    <3> SUFFICES ASSUME NEW k \in Keys PROVE tries[k] <= MaxFailures /\ unaudited[k] <= MaxFailures
      BY DEF FailureCapHolds
    <3>1. fails[k] \in 0 .. MaxFailures /\ unaudited[k] \in Nat /\ unaudited[k] <= fails[k] /\ tries[k] = fails[k]
      BY <2>1
    <3> QED
      BY <3>1, LoopAssumption
  <2> QED
    BY <2>1, <2>5, <2>6 DEF TurnInv, PendingListed
<1> QED
  BY <1>1, LoopSafety, PTL

\* What toOpenAIMessages makes of one message.
PartsOf(m) == IF m.text THEN 1 ELSE Len(m.results) + (IF m.uses = <<>> THEN 0 ELSE 1)
PartOf(m, j) ==
  CASE m.text                         -> [role |-> m.role, id |-> <<>>, calls |-> {}]
    [] ~m.text /\ j <= Len(m.results) -> [role |-> "tool", id |-> m.results[j], calls |-> {}]
    [] OTHER                          -> [role |-> "assistant", id |-> <<>>, calls |-> ToSet(m.uses)]
Places(ms) == UNION {{i} \X (1 .. PartsOf(ms[i])) : i \in DOMAIN ms}

\* The places of what is sent.
LEMMA PlaceFacts ==
  ASSUME NEW ms
  PROVE  /\ ToOpenAIMessages(ms) = [p \in Places(ms) |-> PartOf(ms[p[1]], p[2])]
         /\ \A p \in Places(ms) : p[1] \in DOMAIN ms /\ p[2] \in 1 .. PartsOf(ms[p[1]])
         /\ \A i \in DOMAIN ms : \A j \in 1 .. PartsOf(ms[i]) : <<i, j>> \in Places(ms)
<1>1. ToOpenAIMessages(ms) = [p \in Places(ms) |-> PartOf(ms[p[1]], p[2])]
  BY DEF ToOpenAIMessages, Places, PartOf, PartsOf
<1>2. ASSUME NEW p \in Places(ms) PROVE p[1] \in DOMAIN ms /\ p[2] \in 1 .. PartsOf(ms[p[1]])
  <2>1. PICK i \in DOMAIN ms : p \in {i} \X (1 .. PartsOf(ms[i]))
    BY DEF Places
  <2>2. p[1] = i /\ p[2] \in 1 .. PartsOf(ms[i])
    BY <2>1
  <2> QED
    BY <2>2
<1>3. ASSUME NEW i \in DOMAIN ms, NEW j \in 1 .. PartsOf(ms[i]) PROVE <<i, j>> \in Places(ms)
  <2>1. <<i, j>> \in {i} \X (1 .. PartsOf(ms[i]))
    OBVIOUS
  <2> QED
    BY <2>1 DEF Places
<1> QED
  BY <1>1, <1>2, <1>3

\* The parts of each kind of message.
LEMMA PartFacts ==
  ASSUME NEW m \in Messages
  PROVE  /\ Plain(m) => PartsOf(m) = 1 /\ \A j : PartOf(m, j).role # "tool" /\ PartOf(m, j).calls = {}
         /\ Asks(m) => PartsOf(m) = 1 /\ PartOf(m, 1).role # "tool" /\ PartOf(m, 1).calls = ToSet(m.uses)
         /\ Answers(m) => /\ PartsOf(m) = Len(m.results)
                          /\ \A j \in 1 .. Len(m.results) : /\ PartOf(m, j).role = "tool" /\ PartOf(m, j).id = m.results[j]
                                                            /\ PartOf(m, j).calls = {}
<1>1. m.role \in {"user", "assistant"} /\ m.results \in Seq(CallIds) /\ Len(m.results) \in Nat
  BY DEF Messages
<1>2. ASSUME Plain(m) PROVE PartsOf(m) = 1 /\ \A j : PartOf(m, j).role # "tool" /\ PartOf(m, j).calls = {}
  BY <1>1, <1>2 DEF Plain, PartsOf, PartOf
<1>3. ASSUME Asks(m) PROVE PartsOf(m) = 1 /\ PartOf(m, 1).role # "tool" /\ PartOf(m, 1).calls = ToSet(m.uses)
  <2>1. ~m.text /\ Len(m.results) = 0 /\ m.uses # <<>> /\ ~ 1 <= Len(m.results)
    BY <1>3 DEF Asks
  <2> QED
    BY <2>1 DEF PartsOf, PartOf
<1>4. ASSUME Answers(m)
      PROVE  /\ PartsOf(m) = Len(m.results)
             /\ \A j \in 1 .. Len(m.results) : /\ PartOf(m, j).role = "tool" /\ PartOf(m, j).id = m.results[j]
                                               /\ PartOf(m, j).calls = {}
  <2>1. ~m.text /\ m.uses = <<>>
    BY <1>4 DEF Answers
  <2>2. PartsOf(m) = Len(m.results)
    BY <1>1, <2>1 DEF PartsOf
  <2>3. ASSUME NEW j \in 1 .. Len(m.results) PROVE PartOf(m, j) = [role |-> "tool", id |-> m.results[j], calls |-> {}]
    <3>1. j <= Len(m.results)
      BY <1>1
    <3> QED
      BY <2>1, <3>1 DEF PartOf
  <2> QED
    BY <2>2, <2>3
<1> QED
  BY <1>2, <1>3, <1>4


\* Of three places in the order they are sent, with the outer two in neighbouring messages.
LEMMA Between ==
  ASSUME NEW i \in Nat, NEW j \in Nat, NEW a \in Nat, NEW b \in Nat,
         SentBefore(<<i, 1>>, <<a, b>>), SentBefore(<<a, b>>, <<i + 1, j>>)
  PROVE  (a = i /\ b > 1) \/ a = i + 1
BY DEF SentBefore

\* The calls of a message own the results in the next.
LEMMA CallsOwnResults ==
  ASSUME NEW ms \in Seq(Messages), NEW i \in 1 .. Len(ms), i < Len(ms), Asks(ms[i]), Answers(ms[i + 1]),
         NEW j \in 1 .. Len(ms[i + 1].results)
  PROVE  /\ SentBefore(<<i, 1>>, <<i + 1, j>>)
         /\ \A r \in Places(ms) : SentBefore(<<i, 1>>, r) /\ SentBefore(r, <<i + 1, j>>) => PartOf(ms[r[1]], r[2]).role = "tool"
<1>1. Len(ms) \in Nat /\ DOMAIN ms = 1 .. Len(ms) /\ i + 1 \in 1 .. Len(ms) /\ i \in Nat
  OBVIOUS
<1>2. ms[i] \in Messages /\ ms[i + 1] \in Messages
  BY <1>1
<1>3. Len(ms[i + 1].results) \in Nat /\ j \in Nat
  <2>1. ms[i + 1].results \in Seq(CallIds)
    BY <1>2 DEF Messages
  <2>2. Len(ms[i + 1].results) \in Nat
    BY <2>1
  <2> QED
    BY <2>2
<1>4. PartsOf(ms[i]) = 1
  BY <1>2, PartFacts
<1>5. PartsOf(ms[i + 1]) = Len(ms[i + 1].results) /\ \A k \in 1 .. Len(ms[i + 1].results) : PartOf(ms[i + 1], k).role = "tool"
  BY <1>2, PartFacts
<1>6. SentBefore(<<i, 1>>, <<i + 1, j>>)
  BY <1>1 DEF SentBefore
<1>7. ASSUME NEW r \in Places(ms), SentBefore(<<i, 1>>, r), SentBefore(r, <<i + 1, j>>)
      PROVE  PartOf(ms[r[1]], r[2]).role = "tool"
  <2> PICK a : a = r[1]
    OBVIOUS
  <2> PICK b : b = r[2]
    OBVIOUS
  <2>1. a \in 1 .. Len(ms) /\ b \in 1 .. PartsOf(ms[a])
    BY <1>1, PlaceFacts
  <2>2. SentBefore(<<i, 1>>, <<a, b>>) /\ SentBefore(<<a, b>>, <<i + 1, j>>)
    BY <1>7 DEF SentBefore
  <2>3. a \in Nat /\ b \in Nat
    BY <1>1, <2>1
  <2>4. (a = i /\ b > 1) \/ a = i + 1
    BY <1>1, <1>3, <2>2, <2>3, Between
  <2>5. ~ (a = i /\ b > 1)
    BY <1>4, <2>1
  <2>6. a = i + 1
    BY <2>4, <2>5
  <2>7. b \in 1 .. Len(ms[i + 1].results)
    BY <1>5, <2>1, <2>6
  <2> QED
    BY <1>5, <2>6, <2>7
<1> QED
  BY <1>6, <1>7

\* What OpenAI is sent for a conversation whose calls are all answered.
LEMMA OpenAITakesRounds ==
  ASSUME NEW ms \in Seq(Messages), Rounds(ms), Settled(ms)
  PROVE  OpenAIAccepts(ms)
<1> PICK w : w = ToOpenAIMessages(ms)
  OBVIOUS
<1>1. Len(ms) \in Nat /\ DOMAIN ms = 1 .. Len(ms) /\ \A i \in 1 .. Len(ms) : ms[i] \in Messages
  OBVIOUS
<1>2. /\ w = [p \in Places(ms) |-> PartOf(ms[p[1]], p[2])]
      /\ \A p \in Places(ms) : p[1] \in DOMAIN ms /\ p[2] \in 1 .. PartsOf(ms[p[1]])
      /\ \A i \in DOMAIN ms : \A j \in 1 .. PartsOf(ms[i]) : <<i, j>> \in Places(ms)
  BY PlaceFacts
<1>3. DOMAIN w = Places(ms) /\ \A p \in Places(ms) : w[p] = PartOf(ms[p[1]], p[2])
  BY <1>2
<1>4. \A i \in 1 .. Len(ms) : /\ Plain(ms[i]) \/ Asks(ms[i]) \/ Answers(ms[i])
                              /\ Asks(ms[i]) /\ i < Len(ms) => ms[i + 1].results = ms[i].uses
                              /\ Answers(ms[i]) => i > 1 /\ ms[i - 1].uses = ms[i].results
  BY DEF Rounds
<1>5. \A i \in 1 .. Len(ms) : /\ ms[i].uses # <<>> => Asks(ms[i])
                              /\ ms[i].results # <<>> => Answers(ms[i])
  BY <1>4 DEF Plain, Asks, Answers
<1>6. ASSUME NEW i \in 1 .. Len(ms), i < Len(ms), Asks(ms[i]), Answers(ms[i + 1]), ms[i].uses = ms[i + 1].results,
             NEW j \in 1 .. Len(ms[i + 1].results)
      PROVE  /\ <<i, 1>> \in DOMAIN w /\ <<i + 1, j>> \in DOMAIN w /\ w[<<i + 1, j>>].role = "tool"
             /\ w[<<i + 1, j>>].id = ms[i + 1].results[j] /\ ms[i + 1].results[j] \in w[<<i, 1>>].calls
             /\ SentBefore(<<i, 1>>, <<i + 1, j>>)
             /\ \A r \in DOMAIN w : SentBefore(<<i, 1>>, r) /\ SentBefore(r, <<i + 1, j>>) => w[r].role = "tool"
  <2>1. i + 1 \in 1 .. Len(ms)
    BY <1>1, <1>6
  <2>2. ms[i] \in Messages /\ ms[i + 1] \in Messages
    BY <1>1, <2>1
  <2>3. PartsOf(ms[i]) = 1 /\ PartOf(ms[i], 1).calls = ToSet(ms[i].uses)
    BY <1>6, <2>2, PartFacts
  <2>4. PartsOf(ms[i + 1]) = Len(ms[i + 1].results) /\ PartOf(ms[i + 1], j).role = "tool" /\ PartOf(ms[i + 1], j).id = ms[i + 1].results[j]
    BY <1>6, <2>2, PartFacts
  <2>5. 1 \in 1 .. PartsOf(ms[i]) /\ j \in 1 .. PartsOf(ms[i + 1])
    BY <2>3, <2>4
  <2>6. <<i, 1>> \in Places(ms) /\ <<i + 1, j>> \in Places(ms)
    BY <1>1, <1>2, <2>1, <2>5
  <2>7. w[<<i, 1>>] = PartOf(ms[i], 1) /\ w[<<i + 1, j>>] = PartOf(ms[i + 1], j)
    BY <1>3, <2>6
  <2>8. ms[i + 1].results[j] \in ToSet(ms[i].uses)
    <3>1. ms[i + 1].results \in Seq(CallIds)
      BY <2>2 DEF Messages
    <3>2. j \in DOMAIN ms[i + 1].results
      BY <3>1
    <3> QED
      BY <1>6, <3>2 DEF ToSet
  <2>9. /\ SentBefore(<<i, 1>>, <<i + 1, j>>)
        /\ \A r \in Places(ms) : SentBefore(<<i, 1>>, r) /\ SentBefore(r, <<i + 1, j>>) => PartOf(ms[r[1]], r[2]).role = "tool"
    BY <1>6, CallsOwnResults
  <2> QED
    BY <1>3, <2>3, <2>4, <2>6, <2>7, <2>8, <2>9
<1>7. ASSUME NEW p \in DOMAIN w, w[p].role = "tool"
      PROVE  \E q \in DOMAIN w : /\ w[p].id \in w[q].calls /\ SentBefore(q, p)
                                 /\ \A r \in DOMAIN w : SentBefore(q, r) /\ SentBefore(r, p) => w[r].role = "tool"
  <2> PICK i : i = p[1]
    OBVIOUS
  <2> PICK j : j = p[2]
    OBVIOUS
  <2>1. i \in 1 .. Len(ms) /\ j \in 1 .. PartsOf(ms[i]) /\ p \in Places(ms) /\ w[p] = PartOf(ms[i], j)
    BY <1>1, <1>2, <1>3
  <2>2. p = <<i, j>>
    <3>1. PICK k \in DOMAIN ms : p \in {k} \X (1 .. PartsOf(ms[k]))
      BY <2>1 DEF Places
    <3> QED
      BY <3>1
  <2>3. Answers(ms[i])
    <3>1. PartOf(ms[i], j).role = "tool" /\ ms[i] \in Messages
      BY <1>1, <1>7, <2>1
    <3>2. ~Plain(ms[i])
      BY <3>1, PartFacts
    <3>3. ~Asks(ms[i])
      <4>1. SUFFICES ASSUME Asks(ms[i]) PROVE FALSE
        OBVIOUS
      <4>2. PartsOf(ms[i]) = 1 /\ PartOf(ms[i], 1).role # "tool"
        BY <3>1, <4>1, PartFacts
      <4>3. j = 1
        BY <2>1, <4>2
      <4> QED
        BY <3>1, <4>2, <4>3
    <3> QED
      BY <1>4, <2>1, <3>2, <3>3
  <2>4. i > 1 /\ ms[i - 1].uses = ms[i].results
    BY <1>4, <2>1, <2>3
  <2> PICK h : h = i - 1
    OBVIOUS
  <2>5. h \in 1 .. Len(ms) /\ h < Len(ms) /\ h + 1 = i
    BY <1>1, <2>1, <2>4
  <2>6. Asks(ms[h])
    <3>1. ms[i].results # <<>>
      BY <2>3 DEF Answers
    <3> QED
      BY <1>5, <2>4, <2>5, <3>1
  <2>7. j \in 1 .. Len(ms[h + 1].results)
    <3>1. ms[i] \in Messages
      BY <1>1, <2>1
    <3>2. PartsOf(ms[i]) = Len(ms[i].results)
      BY <2>3, <3>1, PartFacts
    <3> QED
      BY <2>1, <2>5, <3>2
  <2>8. Answers(ms[h + 1]) /\ ms[h].uses = ms[h + 1].results
    BY <2>3, <2>4, <2>5
  <2>9. /\ <<h, 1>> \in DOMAIN w /\ w[<<h + 1, j>>].id \in w[<<h, 1>>].calls
        /\ SentBefore(<<h, 1>>, <<h + 1, j>>)
        /\ \A r \in DOMAIN w : SentBefore(<<h, 1>>, r) /\ SentBefore(r, <<h + 1, j>>) => w[r].role = "tool"
    BY <1>6, <2>5, <2>6, <2>7, <2>8
  <2>10. p = <<h + 1, j>>
    BY <2>2, <2>5
  <2> QED
    BY <2>9, <2>10
<1>8. ASSUME NEW q \in DOMAIN w, NEW c \in w[q].calls
      PROVE  \E p \in DOMAIN w : /\ w[p].role = "tool" /\ w[p].id = c /\ SentBefore(q, p)
                                 /\ \A r \in DOMAIN w : SentBefore(q, r) /\ SentBefore(r, p) => w[r].role = "tool"
  <2> PICK i : i = q[1]
    OBVIOUS
  <2> PICK j : j = q[2]
    OBVIOUS
  <2>1. i \in 1 .. Len(ms) /\ j \in 1 .. PartsOf(ms[i]) /\ q \in Places(ms) /\ w[q] = PartOf(ms[i], j)
    BY <1>1, <1>2, <1>3
  <2>2. q = <<i, j>>
    <3>1. PICK k \in DOMAIN ms : q \in {k} \X (1 .. PartsOf(ms[k]))
      BY <2>1 DEF Places
    <3> QED
      BY <3>1
  <2>3. ms[i] \in Messages /\ PartOf(ms[i], j).calls # {}
    BY <1>1, <1>8, <2>1
  <2>4. Asks(ms[i])
    <3>1. ~Plain(ms[i])
      BY <2>3, PartFacts
    <3>2. ~Answers(ms[i])
      <4>1. SUFFICES ASSUME Answers(ms[i]) PROVE FALSE
        OBVIOUS
      <4>2. PartsOf(ms[i]) = Len(ms[i].results) /\ \A k \in 1 .. Len(ms[i].results) : PartOf(ms[i], k).calls = {}
        BY <2>3, <4>1, PartFacts
      <4> QED
        BY <2>1, <2>3, <4>2
    <3> QED
      BY <1>4, <2>1, <3>1, <3>2
  <2>5. PartsOf(ms[i]) = 1 /\ PartOf(ms[i], 1).calls = ToSet(ms[i].uses)
    BY <2>3, <2>4, PartFacts
  <2>6. j = 1 /\ c \in ToSet(ms[i].uses)
    BY <1>8, <2>1, <2>5
  <2>7. i < Len(ms)
    <3>1. ms[i].uses # <<>>
      BY <2>4 DEF Asks
    <3>2. i # Len(ms)
      BY <1>1, <2>1, <3>1 DEF Settled
    <3> QED
      BY <1>1, <2>1, <3>2
  <2>8. ms[i + 1].results = ms[i].uses /\ i + 1 \in 1 .. Len(ms)
    BY <1>1, <1>4, <2>1, <2>4, <2>7
  <2>9. Answers(ms[i + 1])
    <3>1. ms[i].uses # <<>>
      BY <2>4 DEF Asks
    <3> QED
      BY <1>5, <2>8, <3>1
  <2>10. PICK k \in 1 .. Len(ms[i + 1].results) : ms[i + 1].results[k] = c
    <3>1. ms[i].uses \in Seq(CallIds)
      BY <2>3 DEF Messages
    <3>2. DOMAIN ms[i].uses = 1 .. Len(ms[i].uses)
      BY <3>1
    <3> QED
      BY <2>6, <2>8, <3>2 DEF ToSet
  <2>11. /\ <<i + 1, k>> \in DOMAIN w /\ w[<<i + 1, k>>].role = "tool"
         /\ w[<<i + 1, k>>].id = ms[i + 1].results[k] /\ SentBefore(<<i, 1>>, <<i + 1, k>>)
         /\ \A r \in DOMAIN w : SentBefore(<<i, 1>>, r) /\ SentBefore(r, <<i + 1, k>>) => w[r].role = "tool"
    BY <1>6, <2>1, <2>4, <2>7, <2>8, <2>9
  <2>12. q = <<i, 1>>
    BY <2>2, <2>6
  <2> QED
    BY <2>10, <2>11, <2>12
<1> QED
  BY <1>7, <1>8 DEF OpenAIAccepts


\* What Anthropic and Gemini take of such a conversation.
LEMMA OthersTakeRounds ==
  ASSUME NEW ms \in Seq(Messages), ms # <<>>, Rounds(ms)
  PROVE  AnthropicAccepts(ms) /\ GeminiAccepts(ms)
<1>1. Len(ms) \in Nat /\ DOMAIN ms = 1 .. Len(ms) /\ \A i \in 1 .. Len(ms) : ms[i] \in Messages
  OBVIOUS
<1>2. \A i \in 1 .. Len(ms) : /\ Plain(ms[i]) \/ Asks(ms[i]) \/ Answers(ms[i])
                              /\ Asks(ms[i]) /\ i < Len(ms) => ms[i + 1].results = ms[i].uses
                              /\ Answers(ms[i]) => i > 1 /\ ms[i - 1].uses = ms[i].results
  BY DEF Rounds
<1>3. \A i \in 1 .. Len(ms) : /\ ms[i].uses # <<>> => Asks(ms[i])
                              /\ ms[i].results # <<>> => Answers(ms[i])
                              /\ ms[i].text \/ ms[i].uses # <<>> \/ ms[i].results # <<>>
  BY <1>2 DEF Plain, Asks, Answers
<1>4. ms[1].role = "user" /\ ms[1].text
  BY DEF Rounds
<1>5. AnthropicAccepts(ms)
  BY <1>1, <1>2, <1>3, <1>4 DEF AnthropicAccepts
<1>6. ASSUME NEW i \in DOMAIN ms PROVE ToSet(ms[i].results) \subseteq ToolCallIdToName(ms)
  <2>1. CASE ms[i].results = <<>>
    BY <2>1 DEF ToSet
  <2>2. CASE ms[i].results # <<>>
    <3>1. Answers(ms[i]) /\ i > 1 /\ ms[i - 1].uses = ms[i].results
      BY <1>1, <1>2, <1>3, <2>2
    <3>2. i - 1 \in DOMAIN ms
      BY <1>1, <3>1
    <3>3. ToSet(ms[i - 1].uses) \subseteq ToolCallIdToName(ms)
      BY <3>2 DEF ToolCallIdToName
    <3> QED
      BY <3>1, <3>3
  <2> QED
    BY <2>1, <2>2
<1> QED
  BY <1>5, <1>6 DEF GeminiAccepts

\* Whatever the model answered, failed or was cut, every conversation sent to the router is one that
\* each of the three vendors takes: calls and results pair up, through rounds, lost turns and
\* compactions (runTurn, toAnthropicContent, toOpenAIMessages, toGeminiParts).
THEOREM ConversationsAreAccepted == LoopSpec => []ConversationAccepted
<1>1. LoopSafe => ConversationAccepted
  <2> SUFFICES ASSUME LoopSafe, pc = "model"
               PROVE  AnthropicAccepts(messages) /\ OpenAIAccepts(messages) /\ GeminiAccepts(messages)
    BY DEF ConversationAccepted
  <2>1. messages \in Seq(Messages)
    BY DEF LoopSafe, LoopShape
  <2>2. messages # <<>> /\ Rounds(messages) /\ Settled(messages)
    BY DEF LoopSafe, TalkOK
  <2> HIDE DEF LoopSafe
  <2> QED
    BY <2>1, <2>2, OpenAITakesRounds, OthersTakeRounds
<1> QED
  BY <1>1, LoopSafety, PTL

-----------------------------------------------------------------------------
(* Memory: what is in order. *)

\* Of two members one is ahead of the other, and ahead of what that one is ahead of.
OneIsAhead(S, ahead) ==
  /\ \A x \in S : ahead[x] \subseteq S /\ x \notin ahead[x]
  /\ \A x, y \in S : x = y \/ x \in ahead[y] \/ y \in ahead[x]
  /\ \A x, y, z \in S : x \in ahead[y] /\ y \in ahead[z] => x \in ahead[z]

\* A sequence of all members, each ahead of the later ones.
Lists(list, n, S, ahead) ==
  /\ list \in [1 .. n -> S]
  /\ \A x \in S : \E m \in 1 .. n : list[m] = x
  /\ \A l, m \in 1 .. n : l < m => list[l] \in ahead[list[m]]

\* An interval from 1 has as many members as its end says.
LEMMA CountOfInterval ==
  ASSUME NEW n \in Nat
  PROVE  IsFiniteSet(1 .. n) /\ Cardinality(1 .. n) = n
<1>1. 1 \in Int /\ n \in Int
  OBVIOUS
<1>2. IsFiniteSet(1 .. n) /\ Cardinality(1 .. n) = IF 1 > n THEN 0 ELSE n - 1 + 1
  BY <1>1, FS_Interval, Zenon
<1>3. QED  BY <1>2

\* The members of a finite set are put in their order.
LEMMA InOrderLists ==
  ASSUME NEW S, IsFiniteSet(S), NEW ahead, OneIsAhead(S, ahead)
  PROVE  Cardinality(S) \in Nat /\ Lists(InOrder(S, ahead), Cardinality(S), S, ahead)
<1> PICK n : n = Cardinality(S)
  OBVIOUS
<1> DEFINE place == [x \in S |-> Cardinality(ahead[x]) + 1]
<1>1. n \in Nat
  BY FS_CardinalityType
<1>2. ASSUME NEW x \in S
      PROVE  IsFiniteSet(ahead[x]) /\ Cardinality(ahead[x]) \in Nat /\ Cardinality(ahead[x]) <= n - 1
  <2>1. ahead[x] \subseteq S \ {x}
    BY DEF OneIsAhead
  <2>2. IsFiniteSet(S \ {x}) /\ Cardinality(S \ {x}) = n - 1
    BY FS_RemoveElement
  <2>3. QED  BY <2>1, <2>2, FS_Subset, FS_CardinalityType
<1>3. ASSUME NEW x \in S, NEW y \in S, x \in ahead[y]
      PROVE  Cardinality(ahead[x]) < Cardinality(ahead[y])
  <2>1. ahead[x] \subseteq ahead[y] \ {x}
    BY <1>3 DEF OneIsAhead
  <2>2. IsFiniteSet(ahead[y]) /\ Cardinality(ahead[y]) \in Nat
    BY <1>2
  <2>3. IsFiniteSet(ahead[y] \ {x}) /\ Cardinality(ahead[y] \ {x}) = Cardinality(ahead[y]) - 1
    BY <1>3, <2>2, FS_RemoveElement
  <2>4. Cardinality(ahead[x]) <= Cardinality(ahead[y] \ {x})
    BY <2>1, <2>3, FS_Subset
  <2>5. Cardinality(ahead[x]) \in Nat
    BY <1>2
  <2>6. QED  BY <2>2, <2>3, <2>4, <2>5
<1>4. place \in [S -> 1 .. n]
  <2>1. ASSUME NEW x \in S  PROVE Cardinality(ahead[x]) + 1 \in 1 .. n
    BY <1>1, <1>2
  <2>2. QED  BY <2>1
<1>5. \A x, y \in S : place[x] = place[y] => x = y
  <2> SUFFICES ASSUME NEW x \in S, NEW y \in S, place[x] = place[y]  PROVE x = y
    OBVIOUS
  <2>1. Cardinality(ahead[x]) \in Nat /\ Cardinality(ahead[y]) \in Nat
        /\ Cardinality(ahead[x]) + 1 = Cardinality(ahead[y]) + 1
    BY <1>2
  <2>2. x \notin ahead[y] /\ y \notin ahead[x]
    BY <1>3, <2>1
  <2>3. QED  BY <2>2 DEF OneIsAhead
<1> HIDE DEF place
<1>6. \A m \in 1 .. n : \E x \in S : place[x] = m
  <2>1. place \in Injection(S, 1 .. n)
    BY <1>4, <1>5 DEF Injection, IsInjective
  <2>2. IsFiniteSet(1 .. n) /\ Cardinality(1 .. n) = n
    BY <1>1, CountOfInterval
  <2>3. place \in Surjection(S, 1 .. n)
    <3> PICK T : T = 1 .. n
      OBVIOUS
    <3>1. place \in Injection(S, T) /\ IsFiniteSet(T) /\ Cardinality(S) = Cardinality(T)
      BY <2>1, <2>2
    <3>2. place \in Surjection(S, T)
      BY <3>1, FS_Injection
    <3>3. QED  BY <3>2
  <2>4. QED  BY <2>3 DEF Surjection
<1> PICK list : list = InOrder(S, ahead)
  OBVIOUS
<1>7. DOMAIN list = 1 .. n /\ list = [m \in 1 .. n |-> list[m]]
  BY DEF InOrder
<1>8. ASSUME NEW m \in 1 .. n  PROVE list[m] \in S /\ place[list[m]] = m
  <2>1. PICK x \in S : place[x] = m
    BY <1>6
  <2>2. Cardinality(ahead[x]) = m - 1
    BY <1>2, <2>1 DEF place
  <2>3. list[m] = CHOOSE y \in S : Cardinality(ahead[y]) = m - 1
    BY DEF InOrder
  <2>4. list[m] \in S /\ Cardinality(ahead[list[m]]) = m - 1
    BY <2>2, <2>3
  <2>5. QED  BY <2>4 DEF place
<1>9. list \in [1 .. n -> S]
  BY <1>7, <1>8
<1>10. ASSUME NEW x \in S  PROVE \E m \in 1 .. n : list[m] = x
  <2>1. place[x] \in 1 .. n
    BY <1>4
  <2>2. list[place[x]] \in S /\ place[list[place[x]]] = place[x]
    BY <1>8, <2>1
  <2>3. list[place[x]] = x
    BY <1>5, <2>2
  <2>4. QED  BY <2>1, <2>3
<1>11. ASSUME NEW l \in 1 .. n, NEW m \in 1 .. n, l < m  PROVE list[l] \in ahead[list[m]]
  <2>1. list[l] \in S /\ list[m] \in S /\ place[list[l]] = l /\ place[list[m]] = m
    BY <1>8
  <2>2. Cardinality(ahead[list[l]]) + 1 = l /\ Cardinality(ahead[list[m]]) + 1 = m
        /\ Cardinality(ahead[list[l]]) \in Nat /\ Cardinality(ahead[list[m]]) \in Nat
    BY <1>2, <2>1 DEF place
  <2>3. list[l] # list[m] /\ list[m] \notin ahead[list[l]]
    BY <1>3, <1>11, <2>1, <2>2
  <2>4. QED  BY <2>1, <2>3 DEF OneIsAhead
<1>12. QED  BY <1>1, <1>9, <1>10, <1>11 DEF Lists

\* No member is listed twice, so that a list has as many entries as there are members.
LEMMA ListsCount ==
  ASSUME NEW list, NEW n \in Nat, NEW S, NEW T, NEW ahead,
         OneIsAhead(T, ahead), S \subseteq T, Lists(list, n, S, ahead)
  PROVE  /\ \A l, m \in 1 .. n : list[l] = list[m] => l = m
         /\ IsFiniteSet(S) /\ Cardinality(S) = n
<1>1. list \in [1 .. n -> S]
  BY DEF Lists
<1>2. \A l, m \in 1 .. n : list[l] = list[m] => l = m
  <2> SUFFICES ASSUME NEW l \in 1 .. n, NEW m \in 1 .. n, list[l] = list[m], l # m  PROVE FALSE
    OBVIOUS
  <2>1. l < m \/ m < l
    OBVIOUS
  <2>2. list[l] \in ahead[list[l]]
    BY <2>1 DEF Lists
  <2>3. list[l] \in T
    BY <1>1
  <2>4. QED  BY <2>2, <2>3 DEF OneIsAhead
<1>3. list \in Bijection(1 .. n, S)
  <2>1. list \in Injection(1 .. n, S)
    BY <1>1, <1>2 DEF Injection, IsInjective
  <2>2. list \in Surjection(1 .. n, S)
    BY <1>1 DEF Surjection, Lists
  <2>3. QED  BY <2>1, <2>2 DEF Bijection
<1>4. ExistsBijection(1 .. n, S)
  BY <1>3 DEF ExistsBijection
<1>5. IsFiniteSet(1 .. n) /\ Cardinality(1 .. n) = n
  BY CountOfInterval
<1>6. IsFiniteSet(S) /\ Cardinality(S) = Cardinality(1 .. n)
  <2> PICK I : I = 1 .. n
    OBVIOUS
  <2>1. IsFiniteSet(I) /\ ExistsBijection(I, S)
    BY <1>4, <1>5
  <2>2. IsFiniteSet(S) /\ Cardinality(S) = Cardinality(I)
    BY <2>1, FS_Bijection
  <2>3. QED  BY <2>2
<1>7. QED  BY <1>2, <1>5, <1>6

\* The ids nearer to a query than an id.
NearerThan(q) == [b \in RowIds |-> {a \in RowIds : Nearer(q, a, b)}]

\* The rows that match.
Matching(kind, session) == {i \in 1 .. Len(entries) : Matches(entries[i], kind, session)}

\* Ids are in order by the distance of their vectors.
LEMMA NearerOrders ==
  ASSUME vectors \in Seq(Nat), NEW q \in Nat
  PROVE  OneIsAhead(RowIds, NearerThan(q)) /\ IsFiniteSet(RowIds) /\ Cardinality(RowIds) = Len(vectors)
<1>1. Len(vectors) \in Nat /\ \A i \in RowIds : vectors[i] \in Nat /\ i \in Nat
  BY DEF RowIds
<1>2. \A i \in RowIds : Distance(q, vectors[i]) \in Nat
  BY <1>1 DEF Distance
<1>3. OneIsAhead(RowIds, NearerThan(q))
  BY <1>1, <1>2 DEF OneIsAhead, NearerThan, Nearer
<1>4. QED  BY <1>1, <1>3, CountOfInterval DEF RowIds

\* Every id is ranked, the nearer ahead of the farther.
LEMMA RankedLists ==
  ASSUME vectors \in Seq(Nat), NEW q \in Nat
  PROVE  Lists(Ranked(q), Len(vectors), RowIds, NearerThan(q))
<1>1. OneIsAhead(RowIds, NearerThan(q)) /\ IsFiniteSet(RowIds) /\ Cardinality(RowIds) = Len(vectors)
  BY NearerOrders
<1>2. Lists(InOrder(RowIds, NearerThan(q)), Cardinality(RowIds), RowIds, NearerThan(q))
  BY <1>1, InOrderLists
<1>3. Ranked(q) = InOrder(RowIds, NearerThan(q))
  BY DEF Ranked, NearerThan
<1>4. QED  BY <1>1, <1>2, <1>3

\* The filter keeps the rows that match, all of them, in the order they have.
LEMMA FilteredLists ==
  ASSUME vectors \in Seq(Nat), Len(entries) = Len(vectors), NEW q \in Nat, NEW kind, NEW session
  PROVE  /\ Cardinality(Matching(kind, session)) \in Nat
         /\ Lists(Filtered(Ranked(q), kind, session), Cardinality(Matching(kind, session)),
                  Matching(kind, session), NearerThan(q))
<1> PICK n : n = Len(vectors)
  OBVIOUS
<1> PICK rows : rows = Ranked(q)
  OBVIOUS
<1> PICK matching : matching = Matching(kind, session)
  OBVIOUS
<1> PICK kept : kept = {p \in DOMAIN rows : Matches(entries[rows[p]], kind, session)}
  OBVIOUS
<1> PICK before : before = [b \in kept |-> {a \in kept : a < b}]
  OBVIOUS
<1> PICK places : places = InOrder(kept, before)
  OBVIOUS
<1> PICK c : c = Cardinality(kept)
  OBVIOUS
<1> PICK found : found = Filtered(rows, kind, session)
  OBVIOUS
<1>1. n \in Nat /\ Lists(rows, n, RowIds, NearerThan(q)) /\ OneIsAhead(RowIds, NearerThan(q))
  BY RankedLists, NearerOrders
<1>2. DOMAIN rows = 1 .. n /\ rows \in [1 .. n -> 1 .. n]
  BY <1>1 DEF Lists, RowIds
<1>3. kept \subseteq 1 .. n
  BY <1>2
<1>4. OneIsAhead(kept, before) /\ IsFiniteSet(kept)
  <2>1. IsFiniteSet(kept)
    BY <1>1, <1>3, CountOfInterval, FS_Subset
  <2>2. \A p \in kept : p \in Nat
    BY <1>1, <1>3
  <2>3. QED  BY <2>1, <2>2 DEF OneIsAhead
<1>5. c \in Nat /\ Lists(places, c, kept, before)
  BY <1>4, InOrderLists
<1>5a. /\ places \in [1 .. c -> kept]
      /\ \A l, m \in 1 .. c : l < m => places[l] \in before[places[m]]
  BY <1>5, Zenon DEF Lists
<1>6. found = [m \in 1 .. c |-> rows[places[m]]]
  BY <1>5 DEF Filtered, Lists
<1>7. matching = {i \in 1 .. n : Matches(entries[i], kind, session)}
  BY DEF Matching
<1>8a. \A p \in 1 .. n : p \in kept <=> rows[p] \in matching
  <2> SUFFICES ASSUME NEW p \in 1 .. n  PROVE p \in kept <=> rows[p] \in matching
    OBVIOUS
  <2>1. p \in kept <=> Matches(entries[rows[p]], kind, session)
    BY <1>2, Zenon
  <2>2. rows[p] \in 1 .. n
    BY <1>2
  <2>3. rows[p] \in matching <=> Matches(entries[rows[p]], kind, session)
    BY <1>7, <2>2, Zenon
  <2>4. QED  BY <2>1, <2>3
<1>8. found \in [1 .. c -> matching]
  <2>1. ASSUME NEW m \in 1 .. c  PROVE rows[places[m]] \in matching
    <3>1. places[m] \in kept
      BY <1>5a, Zenon
    <3>2. QED  BY <1>3, <1>8a, <3>1
  <2>2. QED  BY <1>6, <2>1
<1>9. ASSUME NEW x \in matching  PROVE \E m \in 1 .. c : found[m] = x
  <2>1. PICK p \in 1 .. n : rows[p] = x
    <3>1. x \in RowIds
      BY <1>7 DEF RowIds
    <3>2. QED  BY <1>1, <3>1 DEF Lists
  <2>2. p \in kept
    BY <1>8a, <2>1
  <2>3. PICK m \in 1 .. c : places[m] = p
    BY <1>5, <2>2 DEF Lists
  <2>4. QED  BY <1>6, <2>1, <2>3
<1>10. ASSUME NEW l \in 1 .. c, NEW m \in 1 .. c, l < m  PROVE found[l] \in NearerThan(q)[found[m]]
  <2>1. places[l] \in kept /\ places[m] \in kept /\ places[l] \in before[places[m]]
    BY <1>5a, <1>10, Zenon
  <2>2. places[l] < places[m] /\ places[l] \in 1 .. n /\ places[m] \in 1 .. n
    BY <1>3, <2>1
  <2>3. rows[places[l]] \in NearerThan(q)[rows[places[m]]]
    BY <1>1, <2>2 DEF Lists
  <2>4. QED  BY <1>6, <2>3
<1>11. Lists(found, c, matching, NearerThan(q))
  BY <1>8, <1>9, <1>10 DEF Lists
<1>12. matching \subseteq RowIds
  BY <1>7 DEF RowIds
<1>13. Cardinality(matching) = c
  BY <1>1, <1>5, <1>11, <1>12, ListsCount
<1>14. QED  BY <1>5, <1>11, <1>13

\* The first h entries of a list.
Begins(cut, list, h, S) ==
  /\ cut \in Seq(S) /\ Len(cut) = h /\ DOMAIN cut = 1 .. h
  /\ \A m \in 1 .. h : cut[m] = list[m]

\* A slice is the beginning of a list, of k rows or of all there are.
LEMMA SliceTakes ==
  ASSUME NEW n \in Nat, NEW S, NEW rows \in [1 .. n -> S], NEW k \in Nat
  PROVE  Least(k, n) \in 0 .. n /\ Begins(Slice(rows, k), rows, Least(k, n), S)
<1>1. rows \in Seq(S) /\ Len(rows) = n
  OBVIOUS
<1> PICK h : h = Least(k, n)
  OBVIOUS
<1>2. h \in 0 .. n
  BY DEF Least
<1>3. 1 \in Int /\ h \in Int /\ \A m \in 1 .. h : rows[m] \in S
  BY <1>2
<1> PICK cut : cut = SubSeq(rows, 1, h)
  OBVIOUS
<1>4. cut \in Seq(S) /\ Len(cut) = (IF 1 <= h THEN h - 1 + 1 ELSE 0)
      /\ \A m \in 1 .. h - 1 + 1 : cut[m] = rows[1 + m - 1]
  BY <1>3, SubSeqProperties
<1>5. Len(cut) = h /\ DOMAIN cut = 1 .. h
  BY <1>2, <1>4
<1>6. \A m \in 1 .. h : cut[m] = rows[m]
  BY <1>2, <1>4
<1>7. cut = Slice(rows, k)
  BY <1>1 DEF Slice
<1>8. QED  BY <1>2, <1>4, <1>5, <1>6, <1>7 DEF Begins

\* What QueryKnn gives is the nearest of the rows that match, at most k of them.
LEMMA RecallFinds ==
  ASSUME vectors \in Seq(Nat), EntriesHaveVectors, NEW q \in Nat, NEW k \in Nat, NEW kind, NEW session
  PROVE  NearestFirst(QueryKnn(q, k, kind, session), q, k, kind, session)
<1> PICK matching : matching = Matching(kind, session)
  OBVIOUS
<1> PICK rows : rows = Filtered(Ranked(q), kind, session)
  OBVIOUS
<1> PICK c : c = Cardinality(matching)
  OBVIOUS
<1> PICK h : h = Least(k, c)
  OBVIOUS
<1> PICK found : found = QueryKnn(q, k, kind, session)
  OBVIOUS
<1>1. Len(entries) = Len(vectors) /\ \A i \in 1 .. Len(entries) : vectors[i] = entries[i].point
  BY DEF EntriesHaveVectors
<1>2. c \in Nat /\ Lists(rows, c, matching, NearerThan(q))
  BY <1>1, FilteredLists
<1>3. OneIsAhead(RowIds, NearerThan(q))
  BY NearerOrders
<1>4. matching \subseteq RowIds
  BY <1>1 DEF Matching, RowIds
<1>5. \A l, m \in 1 .. c : rows[l] = rows[m] => l = m
  BY <1>2, <1>3, <1>4, ListsCount
<1>6. rows \in [1 .. c -> matching] /\ \A x \in matching : \E m \in 1 .. c : rows[m] = x
  BY <1>2 DEF Lists
<1>7. /\ h \in 0 .. c /\ found \in Seq(matching) /\ Len(found) = h /\ DOMAIN found = 1 .. h
      /\ \A m \in 1 .. h : found[m] = rows[m]
  <2>1. found = Slice(rows, k)
    BY DEF QueryKnn
  <2>2. c \in Nat /\ k \in Nat /\ rows \in [1 .. c -> matching]
    BY <1>2, <1>6
  <2>3. Least(k, c) \in 0 .. c /\ Begins(Slice(rows, k), rows, Least(k, c), matching)
    BY <2>2, SliceTakes
  <2>4. QED  BY <2>1, <2>3, Zenon DEF Begins
<1>8. ASSUME NEW i \in RowIds  PROVE Distance(q, vectors[i]) \in Nat /\ vectors[i] = entries[i].point
  BY <1>1 DEF RowIds, Distance
<1>9. ASSUME NEW l \in 1 .. c, NEW m \in 1 .. c, l < m
      PROVE  Distance(q, entries[rows[l]].point) <= Distance(q, entries[rows[m]].point)
  <2> PICK a : a = rows[l]
    OBVIOUS
  <2> PICK b : b = rows[m]
    OBVIOUS
  <2>1. a \in RowIds /\ b \in RowIds
    BY <1>4, <1>6
  <2>2. a \in NearerThan(q)[b]
    BY <1>2, <1>9 DEF Lists
  <2>3. Nearer(q, a, b)
    BY <2>1, <2>2 DEF NearerThan
  <2>4. Distance(q, vectors[a]) <= Distance(q, vectors[b])
    BY <1>8, <2>1, <2>3 DEF Nearer
  <2>5. QED  BY <1>8, <2>1, <2>4
<1>10. \A x : x \in Range(found) <=> \E m \in 1 .. h : x = rows[m]
  BY <1>7 DEF Range
<1>11. Range(found) \subseteq matching
  <2>1. \A m \in 1 .. h : rows[m] \in matching
    BY <1>2, <1>6, <1>7
  <2>2. QED  BY <1>10, <2>1
<1>12. Cardinality(Range(found)) = h
  <2>1. found \in [1 .. h -> Range(found)]
    <3>1. found = [m \in 1 .. h |-> found[m]]
      BY <1>7
    <3>2. \A m \in 1 .. h : found[m] \in Range(found)
      BY <1>7 DEF Range
    <3>3. QED  BY <3>1, <3>2
  <2>2. \A l, m \in 1 .. h : found[l] = found[m] => l = m
    <3>1. \A m \in 1 .. h : m \in 1 .. c
      BY <1>2, <1>7
    <3>2. QED  BY <1>5, <1>7, <3>1
  <2>3. found \in Injection(1 .. h, Range(found))
    BY <2>1, <2>2 DEF Injection, IsInjective
  <2>4. found \in Surjection(1 .. h, Range(found))
    BY <1>7, <2>1 DEF Surjection, Range
  <2>5. ExistsBijection(1 .. h, Range(found))
    BY <2>3, <2>4 DEF Bijection, ExistsBijection
  <2>6. IsFiniteSet(1 .. h) /\ Cardinality(1 .. h) = h
    BY <1>2, <1>7, CountOfInterval
  <2> PICK I : I = 1 .. h
    OBVIOUS
  <2>7. Cardinality(Range(found)) = Cardinality(I)
    BY <2>5, <2>6, FS_Bijection
  <2>8. QED  BY <2>6, <2>7
<1>13. ASSUME NEW i \in Range(found), NEW o \in matching \ Range(found)
       PROVE  Distance(q, entries[i].point) <= Distance(q, entries[o].point)
  <2>1. PICK l \in 1 .. h : i = rows[l]
    BY <1>10
  <2>2. PICK m \in 1 .. c : o = rows[m]
    BY <1>6
  <2>3. m \notin 1 .. h
    BY <1>10, <2>2
  <2>4. l \in 1 .. c /\ l < m
    BY <1>2, <1>7, <2>3
  <2>5. QED  BY <1>9, <2>1, <2>2, <2>4
<1>14. ASSUME NEW m \in 1 .. h - 1
       PROVE  Distance(q, entries[found[m]].point) <= Distance(q, entries[found[m + 1]].point)
  <2>1. m \in 1 .. h /\ m + 1 \in 1 .. h /\ m \in 1 .. c /\ m + 1 \in 1 .. c /\ m < m + 1
    BY <1>2, <1>7
  <2>2. found[m] = rows[m] /\ found[m + 1] = rows[m + 1]
    BY <1>7, <2>1
  <2>3. QED  BY <1>9, <2>1, <2>2
<1>15. matching = {i \in 1 .. Len(entries) : Matches(entries[i], kind, session)}
  BY DEF Matching
<1>16. QED
  <2>1. NearestFirst(found, q, k, kind, session) <=>
          /\ Range(found) \subseteq matching /\ Cardinality(Range(found)) = Len(found)
          /\ Len(found) = Least(k, Cardinality(matching))
          /\ \A i \in Range(found), o \in matching \ Range(found) :
               Distance(q, entries[i].point) <= Distance(q, entries[o].point)
          /\ \A m \in 1 .. Len(found) - 1 :
               Distance(q, entries[found[m]].point) <= Distance(q, entries[found[m + 1]].point)
    BY <1>15, Zenon DEF NearestFirst
  <2>2. QED  BY <1>7, <1>11, <1>12, <1>13, <1>14, <2>1

-----------------------------------------------------------------------------
(* Memory: the inductive invariant. *)

JobType == [pc : {"idle", "embed", "done", "failed"}, list : Seq(Candidates), done : Nat]

MemoryTypes ==
  /\ entries \in Seq([kind : MemoryKinds, session : Consolidations, point : Points])
  /\ vectors \in Seq(Points) /\ job \in [Consolidations -> JobType]

\* A call that embeds has an entry to store, and one that has not begun stored none.
JobsAtWork ==
  \A j \in Consolidations : /\ job[j].pc = "idle" => job[j].done = 0
                            /\ job[j].pc = "embed" => job[j].done < Len(job[j].list)

MemorySafe == MemoryTypes /\ EntriesHaveVectors /\ StoredInOrder /\ JobsAtWork

\* The rows of a consolidation, and those that are not after a row.
RowsOf(j) == {i \in 1 .. Len(entries) : entries[i].session = j}
RowsUpTo(j, i) == {m \in RowsOf(j) : m <= i}

\* A row is what was distilled at its place.
IsCandidate(e, c) == e.kind = c.kind /\ e.point = c.point

\* StoredInOrder, of one consolidation.
StoredOf(j) ==
  /\ Cardinality(RowsOf(j)) = job[j].done /\ job[j].done <= Len(job[j].list)
  /\ \A i \in RowsOf(j) : IsCandidate(entries[i], job[j].list[Cardinality(RowsUpTo(j, i))])
  /\ job[j].pc = "done" => job[j].done = Len(job[j].list)

\* StoredInOrder is said of each consolidation.
LEMMA StoredOfEach == StoredInOrder <=> \A j \in Consolidations : StoredOf(j)
BY DEF StoredInOrder, StoredOf, RowsOf, RowsUpTo, IsCandidate

\* The same after a step.
LEMMA StoredOfEachNext == (\A j \in Consolidations : StoredOf(j)') => StoredInOrder'
BY DEF StoredInOrder, StoredOf, RowsOf, RowsUpTo, IsCandidate

\* The rows of a consolidation are finitely many.
LEMMA RowsAreFinite ==
  ASSUME MemoryTypes, NEW j \in Consolidations
  PROVE  IsFiniteSet(RowsOf(j)) /\ RowsOf(j) \subseteq 1 .. Len(entries) /\ Len(entries) \in Nat
<1>1. Len(entries) \in Nat
  BY DEF MemoryTypes
<1>2. IsFiniteSet(1 .. Len(entries))
  BY <1>1, CountOfInterval
<1>3. RowsOf(j) \subseteq 1 .. Len(entries)
  BY DEF RowsOf
<1>4. QED  BY <1>1, <1>2, <1>3, FS_Subset

\* The rows stay when the entries do.
LEMMA RowsStay ==
  ASSUME UNCHANGED entries, NEW j
  PROVE  RowsOf(j)' = RowsOf(j) /\ \A i : RowsUpTo(j, i)' = RowsUpTo(j, i)
BY DEF RowsOf, RowsUpTo

\* The empty memory.
LEMMA MemorySafeInit == MemoryInit => MemorySafe
<1> SUFFICES ASSUME MemoryInit  PROVE MemorySafe
  OBVIOUS
<1>1. entries = <<>> /\ vectors = <<>> /\ job = [j \in Consolidations |-> NoJob] /\ NoJob \in JobType
  BY DEF MemoryInit, NoJob, JobType
<1>2. MemoryTypes /\ JobsAtWork
  BY <1>1 DEF MemoryTypes, JobsAtWork, NoJob
<1>3. EntriesHaveVectors
  BY <1>1 DEF EntriesHaveVectors
<1>4. ASSUME NEW j \in Consolidations  PROVE StoredOf(j)
  <2>1. RowsOf(j) = {}
    BY <1>1 DEF RowsOf
  <2>2. Cardinality(RowsOf(j)) = 0
    BY <2>1, FS_EmptySet
  <2>3. QED  BY <1>1, <2>1, <2>2 DEF StoredOf, NoJob
<1>5. QED  BY <1>2, <1>3, <1>4, StoredOfEach DEF MemorySafe

\* A call whose rows and entries stay and whose list is its own still stores in order.
LEMMA StoredStays ==
  ASSUME NEW j \in Consolidations, StoredOf(j), UNCHANGED entries,
         job'[j].list = job[j].list, job'[j].done = job[j].done,
         job'[j].pc = "done" => job[j].pc = "done"
  PROVE  StoredOf(j)'
<1>1. RowsOf(j)' = RowsOf(j) /\ \A i : RowsUpTo(j, i)' = RowsUpTo(j, i)
  BY RowsStay
<1>2. /\ Cardinality(RowsOf(j)) = job[j].done /\ job[j].done <= Len(job[j].list)
      /\ \A i \in RowsOf(j) : IsCandidate(entries[i], job[j].list[Cardinality(RowsUpTo(j, i))])
      /\ job[j].pc = "done" => job[j].done = Len(job[j].list)
  BY DEF StoredOf
<1>3. /\ Cardinality(RowsOf(j)') = job'[j].done /\ job'[j].done <= Len(job'[j].list)
      /\ job'[j].pc = "done" => job'[j].done = Len(job'[j].list)
  BY <1>1, <1>2
<1>4. ASSUME NEW i \in RowsOf(j)'
      PROVE  IsCandidate(entries[i], job[j].list[Cardinality(RowsUpTo(j, i))])'
  BY <1>1, <1>2 DEF IsCandidate
<1>5. QED  BY <1>3, <1>4 DEF StoredOf

\* A step that leaves the rows: each call keeps what it stored, or had stored nothing.
LEMMA MemorySafeWithoutRow ==
  ASSUME MemorySafe, NEW j \in Consolidations, UNCHANGED <<entries, vectors>>,
         NEW w \in JobType, job' = [job EXCEPT ![j] = w],
         w.pc = "embed" => w.done < Len(w.list), w.pc # "idle",
         \/ w.list = job[j].list /\ w.done = job[j].done /\ w.pc # "done"
         \/ job[j].done = 0 /\ w.done = 0 /\ (w.pc = "done" => Len(w.list) = 0)
  PROVE  MemorySafe'
<1>1. job \in [Consolidations -> JobType] /\ MemoryTypes'
  BY DEF MemorySafe, MemoryTypes
<1>2. job'[j] = w /\ \A i \in Consolidations \ {j} : job'[i] = job[i]
  BY <1>1
<1>3. EntriesHaveVectors'
  BY DEF MemorySafe, EntriesHaveVectors
<1>4. JobsAtWork'
  BY <1>2 DEF MemorySafe, JobsAtWork
<1>5. ASSUME NEW i \in Consolidations  PROVE StoredOf(i)'
  <2>1. StoredOf(i)
    BY StoredOfEach DEF MemorySafe
  <2>2. CASE i # j
    BY <1>2, <2>1, <2>2, StoredStays
  <2>3. CASE i = j /\ w.list = job[j].list /\ w.done = job[j].done /\ w.pc # "done"
    BY <1>2, <2>1, <2>3, StoredStays
  <2>4. CASE i = j /\ job[j].done = 0 /\ w.done = 0 /\ (w.pc = "done" => Len(w.list) = 0)
    <3>1. RowsOf(j) = {}
      <4>1. IsFiniteSet(RowsOf(j)) /\ Cardinality(RowsOf(j)) = 0
        BY <2>1, <2>4, RowsAreFinite DEF MemorySafe, StoredOf
      <4>2. QED  BY <4>1, FS_EmptySet
    <3>2. RowsOf(j)' = {}
      BY <3>1, RowsStay
    <3>3. Cardinality(RowsOf(j)') = 0
      BY <3>2, FS_EmptySet
    <3>4. Len(w.list) \in Nat
      BY DEF JobType
    <3>5. QED  BY <1>2, <2>4, <3>2, <3>3, <3>4 DEF StoredOf
  <2>5. QED  BY <2>2, <2>3, <2>4
<1>6. QED  BY <1>1, <1>3, <1>4, <1>5, StoredOfEachNext DEF MemorySafe

\* A session is distilled.
LEMMA DistillSafe ==
  ASSUME MemorySafe, NEW j \in Consolidations, Distill(j)
  PROVE  MemorySafe'
<1>1. job[j] \in JobType /\ job[j].pc = "idle" /\ job[j].done = 0 /\ UNCHANGED <<entries, vectors>>
  BY DEF MemorySafe, MemoryTypes, JobsAtWork, Distill
<1>2. ASSUME NEW n \in 0 .. MaxDistilled, NEW list \in [1 .. n -> Candidates],
             job' = [job EXCEPT ![j] = [pc |-> IF n = 0 THEN "done" ELSE "embed", list |-> list, done |-> 0]]
      PROVE  MemorySafe'
  <2> PICK w : w = [pc |-> IF n = 0 THEN "done" ELSE "embed", list |-> list, done |-> 0]
    OBVIOUS
  <2>1. n \in Nat
    BY MemoryAssumption
  <2>2. list \in Seq(Candidates) /\ Len(list) = n
    BY <2>1
  <2>3. w \in JobType /\ w.pc # "idle" /\ w.done = 0 /\ w.list = list
    BY <2>2 DEF JobType
  <2>4. (w.pc = "embed" => w.done < Len(w.list)) /\ (w.pc = "done" => Len(w.list) = 0)
    BY <2>1, <2>2
  <2>5. QED  BY <1>1, <1>2, <2>3, <2>4, MemorySafeWithoutRow
<1>3. ASSUME job' = [job EXCEPT ![j].pc = "failed"]  PROVE MemorySafe'
  <2> PICK w : w = [job[j] EXCEPT !.pc = "failed"]
    OBVIOUS
  <2>1. w \in JobType /\ w.pc = "failed" /\ w.done = job[j].done /\ w.list = job[j].list
    BY <1>1 DEF JobType
  <2>2. job' = [job EXCEPT ![j] = w]
    BY <1>3
  <2>3. QED  BY <1>1, <2>1, <2>2, MemorySafeWithoutRow
<1>4. QED  BY <1>2, <1>3 DEF Distill

\* An entry is not stored, and the rest of the list is lost.
LEMMA RememberFailsSafe ==
  ASSUME MemorySafe, NEW j \in Consolidations, RememberFails(j)
  PROVE  MemorySafe'
<1>1. job[j] \in JobType /\ UNCHANGED <<entries, vectors>> /\ job' = [job EXCEPT ![j].pc = "failed"]
  BY DEF MemorySafe, MemoryTypes, RememberFails, Rollback
<1> PICK w : w = [job[j] EXCEPT !.pc = "failed"]
  OBVIOUS
<1>2. w \in JobType /\ w.pc = "failed" /\ w.done = job[j].done /\ w.list = job[j].list
  BY <1>1 DEF JobType
<1>3. job' = [job EXCEPT ![j] = w]
  BY <1>1
<1>4. QED  BY <1>1, <1>2, <1>3, MemorySafeWithoutRow

\* An appended entry is a row of its consolidation alone, the last one.
LEMMA RowAppended ==
  ASSUME MemoryTypes, NEW e, entries' = Append(entries, e), NEW j \in Consolidations,
         NEW n, n = Len(entries)
  PROVE  /\ RowsOf(j)' = IF e.session = j THEN RowsOf(j) \cup {n + 1} ELSE RowsOf(j)
         /\ \A i \in 1 .. n : RowsUpTo(j, i)' = RowsUpTo(j, i)
         /\ RowsUpTo(j, n + 1)' = RowsOf(j)'
<1>1. n \in Nat /\ Len(entries') = n + 1
  BY DEF MemoryTypes
<1>2. entries'[n + 1] = e /\ \A i \in 1 .. n : entries'[i] = entries[i]
  BY DEF MemoryTypes
<1>3. RowsOf(j) = {i \in 1 .. n : entries[i].session = j} /\ RowsOf(j)' = {i \in 1 .. n + 1 : entries'[i].session = j}
  BY <1>1 DEF RowsOf
<1>4. \A i \in 1 .. n + 1 : i \in RowsOf(j)' <=> IF i = n + 1 THEN e.session = j ELSE i \in RowsOf(j)
  BY <1>1, <1>2, <1>3
<1>5. \A i \in 1 .. n + 1 : i \in 1 .. n \/ i = n + 1
  BY <1>1
<1>6. RowsOf(j)' \subseteq 1 .. n + 1 /\ RowsOf(j) \subseteq 1 .. n
  BY <1>3
<1>7. n + 1 \in 1 .. n + 1 /\ n + 1 \notin 1 .. n /\ \A i \in 1 .. n : i \in 1 .. n + 1 /\ i # n + 1
  BY <1>1
<1>8. RowsOf(j)' = IF e.session = j THEN RowsOf(j) \cup {n + 1} ELSE RowsOf(j)
  <2>1. ASSUME NEW x  PROVE x \in RowsOf(j)' <=> x \in IF e.session = j THEN RowsOf(j) \cup {n + 1} ELSE RowsOf(j)
    BY <1>4, <1>5, <1>6, <1>7, Zenon
  <2>2. QED  BY <2>1
<1>9. ASSUME NEW i \in 1 .. n  PROVE RowsUpTo(j, i)' = RowsUpTo(j, i)
  <2>1. i \in Nat /\ \A m \in 1 .. n + 1 : m <= i => m # n + 1
    BY <1>1
  <2>2. ASSUME NEW x  PROVE x \in RowsOf(j)' /\ x <= i <=> x \in RowsOf(j) /\ x <= i
    BY <1>4, <1>6, <1>7, <2>1, Zenon
  <2>3. RowsUpTo(j, i)' = {m \in RowsOf(j)' : m <= i} /\ RowsUpTo(j, i) = {m \in RowsOf(j) : m <= i}
    BY DEF RowsUpTo
  <2>4. QED  BY <2>2, <2>3
<1>10. RowsUpTo(j, n + 1)' = RowsOf(j)'
  <2>1. \A m \in 1 .. n + 1 : m <= n + 1
    BY <1>1
  <2>2. RowsUpTo(j, n + 1)' = {m \in RowsOf(j)' : m <= n + 1}
    BY DEF RowsUpTo, RowsOf
  <2>3. QED  BY <1>6, <2>1, <2>2
<1>11. QED  BY <1>8, <1>9, <1>10

\* A call stores the entry that is up next.
LEMMA RememberSafe ==
  ASSUME MemorySafe, NEW j \in Consolidations, Remember(j)
  PROVE  MemorySafe'
<1> PICK n : n = Len(entries)
  OBVIOUS
<1> PICK d : d = job[j].done
  OBVIOUS
<1> PICK c : c = job[j].list[d + 1]
  OBVIOUS
<1> PICK e : e = [kind |-> c.kind, session |-> j, point |-> c.point]
  OBVIOUS
<1> PICK w : w = [job[j] EXCEPT !.done = d + 1, !.pc = IF d + 1 = Len(job[j].list) THEN "done" ELSE "embed"]
  OBVIOUS
<1>1. /\ entries \in Seq([kind : MemoryKinds, session : Consolidations, point : Points])
      /\ vectors \in Seq(Points) /\ job \in [Consolidations -> JobType]
  BY DEF MemorySafe, MemoryTypes
<1>2. /\ job[j].pc = "embed" /\ job[j] \in JobType /\ d \in Nat /\ d < Len(job[j].list)
      /\ job[j].list \in Seq(Candidates) /\ Len(job[j].list) \in Nat
  BY <1>1 DEF Remember, MemorySafe, JobsAtWork, JobType
<1>3. c \in Candidates
  <2>1. d + 1 \in 1 .. Len(job[j].list)
    BY <1>2
  <2>2. QED  BY <1>2, <2>1
<1>4. e \in [kind : MemoryKinds, session : Consolidations, point : Points] /\ c.point \in Points
      /\ e.session = j /\ IsCandidate(e, c) /\ e.point = c.point
  BY <1>3 DEF Candidates, IsCandidate
<1>5. entries' = Append(entries, e) /\ vectors' = Append(vectors, c.point)
  BY DEF Remember, UpNext, Insert
<1>6. w \in JobType /\ w.list = job[j].list /\ w.done = d + 1
      /\ w.pc = IF d + 1 = Len(job[j].list) THEN "done" ELSE "embed"
  <2>1. w.list = job[j].list /\ w.done = d + 1 /\ DOMAIN w = {"pc", "list", "done"}
        /\ w.pc = IF d + 1 = Len(job[j].list) THEN "done" ELSE "embed"
    BY <1>2 DEF JobType
  <2>2. w = [pc |-> w.pc, list |-> w.list, done |-> w.done]
    BY <1>2 DEF JobType
  <2>3. w.pc \in {"embed", "done"} /\ w.list \in Seq(Candidates) /\ w.done \in Nat
    BY <1>2, <2>1
  <2>4. QED  BY <2>1, <2>2, <2>3 DEF JobType
<1>7. job' = [job EXCEPT ![j] = w]
  BY <1>1 DEF Remember
<1>8. job'[j] = w /\ \A i \in Consolidations \ {j} : job'[i] = job[i]
  BY <1>1, <1>7
<1>9. MemoryTypes'
  <2>1. entries' \in Seq([kind : MemoryKinds, session : Consolidations, point : Points]) /\ vectors' \in Seq(Points)
    BY <1>1, <1>4, <1>5
  <2>2. job' \in [Consolidations -> JobType]
    BY <1>1, <1>6, <1>7
  <2>3. QED  BY <2>1, <2>2 DEF MemoryTypes
<1>10. JobsAtWork'
  <2>1. w.pc # "idle" /\ (w.pc = "embed" => w.done < Len(w.list))
    BY <1>2, <1>6
  <2>2. QED  BY <1>8, <2>1 DEF MemorySafe, JobsAtWork
<1>11. n \in Nat /\ Len(entries') = n + 1 /\ entries'[n + 1] = e /\ \A i \in 1 .. n : entries'[i] = entries[i]
  BY <1>1, <1>5
<1>12. EntriesHaveVectors'
  <2>1. Len(vectors) = n /\ \A i \in 1 .. n : vectors[i] = entries[i].point
    BY DEF MemorySafe, EntriesHaveVectors
  <2>2. Len(vectors') = n + 1 /\ vectors'[n + 1] = c.point /\ \A i \in 1 .. n : vectors'[i] = vectors[i]
    BY <1>1, <1>5, <2>1
  <2>3. \A i \in 1 .. n + 1 : vectors'[i] = entries'[i].point
    BY <1>4, <1>11, <2>1, <2>2
  <2>4. QED  BY <1>11, <2>2, <2>3 DEF EntriesHaveVectors
<1>13. ASSUME NEW i \in Consolidations  PROVE StoredOf(i)'
  <2>1. /\ Cardinality(RowsOf(i)) = job[i].done /\ job[i].done <= Len(job[i].list)
        /\ \A m \in RowsOf(i) : IsCandidate(entries[m], job[i].list[Cardinality(RowsUpTo(i, m))])
        /\ job[i].pc = "done" => job[i].done = Len(job[i].list)
    BY StoredOfEach DEF MemorySafe, StoredOf
  <2>2. /\ RowsOf(i)' = IF i = j THEN RowsOf(i) \cup {n + 1} ELSE RowsOf(i)
        /\ \A m \in 1 .. n : RowsUpTo(i, m)' = RowsUpTo(i, m)
        /\ RowsUpTo(i, n + 1)' = RowsOf(i)'
    BY <1>4, <1>5, RowAppended DEF MemorySafe
  <2>3. IsFiniteSet(RowsOf(i)) /\ RowsOf(i) \subseteq 1 .. n
    BY RowsAreFinite DEF MemorySafe
  <2>4. ASSUME NEW m \in RowsOf(i)
        PROVE  IsCandidate(entries'[m], job[i].list[Cardinality(RowsUpTo(i, m)')])
    <3>1. m \in 1 .. n
      BY <2>3
    <3>2. QED  BY <1>11, <2>1, <2>2, <3>1
  <2>5. CASE i # j
    <3>1. RowsOf(i)' = RowsOf(i) /\ job'[i] = job[i]
      BY <1>8, <2>2, <2>5
    <3>2. \A m \in RowsOf(i)' : IsCandidate(entries[m], job[i].list[Cardinality(RowsUpTo(i, m))])'
      BY <2>4, <3>1 DEF IsCandidate
    <3>3. QED  BY <2>1, <3>1, <3>2 DEF StoredOf
  <2>6. CASE i = j
    <3>1. RowsOf(j)' = RowsOf(j) \cup {n + 1} /\ n + 1 \notin RowsOf(j)
      BY <1>11, <2>2, <2>3, <2>6
    <3>2. Cardinality(RowsOf(j) \cup {n + 1}) = d + 1
      <4>1. Cardinality(RowsOf(j) \cup {n + 1}) = Cardinality(RowsOf(j)) + 1
        BY <2>3, <2>6, <3>1, FS_AddElement
      <4>2. QED  BY <2>1, <2>6, <4>1
    <3>3. IsCandidate(entries'[n + 1], job[j].list[Cardinality(RowsUpTo(j, n + 1)')])
      <4>1. Cardinality(RowsUpTo(j, n + 1)') = d + 1
        BY <2>2, <2>6, <3>1, <3>2
      <4>2. QED  BY <1>4, <1>11, <4>1
    <3>4. ASSUME NEW m \in RowsOf(j)'
          PROVE  IsCandidate(entries'[m], job'[j].list[Cardinality(RowsUpTo(j, m)')])
      <4>1. m \in RowsOf(j) \/ m = n + 1
        BY <3>1
      <4>2. job'[j].list = job[j].list
        BY <1>6, <1>8
      <4>3. CASE m \in RowsOf(j)
        BY <2>4, <2>6, <4>2, <4>3
      <4>4. CASE m = n + 1
        BY <3>3, <4>2, <4>4
      <4>5. QED  BY <4>1, <4>3, <4>4
    <3>5. \A m \in RowsOf(j)' : IsCandidate(entries[m], job[j].list[Cardinality(RowsUpTo(j, m))])'
      BY <3>4 DEF IsCandidate
    <3>6. /\ Cardinality(RowsOf(j)') = job'[j].done /\ job'[j].done <= Len(job'[j].list)
          /\ job'[j].pc = "done" => job'[j].done = Len(job'[j].list)
      BY <1>2, <1>6, <1>8, <3>1, <3>2
    <3>7. QED  BY <2>6, <3>5, <3>6 DEF StoredOf
  <2>7. QED  BY <2>5, <2>6
<1>14. QED  BY <1>9, <1>10, <1>12, <1>13, StoredOfEachNext DEF MemorySafe

\* No step leaves the safe memory.
LEMMA MemorySafeNext == MemorySafe /\ [MemoryNext]_memoryVars => MemorySafe'
<1> SUFFICES ASSUME MemorySafe, [MemoryNext]_memoryVars  PROVE MemorySafe'
  OBVIOUS
<1>1. CASE UNCHANGED memoryVars
  <2>1. MemoryTypes' /\ EntriesHaveVectors' /\ JobsAtWork'
    BY <1>1 DEF memoryVars, MemorySafe, MemoryTypes, EntriesHaveVectors, JobsAtWork
  <2>2. ASSUME NEW j \in Consolidations  PROVE StoredOf(j)'
    BY <1>1, StoredOfEach, StoredStays DEF memoryVars, MemorySafe
  <2>3. QED  BY <2>1, <2>2, StoredOfEachNext DEF MemorySafe
<1>2. ASSUME NEW j \in Consolidations, Distill(j)  PROVE MemorySafe'
  BY <1>2, DistillSafe
<1>3. ASSUME NEW j \in Consolidations, Remember(j)  PROVE MemorySafe'
  BY <1>3, RememberSafe
<1>4. ASSUME NEW j \in Consolidations, RememberFails(j)  PROVE MemorySafe'
  BY <1>4, RememberFailsSafe
<1>5. QED  BY <1>1, <1>2, <1>3, <1>4 DEF MemoryNext

\* RecallIsNearest, for every query and number of neighbours.
EveryRecall ==
  \A q \in Nat, k \in Nat, kind \in MemoryKinds \cup {"any"}, session \in Consolidations \cup {"any"} :
    NearestFirst(QueryKnn(q, k, kind, session), q, k, kind, session)

\* A safe memory recalls the nearest.
LEMMA MemoryRecalls ==
  ASSUME MemorySafe
  PROVE  EveryRecall /\ RecallIsNearest
<1>1. vectors \in Seq(Nat) /\ EntriesHaveVectors
  <2>1. vectors \in Seq(Points) /\ EntriesHaveVectors
    BY DEF MemorySafe, MemoryTypes
  <2>2. Points \subseteq Nat
    BY MemoryAssumption
  <2>3. vectors \in Seq(Nat)
    BY <2>1, <2>2, SeqMonotonic
  <2>4. QED  BY <2>1, <2>3
<1>2. EveryRecall
  BY <1>1, RecallFinds DEF EveryRecall
<1>3. \A q \in Points, k \in 1 .. 2 : q \in Nat /\ k \in Nat
  BY MemoryAssumption
<1>4. QED  BY <1>2, <1>3 DEF EveryRecall, RecallIsNearest

\* The invariant holds in every behaviour: a failure between two entries, and another consolidation
\* there, leave what is stored whole and in order (ConsolidationService, MemoryStore.insert).
THEOREM MemorySafety == MemorySpec => []MemorySafe
BY MemorySafeInit, MemorySafeNext, PTL DEF MemorySpec

\* Recall gives the nearest whatever is asked: the whole store is ranked before it is filtered and
\* cut, so that no filter hides an entry that matches (MemoryStore.queryKnn).
THEOREM RecallIsComplete == MemorySpec => []EveryRecall
BY MemorySafety, MemoryRecalls, PTL

\* However many consolidations overlap and wherever one of them fails, every entry has its vector,
\* a consolidation has stored a beginning of what it distilled, in order, and recall gives the
\* nearest entries that match (MemoryStore.insert, ConsolidationService, MemoryStore.queryKnn).
THEOREM MemoryIsSound == MemorySpec => []MemoryInv
<1>1. MemorySafe => MemoryInv
  BY MemoryRecalls DEF MemorySafe, MemoryInv
<1>2. QED  BY <1>1, MemorySafety, PTL
=============================================================================
