-------------------------- MODULE Services_proofs ---------------------------
(***************************************************************************)
(* Proofs about the smaller services: the owner's model for the chat       *)
(* (ChatPreference), the backups of the editor's projects (Snapshots), the *)
(* environment of the preview apps (Previews), the nightly report and its  *)
(* morning alert (Nightly), and the Telegram bot's alerts and conversation *)
(* (TelegramAlerts, TelegramSessions).                                     *)
(***************************************************************************)
EXTENDS ChatPreference, Snapshots, Previews, Nightly, TelegramAlerts, TelegramSessions, Integers, FiniteSetTheorems, TLAPS

(***************************************************************************)
(* ChatPreference                                                          *)
(***************************************************************************)

\* The preferences the service can store.
Preferences ==
  {p \in [model : Catalog \cup {"default"}, effort : {"none", "high"}] :
     p.effort # "none" => p.model \in WithEffort}

Answers == [pc : {"free", "cache"}, pref : Preferences, writes : {"no", "yes"}, met : {"no", "yes"}]

PreferenceTypeOK ==
  /\ row \in Preferences /\ cached \in Preferences
  /\ asking \in [Requests -> Answers]
  /\ prefFaults \in Nat /\ trusted \in {"no", "yes"}

\* A request that met no other is alone, and is about to cache the row.
UnmetIsAlone ==
  \A q \in Asking : asking[q].met = "no" => Asking = {q} /\ asking[q].pref = row

\* Requests that only read, and may still fail, leave a trusted copy as it is.
TrustedCopy ==
  trusted = "yes" /\ (\A q \in Asking : asking[q].writes = "no") => cached = row

PreferenceSafe == PreferenceTypeOK /\ UnmetIsAlone /\ TrustedCopy

(***************************************************************************)
(* Snapshots                                                               *)
(***************************************************************************)

SnapshotSteps == {"idle", "insert", "save", "restore", "remove", "delete"}

SnapshotTypeOK ==
  /\ saved \subseteq 1 .. written /\ written \in 0 .. MaxSaved /\ snapshotFaults \in Nat
  /\ ask \in [SnapshotCalls -> [pc : SnapshotSteps, row : 0 .. MaxSaved]]
  /\ \A c \in SnapshotCalls : ask[c].pc \notin {"idle", "insert"} => ask[c].row \in 1 .. written
  /\ audited \in [Deeds -> Nat] /\ unlogged \subseteq Deeds /\ restored \subseteq Rows

\* The calls that counted and have not written.
Inserting == {c \in SnapshotCalls : ask[c].pc = "insert"}

RoomIsShared == Cardinality(saved) + Cardinality(Inserting) <= MaxSnapshots + Cardinality(SnapshotCalls) - 1

\* A call that is about to audit a save or a deletion is the only one, and the first.
OneAuthorOf(what) ==
  \A c \in SnapshotCalls :
    ask[c].pc = what => /\ audited[<<what, ask[c].row>>] = 0
                        /\ \A o \in SnapshotCalls : ask[o].pc = what /\ ask[o].row = ask[c].row => o = c

OneAuthor == OneAuthorOf("save") /\ OneAuthorOf("delete")

\* What has not happened has not been audited, and no call is at it.
NothingYet ==
  \A r \in Rows :
    /\ r > written => audited[<<"save", r>>] = 0
    /\ r > written \/ r \in saved =>
         audited[<<"delete", r>>] = 0 /\ \A c \in SnapshotCalls : ~(ask[c].pc = "delete" /\ ask[c].row = r)

\* A deed is audited, a call is at it, or its audit failed.
Known(what, r) ==
  \/ audited[<<what, r>>] = 1
  \/ \E c \in SnapshotCalls : ask[c].pc = what /\ ask[c].row = r
  \/ <<what, r>> \in unlogged

SavesKnown == \A r \in 1 .. written : Known("save", r)
DeletionsKnown == \A r \in 1 .. written : r \notin saved => Known("delete", r)
RestoresKnown == \A r \in restored : audited[<<"restore", r>>] = 1
AuditedOnce == \A d \in Deeds : audited[d] <= 1

SnapshotSafe ==
  /\ SnapshotTypeOK /\ RoomIsShared /\ OneAuthor /\ NothingYet
  /\ SavesKnown /\ DeletionsKnown /\ RestoresKnown /\ AuditedOnce

(***************************************************************************)
(* Previews                                                                *)
(***************************************************************************)

PublishSteps == {"free", "create", "run", "record", "done", "failed"}

PreviewShape ==
  /\ publish \in [Publishes -> [pc : PublishSteps, env : {"no", "yes"}]]
  /\ vault \in [Publishes -> {"none", "kept", "expired"}]
  /\ approval \in [Publishes -> {"none", "pending", "running", "resolved", "rejected", "stuck"}]
  /\ pod \subseteq [of : Publishes, env : {"no", "yes"}] /\ logged \subseteq Publishes
  /\ given \in [Publishes -> 0 .. 1] /\ previewFaults \in Nat

VaultIsBounded == Cardinality(Kept(vault)) <= MaxEntries

\* One request: its call, its entry of the vault, its approval, what was given of it.
RequestOK(call, entry, appr, gave, isLogged) ==
  /\ entry # "none" => call.env = "yes" /\ gave = 0 /\ call.pc \in {"create", "done"} /\ appr # "running"
  /\ gave = 1 => call.env = "yes"
  /\ call.pc = "free" => gave = 0
  /\ call.pc = "create" => gave = 0
  /\ call.pc \in {"free", "create", "run", "record"} => appr = "none"
  /\ appr = "running" => isLogged /\ (call.env = "yes" => gave = 1)

RequestsOK ==
  \A p \in Publishes : RequestOK(publish[p], vault[p], approval[p], given[p], p \in logged)

PodsOK ==
  \A s \in pod : /\ s.env = publish[s.of].env
                 /\ publish[s.of].pc \notin {"free", "create", "run"}
                 /\ publish[s.of].pc = "done" => s.of \in logged

PreviewSafe == PreviewShape /\ VaultIsBounded /\ RequestsOK /\ PodsOK


-----------------------------------------------------------------------------
\* setPreference, clear and a GET store and take along preferences only.
LEMMA SuitedIsPreference ==
  ASSUME NEW model \in Catalog, NEW effort \in {"none", "high"}
  PROVE  Suited(model, effort) \in Preferences
BY DEF Suited, Preferences

\* No row and an answer that has not come are a preference and an answer like any other.
LEMMA NoPreferenceIsOne == NoPreference \in Preferences /\ Waiting \in Answers
BY DEF NoPreference, Preferences, Waiting, Answers

\* A request begins, with the row it stored or read: it is alone, or nobody is unmet.
LEMMA AskStep ==
  ASSUME PreferenceSafe, NEW q \in Requests, NEW pref \in Preferences, NEW writes \in {"no", "yes"},
         asking[q].pc = "free", row' = pref, Asks(q, pref, writes),
         writes = "yes" \/ row' = row,
         UNCHANGED <<cached, prefFaults, trusted>>
  PROVE  PreferenceSafe'
<1> USE DEF PreferenceSafe
<1> DEFINE new == [pc |-> "cache", pref |-> pref, writes |-> writes, met |-> IF Asking = {} THEN "no" ELSE "yes"]
<1>1. new \in Answers /\ new.pc = "cache" /\ new.pref = pref /\ new.writes = writes
      /\ new.met = (IF Asking = {} THEN "no" ELSE "yes")
  BY DEF Answers
<1>2. asking'[q] = new
  BY DEF Asks
<1>3. ASSUME NEW o \in Requests, o # q
      PROVE  /\ asking'[o] \in Answers
             /\ o \notin Asking => asking'[o] = asking[o]
             /\ o \in Asking => asking'[o].pc = "cache" /\ asking'[o].met = "yes" /\ asking'[o].writes = asking[o].writes
             /\ asking'[o].pc = asking[o].pc
  <2>1. asking[o] \in Answers
    BY DEF PreferenceTypeOK
  <2>2. asking'[o] = IF o \in Asking THEN [asking[o] EXCEPT !.met = "yes"] ELSE asking[o]
    BY <1>3 DEF Asks
  <2> QED
    BY <2>1, <2>2 DEF Answers, Asking
<1> HIDE DEF new
<1>4. asking' \in [Requests -> Answers]
  <2>1. asking' = [o \in Requests |-> asking'[o]]
    BY DEF Asks
  <2>2. \A o \in Requests : asking'[o] \in Answers
    BY <1>1, <1>2, <1>3
  <2> QED
    BY <2>1, <2>2
<1>5. PreferenceTypeOK'
  BY <1>4 DEF PreferenceTypeOK
<1>6. Asking' = Asking \cup {q} /\ q \notin Asking
  BY <1>1, <1>2, <1>3 DEF Asking
<1>7. UnmetIsAlone'
  <2> SUFFICES ASSUME NEW o \in Asking', asking'[o].met = "no"
               PROVE  Asking' = {o} /\ asking'[o].pref = row'
    BY DEF UnmetIsAlone
  <2>1. o = q
    BY <1>3, <1>6 DEF Asking
  <2>2. Asking = {}
    BY <2>1, <1>1, <1>2
  <2> QED
    BY <2>1, <2>2, <1>1, <1>2, <1>6
<1>8. TrustedCopy'
  <2> SUFFICES ASSUME trusted = "yes", \A o \in Asking' : asking'[o].writes = "no"
               PROVE  cached = row'
    BY DEF TrustedCopy
  <2>1. writes = "no"
    BY <1>1, <1>2, <1>6
  <2>2. \A o \in Asking : asking[o].writes = "no"
    BY <1>3, <1>6 DEF Asking
  <2> QED
    BY <2>1, <2>2 DEF TrustedCopy
<1> QED
  BY <1>5, <1>7, <1>8

\* A request ends: those that are left were met by it.
LEMMA LeaveStep ==
  ASSUME PreferenceSafe, NEW q \in Requests, asking[q].pc = "cache",
         asking' = [asking EXCEPT ![q] = Waiting], row' = row
  PROVE  /\ asking' \in [Requests -> Answers] /\ Asking' = Asking \ {q} /\ q \in Asking
         /\ \A o \in Asking' : asking'[o] = asking[o]
         /\ UnmetIsAlone'
<1>1. asking \in [Requests -> Answers] /\ asking' \in [Requests -> Answers]
  BY NoPreferenceIsOne DEF PreferenceSafe, PreferenceTypeOK
<1>2. asking'[q].pc = "free" /\ \A o \in Requests : o # q => asking'[o] = asking[o]
  BY <1>1 DEF Waiting
<1>3. Asking' = Asking \ {q} /\ q \in Asking
  BY <1>2 DEF Asking
<1>4. \A o \in Asking' : o # q /\ o \in Requests
  BY <1>2, <1>3 DEF Asking
<1>5. UnmetIsAlone'
  BY <1>2, <1>3, <1>4 DEF PreferenceSafe, UnmetIsAlone
<1> QED
  BY <1>1, <1>2, <1>3, <1>4, <1>5

\* Every step of the preference service keeps PreferenceSafe.
LEMMA PreferenceStep == PreferenceSafe /\ [PrefNext]_prefVars => PreferenceSafe'
<1> SUFFICES ASSUME PreferenceSafe, [PrefNext]_prefVars PROVE PreferenceSafe'
  OBVIOUS
<1>1. ASSUME NEW q \in Requests, SetPreference(q) PROVE PreferenceSafe'
  <2> PICK model \in Catalog, effort \in {"none", "high"} :
         row' = Suited(model, effort) /\ Asks(q, Suited(model, effort), "yes")
    BY <1>1 DEF SetPreference
  <2>1. Suited(model, effort) \in Preferences
    BY SuitedIsPreference
  <2> QED
    BY <1>1, <2>1, AskStep DEF SetPreference
<1>2. ASSUME NEW q \in Requests, ClearPreference(q) PROVE PreferenceSafe'
  BY <1>2, AskStep, NoPreferenceIsOne DEF ClearPreference
<1>3. ASSUME NEW q \in Requests, Refresh(q) PROVE PreferenceSafe'
  <2>1. row \in Preferences
    BY DEF PreferenceSafe, PreferenceTypeOK
  <2> QED
    BY <1>3, <2>1, AskStep DEF Refresh
<1>4. ASSUME NEW q \in Requests, Cache(q) PROVE PreferenceSafe'
  <2>1. /\ asking' \in [Requests -> Answers] /\ Asking' = Asking \ {q} /\ q \in Asking
        /\ \A o \in Asking' : asking'[o] = asking[o]
        /\ UnmetIsAlone'
    BY <1>4, LeaveStep DEF Cache
  <2>2. asking[q] \in Answers /\ asking[q].pref \in Preferences /\ asking[q].met \in {"no", "yes"}
    BY DEF PreferenceSafe, PreferenceTypeOK, Answers
  <2>3. PreferenceTypeOK'
    BY <1>4, <2>1, <2>2 DEF PreferenceSafe, PreferenceTypeOK, Cache
  <2>4. TrustedCopy'
    BY <1>4, <2>1, <2>2 DEF PreferenceSafe, UnmetIsAlone, TrustedCopy, Cache
  <2> QED
    BY <2>1, <2>3, <2>4 DEF PreferenceSafe
<1>5. ASSUME NEW q \in Requests, PreferenceFails(q) PROVE PreferenceSafe'
  <2>1. /\ asking' \in [Requests -> Answers] /\ Asking' = Asking \ {q} /\ q \in Asking
        /\ \A o \in Asking' : asking'[o] = asking[o]
        /\ UnmetIsAlone'
    BY <1>5, LeaveStep DEF PreferenceFails
  <2>2. asking[q].writes \in {"no", "yes"}
    BY DEF PreferenceSafe, PreferenceTypeOK, Answers
  <2>3. PreferenceTypeOK'
    BY <1>5, <2>1 DEF PreferenceSafe, PreferenceTypeOK, PreferenceFails, PrefFault
  <2>4. TrustedCopy'
    BY <1>5, <2>1, <2>2 DEF PreferenceSafe, TrustedCopy, PreferenceFails
  <2> QED
    BY <2>1, <2>3, <2>4 DEF PreferenceSafe
<1>6. CASE PreferenceRestart
  <2>1. PreferenceTypeOK'
    BY <1>6, NoPreferenceIsOne DEF PreferenceSafe, PreferenceTypeOK, PreferenceRestart, PrefFault
  <2>2. Asking' = {}
    BY <1>6 DEF PreferenceRestart, Asking, Waiting
  <2> QED
    BY <1>6, <2>1, <2>2 DEF PreferenceSafe, UnmetIsAlone, TrustedCopy, PreferenceRestart
<1>7. CASE UNCHANGED prefVars
  BY <1>7 DEF prefVars, PreferenceSafe, PreferenceTypeOK, UnmetIsAlone, TrustedCopy, Asking
<1> QED
  BY <1>1, <1>2, <1>3, <1>4, <1>5, <1>6, <1>7 DEF PrefNext

\* The inductive invariant of the chat's model preference holds for every catalog, number of
\* requests and faults.
THEOREM PreferenceSafety == PrefSpec => []PreferenceSafe
<1>1. PrefInit => PreferenceSafe
  BY NoPreferenceIsOne DEF PrefInit, PreferenceSafe, PreferenceTypeOK, UnmetIsAlone, TrustedCopy, Asking, Waiting
<1> QED
  BY <1>1, PreferenceStep, PTL DEF PrefSpec

\* The copy that the router uses is the stored preference as soon as one request met no other,
\* and its effort is one the model takes.
THEOREM PreferenceIsStored == PrefSpec => []PreferenceInv
<1>1. PreferenceSafe => PreferenceInv
  BY DEF PreferenceSafe, PreferenceInv, CopyIsStored, EffortIsTaken, TrustedCopy, PreferenceTypeOK, Preferences
<1> QED
  BY <1>1, PreferenceSafety, PTL


-----------------------------------------------------------------------------
\* Sizes of sets that gain or lose at most one element.
LEMMA SizeOfAdded ==
  ASSUME NEW S, IsFiniteSet(S), NEW x
  PROVE  /\ IsFiniteSet(S \cup {x}) /\ Cardinality(S) \in Nat /\ Cardinality(S \cup {x}) \in Nat
         /\ Cardinality(S \cup {x}) <= Cardinality(S) + 1
<1>1. Cardinality(S) \in Nat
  BY FS_CardinalityType
<1>2. IsFiniteSet(S \cup {x}) /\ (Cardinality(S \cup {x}) = Cardinality(S) \/ Cardinality(S \cup {x}) = Cardinality(S) + 1)
  BY FS_AddElement
<1> QED
  BY <1>1, <1>2

\* A delete of a row of the table makes the table smaller by one.
LEMMA SizeOfRemoved ==
  ASSUME NEW S, IsFiniteSet(S), NEW x \in S
  PROVE  /\ IsFiniteSet(S \ {x}) /\ Cardinality(S) \in Nat /\ Cardinality(S \ {x}) \in Nat
         /\ Cardinality(S \ {x}) + 1 = Cardinality(S)
<1>1. Cardinality(S) \in Nat
  BY FS_CardinalityType
<1>2. IsFiniteSet(S \ {x}) /\ Cardinality(S \ {x}) = Cardinality(S) - 1
  BY FS_RemoveElement
<1>3. Cardinality(S \ {x}) \in Nat
  BY <1>2, FS_CardinalityType
<1> QED
  BY <1>1, <1>2, <1>3

\* A part of a finite table is finite and no larger.
LEMMA SizeOfPart ==
  ASSUME NEW S, IsFiniteSet(S), NEW T \in SUBSET S
  PROVE  /\ IsFiniteSet(T) /\ Cardinality(T) \in Nat /\ Cardinality(S) \in Nat /\ Cardinality(T) <= Cardinality(S)
BY FS_Subset, FS_CardinalityType

\* The rows and the calls that are about to insert are finitely many.
LEMMA SnapshotsAreFinite ==
  ASSUME SnapshotTypeOK
  PROVE  /\ IsFiniteSet(saved) /\ IsFiniteSet(Inserting) /\ IsFiniteSet(SnapshotCalls)
         /\ Cardinality(SnapshotCalls) \in Nat /\ Cardinality(SnapshotCalls) >= 1
<1>1. IsFiniteSet(1 .. written)
  <2>1. written \in Int /\ 1 \in Int
    BY SnapshotAssumption DEF SnapshotTypeOK
  <2> QED
    BY ONLY <2>1, FS_Interval, Zenon
<1>2. IsFiniteSet(saved)
  BY <1>1, FS_Subset DEF SnapshotTypeOK
<1>3. IsFiniteSet(SnapshotCalls) /\ Cardinality(SnapshotCalls) \in Nat
  BY SnapshotAssumption, FS_CardinalityType
<1>4. IsFiniteSet(Inserting)
  BY <1>3, FS_Subset DEF Inserting
<1>5. Cardinality(SnapshotCalls) # 0
  BY <1>3, SnapshotAssumption, FS_EmptySet
<1> QED
  BY <1>2, <1>3, <1>4, <1>5

\* A count that finds room: the limit may be passed only by the others.
LEMMA RoomIsKept ==
  ASSUME SnapshotSafe, [SnapshotNext]_snapshotVars
  PROVE  RoomIsShared'
<1> DEFINE N == Cardinality(SnapshotCalls)
<1>1. /\ IsFiniteSet(saved) /\ IsFiniteSet(Inserting) /\ IsFiniteSet(SnapshotCalls)
      /\ N \in Nat /\ N >= 1 /\ MaxSnapshots \in Nat
  BY SnapshotsAreFinite, SnapshotAssumption DEF SnapshotSafe
<1>2. Cardinality(saved) \in Nat /\ Cardinality(Inserting) \in Nat
  BY <1>1, FS_CardinalityType
<1>3. Cardinality(saved) + Cardinality(Inserting) <= MaxSnapshots + N - 1
  BY DEF SnapshotSafe, RoomIsShared
<1>4. ask \in [SnapshotCalls -> [pc : SnapshotSteps, row : 0 .. MaxSaved]]
  BY DEF SnapshotSafe, SnapshotTypeOK
<1> HIDE DEF N
<1> SUFFICES Cardinality(saved') + Cardinality(Inserting') <= MaxSnapshots + N - 1
  BY DEF RoomIsShared, N
<1>5. ASSUME saved' \subseteq saved, Inserting' \subseteq Inserting
      PROVE  Cardinality(saved') + Cardinality(Inserting') <= MaxSnapshots + N - 1
  <2>1. Cardinality(saved') \in Nat /\ Cardinality(saved') <= Cardinality(saved)
    BY <1>1, <1>5, SizeOfPart
  <2>2. Cardinality(Inserting') \in Nat /\ Cardinality(Inserting') <= Cardinality(Inserting)
    BY <1>1, <1>5, SizeOfPart
  <2> QED
    BY <1>1, <1>2, <1>3, <2>1, <2>2
<1>6. ASSUME NEW c \in SnapshotCalls, CountSnapshots(c)
      PROVE  Cardinality(saved') + Cardinality(Inserting') <= MaxSnapshots + N - 1
  <2>1. Inserting' \subseteq SnapshotCalls
    BY DEF Inserting
  <2>2. Cardinality(Inserting') \in Nat /\ Cardinality(Inserting') <= N
    BY <1>1, <2>1, SizeOfPart DEF N
  <2>3. saved' = saved /\ Cardinality(saved) < MaxSnapshots
    BY <1>6 DEF CountSnapshots, SnapshotRoom
  <2> QED
    BY <1>1, <1>2, <2>2, <2>3
<1>7. ASSUME NEW c \in SnapshotCalls, InsertSnapshot(c)
      PROVE  Cardinality(saved') + Cardinality(Inserting') <= MaxSnapshots + N - 1
  <2>1. c \in Inserting /\ Inserting' = Inserting \ {c} /\ saved' = saved \cup {written + 1}
    BY <1>4, <1>7 DEF InsertSnapshot, Inserting
  <2>2. Cardinality(saved') \in Nat /\ Cardinality(saved') <= Cardinality(saved) + 1
    BY <1>1, <2>1, SizeOfAdded
  <2>3. Cardinality(Inserting') \in Nat /\ Cardinality(Inserting') + 1 = Cardinality(Inserting)
    BY <1>1, <2>1, SizeOfRemoved
  <2> QED
    BY <1>1, <1>2, <1>3, <2>2, <2>3
<1>8. ASSUME NEW c \in SnapshotCalls, DeleteSnapshot(c) \/ AuditSnapshot(c) \/ SnapshotFails(c)
      PROVE  saved' \subseteq saved /\ Inserting' \subseteq Inserting
  BY <1>4, <1>8 DEF DeleteSnapshot, AuditSnapshot, SnapshotFails, Inserting, Resting
<1>9. ASSUME NEW c \in SnapshotCalls, NEW r \in Rows, GetSnapshot(c, r) \/ FindSnapshot(c, r)
      PROVE  saved' \subseteq saved /\ Inserting' \subseteq Inserting
  BY <1>4, <1>9 DEF GetSnapshot, FindSnapshot, Inserting
<1>10. CASE UNCHANGED snapshotVars
  BY <1>5, <1>10 DEF snapshotVars, Inserting
<1> QED
  BY <1>5, <1>6, <1>7, <1>8, <1>9, <1>10 DEF SnapshotNext


\* Rows and deeds.
LEMMA DeedsOfRows ==
  /\ \A r \in Rows, w \in {"save", "restore", "delete"} : <<w, r>> \in Deeds
  /\ \A d \in Deeds : \E r \in Rows, w \in {"save", "restore", "delete"} : d = <<w, r>>
BY DEF Deeds

\* The count of a create, the reads of a get and of a delete: one call moves, to an author of nothing.
LEMMA QuietSnapshotStep ==
  ASSUME SnapshotSafe, NEW c \in SnapshotCalls, ask[c].pc = "idle",
         NEW s \in [pc : {"insert", "restore", "remove"}, row : 0 .. MaxSaved],
         s.pc # "insert" => s.row \in 1 .. written,
         ask' = [ask EXCEPT ![c] = s], RoomIsShared',
         UNCHANGED <<saved, written, snapshotFaults, audited, unlogged, restored>>
  PROVE  SnapshotSafe'
<1> USE DEF SnapshotSafe
<1>1. ask' \in [SnapshotCalls -> [pc : SnapshotSteps, row : 0 .. MaxSaved]]
  BY DEF SnapshotTypeOK, SnapshotSteps
<1>2. ask'[c] = s /\ \A o \in SnapshotCalls : o # c => ask'[o] = ask[o]
  BY DEF SnapshotTypeOK
<1>3. s.pc \in {"insert", "restore", "remove"}
  OBVIOUS
<1>4. SnapshotTypeOK'
  BY <1>1, <1>2 DEF SnapshotTypeOK
<1>5. OneAuthor' /\ NothingYet'
  BY <1>2, <1>3 DEF OneAuthor, OneAuthorOf, NothingYet
<1>6. ASSUME NEW w \in {"save", "delete"}, NEW r PROVE Known(w, r) => Known(w, r)'
  BY <1>2 DEF Known
<1> QED
  BY <1>4, <1>5, <1>6 DEF SavesKnown, DeletionsKnown, RestoresKnown, AuditedOnce

\* The insert of a create: a row of its own, and the call that will audit it.
LEMMA InsertStep ==
  ASSUME SnapshotSafe, NEW c \in SnapshotCalls, InsertSnapshot(c), RoomIsShared'
  PROVE  SnapshotSafe'
<1> USE DEF SnapshotSafe
<1>0. written \in Nat /\ MaxSaved \in Nat /\ written < MaxSaved
  BY SnapshotAssumption DEF SnapshotTypeOK, InsertSnapshot
<1> PICK n \in Nat : n = written + 1
  BY <1>0
<1>1. n \in Rows /\ n \in 1 .. n /\ 1 .. n = (1 .. written) \cup {n} /\ written \in Nat /\ n > written
      /\ written' = n /\ saved' = saved \cup {n} /\ MaxSaved \in Nat /\ n \in 0 .. MaxSaved
  BY <1>0 DEF InsertSnapshot, Rows
<1>2. ask' = [ask EXCEPT ![c] = [pc |-> "save", row |-> n]] /\ ask[c].pc = "insert"
      /\ UNCHANGED <<snapshotFaults, audited, unlogged, restored>>
  BY DEF InsertSnapshot
<1>3. ask' \in [SnapshotCalls -> [pc : SnapshotSteps, row : 0 .. MaxSaved]]
  BY <1>1, <1>2 DEF SnapshotTypeOK, SnapshotSteps
<1>4. ask'[c].pc = "save" /\ ask'[c].row = n /\ \A o \in SnapshotCalls : o # c => ask'[o] = ask[o]
  BY <1>2 DEF SnapshotTypeOK
<1>5. SnapshotTypeOK'
  BY <1>1, <1>2, <1>3, <1>4 DEF SnapshotTypeOK, Rows
<1>6. \A o \in SnapshotCalls : ask[o].pc \in {"save", "delete"} => ask[o].row # n
  BY <1>1 DEF SnapshotTypeOK
<1>7. audited[<<"save", n>>] = 0 /\ audited[<<"delete", n>>] = 0
  BY <1>1 DEF NothingYet
<1>8. OneAuthor'
  BY <1>2, <1>4, <1>6, <1>7 DEF OneAuthor, OneAuthorOf
<1>9. NothingYet'
  <2> SUFFICES ASSUME NEW r \in Rows
               PROVE  /\ r > n => audited[<<"save", r>>] = 0
                      /\ r > n \/ r \in saved' =>
                           audited[<<"delete", r>>] = 0 /\ \A o \in SnapshotCalls : ~(ask'[o].pc = "delete" /\ ask'[o].row = r)
    BY <1>1, <1>2 DEF NothingYet
  <2>1. r > n => r > written
    BY <1>1 DEF Rows
  <2>2. CASE r > n \/ r \in saved
    BY <1>1, <1>4, <2>1, <2>2 DEF NothingYet
  <2>3. CASE r = n
    BY <1>4, <1>6, <1>7, <2>3, <1>1
  <2> QED
    BY <1>1, <2>1, <2>2, <2>3 DEF NothingYet
<1>10. ASSUME NEW w \in {"save", "delete"}, NEW r PROVE Known(w, r) => Known(w, r)'
  BY <1>2, <1>4 DEF Known
<1>11. Known("save", n)'
  BY <1>4 DEF Known
<1> QED
  BY <1>1, <1>2, <1>5, <1>8, <1>9, <1>10, <1>11 DEF SavesKnown, DeletionsKnown, RestoresKnown, AuditedOnce

\* The DELETE: of two that overlap, one finds the row, and it alone will audit.
LEMMA DeleteStep ==
  ASSUME SnapshotSafe, NEW c \in SnapshotCalls, DeleteSnapshot(c), RoomIsShared'
  PROVE  SnapshotSafe'
<1> USE DEF SnapshotSafe
<1> PICK r : r = ask[c].row
  OBVIOUS
<1> PICK s : s = [pc |-> IF r \in saved THEN "delete" ELSE "idle", row |-> IF r \in saved THEN r ELSE 0]
  OBVIOUS
<1>1. ask[c] \in [pc : SnapshotSteps, row : 0 .. MaxSaved] /\ ask[c].pc = "remove" /\ r \in 1 .. written /\ r \in Rows
      /\ written \in Nat /\ written <= MaxSaved /\ MaxSaved \in Nat
  BY SnapshotAssumption DEF DeleteSnapshot, SnapshotTypeOK, Rows
<1>2. ask' = [ask EXCEPT ![c] = s]
  <2>1. [ask[c] EXCEPT !.pc = "delete"] = [pc |-> "delete", row |-> r]
    BY <1>1
  <2> QED
    BY <2>1 DEF DeleteSnapshot, Resting
<1>3. saved' = saved \ {r} /\ UNCHANGED <<written, snapshotFaults, audited, unlogged, restored>>
  BY DEF DeleteSnapshot
<1>4. s \in [pc : SnapshotSteps, row : 0 .. MaxSaved] /\ s.pc = (IF r \in saved THEN "delete" ELSE "idle") /\ (r \in saved => s.row = r)
  BY <1>1 DEF SnapshotSteps
<1>5. ask'[c] = s /\ \A o \in SnapshotCalls : o # c => ask'[o] = ask[o]
  BY <1>2 DEF SnapshotTypeOK
<1>6. SnapshotTypeOK'
  BY <1>1, <1>2, <1>3, <1>4, <1>5 DEF SnapshotTypeOK
<1>7. r \in saved => audited[<<"delete", r>>] = 0 /\ \A o \in SnapshotCalls : ~(ask[o].pc = "delete" /\ ask[o].row = r)
  BY <1>1 DEF NothingYet
<1>8. OneAuthor'
  BY <1>1, <1>3, <1>4, <1>5, <1>7 DEF OneAuthor, OneAuthorOf
<1>9. NothingYet'
  <2> SUFFICES ASSUME NEW k \in Rows, k > written \/ k \in saved'
               PROVE  audited[<<"delete", k>>] = 0 /\ \A o \in SnapshotCalls : ~(ask'[o].pc = "delete" /\ ask'[o].row = k)
    BY <1>3 DEF NothingYet
  <2>1. k # r
    BY <1>1, <1>3
  <2> QED
    BY <1>3, <1>4, <1>5, <2>1 DEF NothingYet
<1>10. ASSUME NEW w \in {"save", "delete"}, NEW k PROVE Known(w, k) => Known(w, k)'
  BY <1>1, <1>3, <1>5 DEF Known
<1>11. r \in saved => Known("delete", r)'
  BY <1>4, <1>5 DEF Known
<1> QED
  BY <1>1, <1>3, <1>6, <1>8, <1>9, <1>10, <1>11 DEF SavesKnown, DeletionsKnown, RestoresKnown, AuditedOnce

\* The audit row of a deed: the first of a save or of a deletion.
LEMMA AuditStep ==
  ASSUME SnapshotSafe, NEW c \in SnapshotCalls, AuditSnapshot(c), RoomIsShared'
  PROVE  SnapshotSafe'
<1> USE DEF SnapshotSafe
<1> PICK r, w : r = ask[c].row /\ w = ask[c].pc
  OBVIOUS
<1>0. w \in {"save", "restore", "delete"} /\ r \in 1 .. written /\ r \in Rows
      /\ written \in Nat /\ written <= MaxSaved /\ MaxSaved \in Nat
  BY SnapshotAssumption DEF AuditSnapshot, SnapshotTypeOK, Rows
<1>1. w \in {"save", "restore", "delete"} /\ r \in 1 .. written /\ r \in Rows /\ <<w, r>> \in Deeds
      /\ written \in Nat /\ written <= MaxSaved /\ MaxSaved \in Nat
  BY <1>0, DeedsOfRows
<1>2. ask' = [ask EXCEPT ![c] = Resting] /\ UNCHANGED <<saved, written, snapshotFaults, unlogged>>
      /\ restored' = (IF w = "restore" THEN restored \cup {r} ELSE restored)
      /\ audited' = [audited EXCEPT ![<<w, r>>] = IF w = "restore" THEN 1 ELSE audited[<<w, r>>] + 1]
  BY DEF AuditSnapshot
<1>3. w # "restore" => audited[<<w, r>>] = 0
  BY <1>1 DEF OneAuthor, OneAuthorOf
<1>4. \A o \in SnapshotCalls : o # c /\ w # "restore" /\ ask[o].pc = w => ask[o].row # r
  BY <1>1 DEF OneAuthor, OneAuthorOf
<1>5. audited' = [audited EXCEPT ![<<w, r>>] = 1]
  <2>1. (IF w = "restore" THEN 1 ELSE audited[<<w, r>>] + 1) = 1
    BY <1>3
  <2> QED
    BY <1>2, <2>1
<1>6. ask' \in [SnapshotCalls -> [pc : SnapshotSteps, row : 0 .. MaxSaved]]
  BY <1>1, <1>2 DEF SnapshotTypeOK, SnapshotSteps, Resting
<1>7. ask'[c].pc = "idle" /\ \A o \in SnapshotCalls : o # c => ask'[o] = ask[o]
  BY <1>2 DEF SnapshotTypeOK, Resting
<1>8. SnapshotTypeOK'
  <2>1. audited' \in [Deeds -> Nat]
    <3>1. audited \in [Deeds -> Nat] /\ 1 \in Nat
      BY DEF SnapshotTypeOK
    <3> QED
      BY <1>1, <1>5, <3>1
  <2> QED
    BY <1>1, <1>2, <2>1, <1>6, <1>7 DEF SnapshotTypeOK
<1>9. audited'[<<w, r>>] = 1 /\ \A d \in Deeds : d # <<w, r>> => audited'[d] = audited[d]
  BY <1>1, <1>5 DEF SnapshotTypeOK
<1>10. ASSUME NEW k \in Rows, NEW v \in {"save", "restore", "delete"}, v # w \/ k # r
       PROVE  audited'[<<v, k>>] = audited[<<v, k>>]
  <2>1. <<v, k>> # <<w, r>> /\ <<v, k>> \in Deeds
    BY <1>10, DeedsOfRows
  <2> QED
    BY <1>9, <2>1
<1>11. ASSUME NEW o \in SnapshotCalls, ask'[o].pc \in {"save", "delete"}
       PROVE  o # c /\ ask'[o] = ask[o] /\ ask[o].row \in Rows /\ audited'[<<ask[o].pc, ask[o].row>>] = audited[<<ask[o].pc, ask[o].row>>]
  <2>1. o # c /\ ask'[o] = ask[o] /\ ask[o].row \in Rows
    BY <1>1, <1>7, <1>11 DEF SnapshotTypeOK, Rows
  <2>2. ask[o].pc # w \/ ask[o].row # r
    BY <2>1, <1>4, <1>11
  <2>3. ask[o].pc \in {"save", "restore", "delete"}
    BY <2>1, <1>11
  <2> QED
    BY <2>1, <2>2, <2>3, <1>10
<1>12. OneAuthor'
  BY <1>7, <1>11 DEF OneAuthor, OneAuthorOf
<1>13. NothingYet'
  <2> SUFFICES ASSUME NEW k \in Rows
               PROVE  /\ k > written => audited'[<<"save", k>>] = 0
                      /\ k > written \/ k \in saved =>
                           audited'[<<"delete", k>>] = 0 /\ \A o \in SnapshotCalls : ~(ask'[o].pc = "delete" /\ ask'[o].row = k)
    BY <1>2 DEF NothingYet
  <2>1. k > written => k # r
    BY <1>1
  <2>2. k \in saved /\ k = r => w # "delete"
    <3>1. ask[c].pc = w /\ ask[c].row = r
      OBVIOUS
    <3> QED
      BY <3>1 DEF NothingYet
  <2>3. k > written => audited'[<<"save", k>>] = 0
    BY <2>1, <1>10 DEF NothingYet
  <2>4. k > written \/ k \in saved => audited'[<<"delete", k>>] = 0
    BY <2>1, <2>2, <1>10 DEF NothingYet
  <2>5. k > written \/ k \in saved => \A o \in SnapshotCalls : ~(ask'[o].pc = "delete" /\ ask'[o].row = k)
    BY <1>7 DEF NothingYet
  <2> QED
    BY <2>3, <2>4, <2>5
<1>14. ASSUME NEW v \in {"save", "delete"}, NEW k \in Rows, Known(v, k) PROVE Known(v, k)'
  <2>1. CASE v = w /\ k = r
    BY <2>1, <1>9 DEF Known
  <2>2. CASE v # w \/ k # r
    <3>1. ask[c].pc = w /\ ask[c].row = r
      OBVIOUS
    <3>2. audited'[<<v, k>>] = audited[<<v, k>>]
      BY <2>2, <1>10
    <3> QED
      BY <3>1, <3>2, <1>2, <1>7, <1>14, <2>2 DEF Known
  <2> QED
    BY <2>1, <2>2
<1>15. 1 .. written \subseteq Rows
  BY <1>1 DEF Rows
<1>16. SavesKnown' /\ DeletionsKnown'
  BY <1>2, <1>14, <1>15 DEF SavesKnown, DeletionsKnown
<1>17. RestoresKnown'
  <2> SUFFICES ASSUME NEW k \in restored' PROVE audited'[<<"restore", k>>] = 1
    BY DEF RestoresKnown
  <2>1. k \in Rows
    BY <1>1, <1>2 DEF SnapshotTypeOK
  <2>2. CASE w = "restore" /\ k = r
    BY <2>2, <1>9
  <2>3. CASE w # "restore" \/ k # r
    BY <2>1, <2>3, <1>2, <1>10 DEF RestoresKnown
  <2> QED
    BY <2>2, <2>3
<1>18. AuditedOnce'
  BY <1>9 DEF AuditedOnce
<1> QED
  BY <1>8, <1>12, <1>13, <1>16, <1>17, <1>18

\* A call that fails: what it did stays, and what it had yet to audit is told to have failed.
LEMMA FailStep ==
  ASSUME SnapshotSafe, NEW c \in SnapshotCalls, SnapshotFails(c), RoomIsShared'
  PROVE  SnapshotSafe'
<1> USE DEF SnapshotSafe
<1>1. ask' = [ask EXCEPT ![c] = Resting] /\ UNCHANGED <<saved, written, audited, restored>>
      /\ snapshotFaults' \in Nat /\ unlogged \subseteq unlogged'
  BY DEF SnapshotFails, SnapshotFault, SnapshotTypeOK
<1>2. ask' \in [SnapshotCalls -> [pc : SnapshotSteps, row : 0 .. MaxSaved]]
  BY <1>1, SnapshotAssumption DEF SnapshotTypeOK, SnapshotSteps, Resting
<1>3. ask'[c].pc = "idle" /\ \A o \in SnapshotCalls : o # c => ask'[o] = ask[o]
  BY <1>1 DEF SnapshotTypeOK, Resting
<1>4. ask[c].pc \in {"save", "restore", "delete"} => <<ask[c].pc, ask[c].row>> \in unlogged'
  BY DEF SnapshotFails
<1>5. unlogged' \subseteq Deeds
  <2>1. ask[c].pc \in {"save", "restore", "delete"} => ask[c].row \in Rows
    BY SnapshotAssumption DEF SnapshotTypeOK, Rows
  <2> QED
    BY <2>1, DeedsOfRows DEF SnapshotFails, SnapshotTypeOK
<1>6. SnapshotTypeOK'
  BY <1>1, <1>2, <1>3, <1>5 DEF SnapshotTypeOK
<1>7. OneAuthor' /\ NothingYet'
  BY <1>1, <1>3 DEF OneAuthor, OneAuthorOf, NothingYet
<1>8. ASSUME NEW w \in {"save", "delete"}, NEW k, Known(w, k) PROVE Known(w, k)'
  <2>1. CASE ask[c].pc = w /\ ask[c].row = k
    BY <2>1, <1>4 DEF Known
  <2>2. CASE ~(ask[c].pc = w /\ ask[c].row = k)
    BY <2>2, <1>1, <1>3, <1>8 DEF Known
  <2> QED
    BY <2>1, <2>2
<1> QED
  BY <1>1, <1>6, <1>7, <1>8 DEF SavesKnown, DeletionsKnown, RestoresKnown, AuditedOnce

\* Every step of the snapshots' API keeps SnapshotSafe.
LEMMA SnapshotStep == SnapshotSafe /\ [SnapshotNext]_snapshotVars => SnapshotSafe'
<1> SUFFICES ASSUME SnapshotSafe, [SnapshotNext]_snapshotVars PROVE SnapshotSafe'
  OBVIOUS
<1>1. RoomIsShared'
  BY RoomIsKept
<1>2. ask \in [SnapshotCalls -> [pc : SnapshotSteps, row : 0 .. MaxSaved]] /\ saved \subseteq 1 .. written
      /\ written \in Nat /\ written <= MaxSaved /\ MaxSaved \in Nat
  BY SnapshotAssumption DEF SnapshotSafe, SnapshotTypeOK
<1>3. ASSUME NEW c \in SnapshotCalls, CountSnapshots(c) PROVE SnapshotSafe'
  <2> DEFINE s == [pc |-> "insert", row |-> ask[c].row]
  <2>1. s \in [pc : {"insert", "restore", "remove"}, row : 0 .. MaxSaved] /\ s.pc = "insert"
    BY <1>2
  <2>2. ask' = [ask EXCEPT ![c] = s]
    <3>1. [ask[c] EXCEPT !.pc = "insert"] = s
      BY <1>2
    <3> QED
      BY <1>3, <3>1 DEF CountSnapshots
  <2> HIDE DEF s
  <2> QED
    BY <1>1, <1>3, <2>1, <2>2, QuietSnapshotStep DEF CountSnapshots
<1>4. ASSUME NEW c \in SnapshotCalls, NEW r \in Rows, GetSnapshot(c, r) \/ FindSnapshot(c, r) PROVE SnapshotSafe'
  <2>1. PICK w \in {"restore", "remove"} : ask' = [ask EXCEPT ![c] = [pc |-> w, row |-> r]]
    BY <1>4 DEF GetSnapshot, FindSnapshot
  <2>2. r \in 1 .. written /\ r \in 0 .. MaxSaved
    BY <1>2, <1>4 DEF GetSnapshot, FindSnapshot, Rows
  <2> DEFINE t == [pc |-> w, row |-> r]
  <2>3. t \in [pc : {"insert", "restore", "remove"}, row : 0 .. MaxSaved] /\ t.row = r /\ ask' = [ask EXCEPT ![c] = t]
    BY <2>1, <2>2
  <2> HIDE DEF t
  <2> QED
    BY <1>1, <1>4, <2>2, <2>3, QuietSnapshotStep DEF GetSnapshot, FindSnapshot
<1>5. CASE UNCHANGED snapshotVars
  BY <1>5 DEF snapshotVars, SnapshotSafe, SnapshotTypeOK, RoomIsShared, Inserting, OneAuthor, OneAuthorOf, NothingYet, SavesKnown,
     DeletionsKnown, RestoresKnown, AuditedOnce, Known
<1> QED
  BY <1>1, <1>3, <1>4, <1>5, InsertStep, DeleteStep, AuditStep, FailStep DEF SnapshotNext

\* The inductive invariant of the snapshots, for every number of calls, limit and fault.
THEOREM SnapshotSafety == SnapshotSpec => []SnapshotSafe
<1>1. SnapshotInit => SnapshotSafe
  <2> SUFFICES ASSUME SnapshotInit PROVE SnapshotSafe
    OBVIOUS
  <2>1. SnapshotTypeOK
    BY SnapshotAssumption DEF SnapshotInit, SnapshotTypeOK, SnapshotSteps, Resting
  <2>2. Inserting = {} /\ saved = {}
    BY DEF SnapshotInit, Inserting, Resting
  <2>3. RoomIsShared
    <3>1. Cardinality({}) = 0
      BY FS_EmptySet
    <3>2. MaxSnapshots \in Nat
      BY SnapshotAssumption
    <3> QED
      BY <2>1, <2>2, <3>1, <3>2, SnapshotsAreFinite DEF RoomIsShared
  <2>4. OneAuthor /\ NothingYet /\ RestoresKnown /\ AuditedOnce
    <3>1. \A r \in Rows, w \in {"save", "restore", "delete"} : audited[<<w, r>>] = 0
      BY DeedsOfRows DEF SnapshotInit
    <3>2. \A c \in SnapshotCalls : ask[c].pc = "idle"
      BY DEF SnapshotInit, Resting
    <3>3. OneAuthor
      BY <3>2 DEF OneAuthor, OneAuthorOf
    <3>4. NothingYet
      BY <3>1, <3>2 DEF NothingYet
    <3> QED
      BY <3>3, <3>4 DEF SnapshotInit, RestoresKnown, AuditedOnce
  <2>5. SavesKnown /\ DeletionsKnown
    BY DEF SnapshotInit, SavesKnown, DeletionsKnown
  <2> QED
    BY <2>1, <2>3, <2>4, <2>5 DEF SnapshotSafe
<1> QED
  BY <1>1, SnapshotStep, PTL DEF SnapshotSpec

\* The limit on the snapshots is passed only by calls that counted before the others wrote, and
\* the audit log tells each save, deletion and restore once, unless a call is at it or failed.
THEOREM SnapshotsAreSound == SnapshotSpec => []SnapshotInv
<1>1. SnapshotSafe => SnapshotInv
  <2> SUFFICES ASSUME SnapshotSafe PROVE SnapshotsBounded /\ LogTellsSnapshots
    BY DEF SnapshotInv
  <2>1. SnapshotsBounded
    <3>1. Cardinality(saved) \in Nat /\ Cardinality(Inserting) \in Nat /\ Cardinality(SnapshotCalls) \in Nat /\ MaxSnapshots \in Nat
      BY SnapshotsAreFinite, FS_CardinalityType, SnapshotAssumption DEF SnapshotSafe
    <3> QED
      BY <3>1 DEF SnapshotSafe, RoomIsShared, SnapshotsBounded
  <2>2. LogTellsSnapshots
    BY DEF SnapshotSafe, LogTellsSnapshots, SavesKnown, DeletionsKnown, RestoresKnown, AuditedOnce, Known
  <2> QED
    BY <2>1, <2>2
<1> QED
  BY <1>1, SnapshotSafety, PTL


-----------------------------------------------------------------------------
\* A vault that gains no entry keeps its limit.
LEMMA VaultOnlyLoses ==
  ASSUME PreviewSafe, Kept(vault') \subseteq Kept(vault)
  PROVE  VaultIsBounded'
<1>1. IsFiniteSet(Kept(vault))
  BY PreviewAssumption, FS_Subset DEF Kept
<1>2. Cardinality(Kept(vault')) \in Nat /\ Cardinality(Kept(vault)) \in Nat /\ Cardinality(Kept(vault')) <= Cardinality(Kept(vault))
  BY <1>1, SizeOfPart
<1>3. MaxEntries \in Nat /\ Cardinality(Kept(vault)) <= MaxEntries
  BY PreviewAssumption DEF PreviewSafe, VaultIsBounded
<1>4. Cardinality(Kept(vault')) <= MaxEntries
  BY <1>2, <1>3
<1> QED
  BY <1>4 DEF VaultIsBounded, Kept

\* What the services of the executor have to do with the call they were started for.
PodOK(s, call, isLogged) ==
  /\ s.env = call.env
  /\ call.pc \notin {"free", "create", "run"}
  /\ call.pc = "done" => isLogged

\* A step of one request, that may purge entries of others: it is enough to look at the request.
LEMMA OneRequestMoves ==
  ASSUME PreviewSafe, PreviewShape', NEW p \in Publishes,
         \A o \in Publishes \ {p} : /\ publish'[o] = publish[o] /\ vault'[o] \in {vault[o], "none"}
                                    /\ approval'[o] = approval[o] /\ given'[o] = given[o]
                                    /\ o \in logged' <=> o \in logged,
         RequestOK(publish'[p], vault'[p], approval'[p], given'[p], p \in logged'),
         \A s \in pod' : s.of # p => s \in pod,
         \A s \in pod' : s.of = p => PodOK(s, publish'[p], p \in logged')
  PROVE  RequestsOK' /\ PodsOK'
<1>1. RequestsOK'
  <2> SUFFICES ASSUME NEW o \in Publishes, o # p
               PROVE  RequestOK(publish'[o], vault'[o], approval'[o], given'[o], o \in logged')
    BY DEF RequestsOK
  <2>1. RequestOK(publish[o], vault[o], approval[o], given[o], o \in logged)
    BY DEF PreviewSafe, RequestsOK
  <2> QED
    BY <2>1 DEF RequestOK
<1>2. PodsOK'
  <2> SUFFICES ASSUME NEW s \in pod' PROVE PodOK(s, publish'[s.of], s.of \in logged')
    BY DEF PodsOK, PodOK
  <2>1. s.of \in Publishes
    BY DEF PreviewShape
  <2>2. CASE s.of # p
    BY <2>1, <2>2 DEF PreviewSafe, PodsOK, PodOK
  <2>3. CASE s.of = p
    BY <2>3
  <2> QED
    BY <2>2, <2>3
<1> QED
  BY <1>1, <1>2

\* The purge of the entries that expired.
LEMMA PurgeKeeps ==
  ASSUME PreviewShape
  PROVE  /\ Purge \in [Publishes -> {"none", "kept", "expired"}] /\ Kept(Purge) = Kept(vault)
         /\ \A o \in Publishes : Purge[o] \in {vault[o], "none"}
BY DEF PreviewShape, Purge, Kept

\* publish: an entry is put only where there is room, and the values of a call that needs no
\* approval leave at once.
LEMMA PublishStep ==
  ASSUME PreviewSafe, NEW p \in Publishes, Publish(p)
  PROVE  PreviewSafe'
<1> USE DEF PreviewSafe
<1>1. PICK env \in {"no", "yes"}, level \in {"confirm", "notify"} :
       IF env = "yes" /\ Full(Purge)
       THEN /\ publish' = [publish EXCEPT ![p] = [pc |-> "failed", env |-> env]]
            /\ vault' = Purge /\ UNCHANGED given
       ELSE /\ publish' = [publish EXCEPT ![p] = [pc |-> IF level = "confirm" THEN "create" ELSE "run", env |-> env]]
            /\ vault' = IF env = "no" THEN vault
                        ELSE [Purge EXCEPT ![p] = IF level = "confirm" THEN "kept" ELSE "none"]
            /\ given' = IF env = "yes" /\ level = "notify" THEN [given EXCEPT ![p] = @ + 1] ELSE given
  BY DEF Publish
<1>2. PICK pc \in {"failed", "create", "run"} :
        /\ publish' = [publish EXCEPT ![p] = [pc |-> pc, env |-> env]]
        /\ pc = "failed" <=> env = "yes" /\ Full(Purge)
        /\ pc = "create" <=> pc # "failed" /\ level = "confirm"
  BY <1>1
<1>3. UNCHANGED <<approval, pod, previewFaults, logged>> /\ publish[p].pc = "free"
  BY DEF Publish
<1>4. vault[p] = "none" /\ given[p] = 0 /\ approval[p] = "none"
  BY <1>3 DEF RequestsOK, RequestOK, PreviewShape
<1>5. /\ Purge \in [Publishes -> {"none", "kept", "expired"}] /\ Kept(Purge) = Kept(vault)
      /\ \A o \in Publishes : Purge[o] \in {vault[o], "none"}
  BY PurgeKeeps
<1>6. given' = [given EXCEPT ![p] = IF env = "yes" /\ pc = "run" THEN 1 ELSE 0]
  <2>1. given' = IF env = "yes" /\ pc = "run" THEN [given EXCEPT ![p] = given[p] + 1] ELSE given
    BY <1>1, <1>2
  <2>2. given = [given EXCEPT ![p] = 0]
    BY <1>4 DEF PreviewShape
  <2>3. given[p] + 1 = 1
    BY <1>4
  <2>4. CASE env = "yes" /\ pc = "run"
    BY <2>1, <2>3, <2>4
  <2>5. CASE ~(env = "yes" /\ pc = "run")
    BY <2>1, <2>2, <2>5
  <2> QED
    BY <2>4, <2>5
<1>7. /\ vault' \in [Publishes -> {"none", "kept", "expired"}]
      /\ \A o \in Publishes \ {p} : vault'[o] \in {vault[o], "none"}
      /\ vault'[p] = IF env = "yes" /\ pc = "create" THEN "kept" ELSE "none"
  <2>1. CASE pc = "failed"
    BY <1>1, <1>2, <1>4, <1>5, <2>1
  <2>2. CASE pc # "failed" /\ env = "no"
    BY <1>1, <1>2, <1>4, <2>2 DEF PreviewShape
  <2>3. CASE pc # "failed" /\ env = "yes"
    BY <1>1, <1>2, <1>4, <1>5, <2>3
  <2> QED
    BY <2>1, <2>2, <2>3
<1>8. PreviewShape'
  <2>1. publish' \in [Publishes -> [pc : PublishSteps, env : {"no", "yes"}]]
    BY <1>2 DEF PreviewShape, PublishSteps
  <2>2. given' \in [Publishes -> 0 .. 1]
    BY <1>6 DEF PreviewShape
  <2> QED
    BY <1>3, <1>7, <2>1, <2>2 DEF PreviewShape
<1>9. publish'[p].pc = pc /\ publish'[p].env = env /\ given'[p] = (IF env = "yes" /\ pc = "run" THEN 1 ELSE 0)
  BY <1>2, <1>6 DEF PreviewShape
<1>10. RequestOK(publish'[p], vault'[p], approval'[p], given'[p], p \in logged')
  BY <1>3, <1>4, <1>7, <1>9 DEF RequestOK
<1>11. \A s \in pod' : s.of # p
  BY <1>3 DEF PodsOK
<1>12. \A o \in Publishes \ {p} : publish'[o] = publish[o] /\ given'[o] = given[o] /\ approval'[o] = approval[o]
  BY <1>2, <1>3, <1>6 DEF PreviewShape
<1>13. RequestsOK' /\ PodsOK'
  BY <1>3, <1>7, <1>8, <1>10, <1>11, <1>12, OneRequestMoves
<1>14. VaultIsBounded'
  <2>1. CASE env = "yes" /\ pc = "create"
    <3>1. ~Full(Purge)
      BY <1>2, <2>1
    <3>2. Kept(vault') \subseteq Kept(vault) \cup {p}
      BY <1>7 DEF Kept
    <3>3. IsFiniteSet(Kept(vault))
      BY PreviewAssumption, FS_Subset DEF Kept
    <3>4. Cardinality(Kept(vault)) \in Nat /\ Cardinality(Kept(vault)) < MaxEntries /\ MaxEntries \in Nat
      BY <1>5, <3>1, <3>3, PreviewAssumption, FS_CardinalityType DEF Full
    <3>5. /\ IsFiniteSet(Kept(vault) \cup {p}) /\ Cardinality(Kept(vault) \cup {p}) \in Nat
          /\ Cardinality(Kept(vault) \cup {p}) <= Cardinality(Kept(vault)) + 1
      BY <3>3, SizeOfAdded
    <3>6. Cardinality(Kept(vault')) \in Nat /\ Cardinality(Kept(vault')) <= Cardinality(Kept(vault) \cup {p})
      BY <3>2, <3>5, SizeOfPart
    <3>7. Cardinality(Kept(vault')) <= MaxEntries
      BY <3>4, <3>5, <3>6
    <3> QED
      BY <3>7 DEF VaultIsBounded, Kept
  <2>2. CASE ~(env = "yes" /\ pc = "create")
    <3>1. Kept(vault') \subseteq Kept(vault)
      BY <1>7, <2>2 DEF Kept
    <3> QED
      BY <3>1, VaultOnlyLoses
  <2> QED
    BY <2>1, <2>2
<1> QED
  BY <1>8, <1>13, <1>14


\* Steps of a call that is under way: its approval, the executor and the row, and their failures.
LEMMA CallStep ==
  ASSUME PreviewSafe, NEW p \in Publishes,
         \/ CreatePending(p) \/ CreatePendingFails(p) \/ RunAtOnce(p) \/ RecordToolCall(p) \/ RunAtOnceFails(p)
  PROVE  PreviewSafe'
<1> USE DEF PreviewSafe
<1>1. PICK pc \in {"done", "record", "failed"} :
        /\ publish' = [publish EXCEPT ![p].pc = pc]
        /\ \/ pc = "done" /\ (CreatePending(p) \/ RecordToolCall(p))
           \/ pc = "record" /\ RunAtOnce(p)
           \/ pc = "failed" /\ (CreatePendingFails(p) \/ RunAtOnceFails(p))
  BY DEF CreatePending, CreatePendingFails, RunAtOnce, RecordToolCall, RunAtOnceFails
<1> DEFINE call == [publish[p] EXCEPT !.pc = pc]
<1>2. publish[p] \in [pc : PublishSteps, env : {"no", "yes"}]
  BY DEF PreviewShape
<1>3. call \in [pc : PublishSteps, env : {"no", "yes"}] /\ call.pc = pc /\ call.env = publish[p].env
  BY <1>2 DEF PublishSteps
<1>4. publish' = [publish EXCEPT ![p] = call]
  BY <1>1
<1> HIDE DEF call
<1>5. publish' \in [Publishes -> [pc : PublishSteps, env : {"no", "yes"}]]
      /\ publish'[p].pc = pc /\ publish'[p].env = publish[p].env
      /\ \A o \in Publishes \ {p} : publish'[o] = publish[o]
  BY <1>3, <1>4 DEF PreviewShape
<1>6. /\ vault' = vault \/ (vault' = [vault EXCEPT ![p] = "none"] /\ pc = "failed")
      /\ approval' = approval \/ (approval' = [approval EXCEPT ![p] = "pending"] /\ publish[p].pc = "create")
      /\ given' = given /\ previewFaults' \in Nat
      /\ pod' = pod \/ (pod' = Started(p, publish[p].env) /\ publish[p].pc = "run")
      /\ logged' = logged \/ (logged' = logged \cup {p} /\ publish[p].pc = "record")
  BY <1>1 DEF CreatePending, CreatePendingFails, RunAtOnce, RecordToolCall, RunAtOnceFails, PreviewFault, Discard, PreviewShape
<1>7. /\ pc = "failed" => vault' = [vault EXCEPT ![p] = "none"]
      /\ pc = "record" => publish[p].pc = "run" /\ vault' = vault /\ approval' = approval /\ logged' = logged
      /\ pc = "done" => \/ publish[p].pc = "create" /\ pod' = pod
                        \/ publish[p].pc = "record" /\ logged' = logged \cup {p}
      /\ publish[p].pc \in {"create", "run", "record"}
  BY <1>1 DEF CreatePending, CreatePendingFails, RunAtOnce, RecordToolCall, RunAtOnceFails, Discard
<1>8. PreviewShape'
  <2>1. pod' \subseteq [of : Publishes, env : {"no", "yes"}]
    BY <1>2, <1>6 DEF Started, PreviewShape
  <2> QED
    BY <1>5, <1>6, <2>1 DEF PreviewShape
<1>9. RequestOK(publish[p], vault[p], approval[p], given[p], p \in logged)
  BY DEF RequestsOK
<1>10. vault'[p] = (IF pc = "failed" THEN "none" ELSE vault[p]) /\ given'[p] = given[p]
       /\ approval'[p] \in {"none", "pending"} /\ (pc = "record" => approval'[p] = "none")
  BY <1>6, <1>7, <1>9 DEF PreviewShape, RequestOK
<1>11. vault[p] # "none" => publish[p].pc = "create"
  BY <1>7, <1>9 DEF RequestOK
<1>12. RequestOK(publish'[p], vault'[p], approval'[p], given'[p], p \in logged')
  BY <1>5, <1>7, <1>9, <1>10, <1>11 DEF RequestOK
<1>13. ASSUME NEW s \in pod', s.of = p PROVE PodOK(s, publish'[p], p \in logged')
  <2>1. s.env = publish[p].env
    BY <1>6, <1>13 DEF PodsOK, Started
  <2>2. pc = "done" => p \in logged'
    BY <1>6, <1>7, <1>13 DEF PodsOK
  <2> QED
    BY <1>5, <2>1, <2>2 DEF PodOK
<1>14. \A s \in pod' : s.of # p => s \in pod
  BY <1>6 DEF Started
<1>15. \A o \in Publishes \ {p} : /\ vault'[o] = vault[o] /\ approval'[o] = approval[o] /\ given'[o] = given[o]
                                  /\ o \in logged' <=> o \in logged
  BY <1>6 DEF PreviewShape
<1>16. RequestsOK' /\ PodsOK'
  BY <1>5, <1>8, <1>12, <1>13, <1>14, <1>15, OneRequestMoves
<1>17. Kept(vault') \subseteq Kept(vault)
  BY <1>6 DEF Kept, PreviewShape
<1> QED
  BY <1>8, <1>16, <1>17, VaultOnlyLoses

\* Steps of an approval: the values are taken once, the executor starts with what it was given.
LEMMA ApprovalStep ==
  ASSUME PreviewSafe, NEW p \in Publishes,
         Approve(p) \/ ApprovedStarts(p) \/ ApprovedFails(p) \/ RejectPreview(p) \/ EntryExpires(p)
  PROVE  PreviewSafe'
<1> USE DEF PreviewSafe
<1>1. publish' = publish /\ publish[p] \in [pc : PublishSteps, env : {"no", "yes"}]
      /\ RequestOK(publish[p], vault[p], approval[p], given[p], p \in logged) /\ given[p] \in 0 .. 1
      /\ vault[p] \in {"none", "kept", "expired"}
  BY DEF Approve, ApprovedStarts, ApprovedFails, RejectPreview, EntryExpires, RequestsOK, PreviewShape
<1>2. CASE Approve(p)
  <2>1. approval[p] = "pending" /\ pod' = pod /\ previewFaults' = previewFaults /\ logged' = logged \cup {p}
    BY <1>2 DEF Approve
  <2>2. PICK appr \in {"running", "pending"} :
          approval' = [approval EXCEPT ![p] = appr] /\ (appr = "running" <=> publish[p].env = "no" \/ vault[p] = "kept")
    BY <1>2 DEF Approve, TakeEnv
  <2>3. vault' = [vault EXCEPT ![p] = IF publish[p].env = "yes" THEN "none" ELSE vault[p]]
    <3>1. vault' = IF publish[p].env = "yes" THEN [vault EXCEPT ![p] = "none"] ELSE vault
      BY <1>2 DEF Approve, Take
    <3> QED
      BY <3>1 DEF PreviewShape
  <2>4. vault[p] = "kept" => given[p] = 0 /\ publish[p].env = "yes"
    BY <1>1 DEF RequestOK
  <2>5. given' = [given EXCEPT ![p] = IF vault[p] = "kept" THEN 1 ELSE given[p]]
    <3>1. given' = IF publish[p].env = "yes" /\ vault[p] = "kept" THEN [given EXCEPT ![p] = given[p] + 1] ELSE given
      BY <1>2 DEF Approve
    <3>2. CASE vault[p] = "kept"
      <4>1. given[p] + 1 = 1
        BY <2>4, <3>2
      <4> QED
        BY <2>4, <3>1, <3>2, <4>1
    <3>3. CASE vault[p] # "kept"
      BY <3>1, <3>3 DEF PreviewShape
    <3> QED
      BY <3>2, <3>3
  <2>6. PreviewShape'
    <3>1. given' \in [Publishes -> 0 .. 1]
      BY <1>1, <2>5 DEF PreviewShape
    <3> QED
      BY <1>1, <2>1, <2>2, <2>3, <3>1 DEF PreviewShape
  <2>7. vault'[p] = (IF publish[p].env = "yes" THEN "none" ELSE vault[p])
        /\ given'[p] = (IF vault[p] = "kept" THEN 1 ELSE given[p]) /\ approval'[p] = appr /\ p \in logged'
    BY <2>1, <2>2, <2>3, <2>5 DEF PreviewShape
  <2>8. RequestOK(publish'[p], vault'[p], approval'[p], given'[p], p \in logged')
    BY <1>1, <2>1, <2>2, <2>4, <2>7 DEF RequestOK
  <2>9. \A s \in pod' : s.of = p => PodOK(s, publish'[p], p \in logged')
    BY <1>1, <2>1 DEF PodsOK, PodOK
  <2>10. \A o \in Publishes \ {p} : /\ vault'[o] = vault[o] /\ approval'[o] = approval[o] /\ given'[o] = given[o]
                                    /\ o \in logged' <=> o \in logged
    BY <2>1, <2>2, <2>3, <2>5 DEF PreviewShape
  <2>11. RequestsOK' /\ PodsOK'
    BY <1>1, <2>1, <2>6, <2>8, <2>9, <2>10, OneRequestMoves
  <2>12. Kept(vault') \subseteq Kept(vault)
    BY <2>7, <2>10 DEF Kept
  <2> QED
    BY <2>6, <2>11, <2>12, VaultOnlyLoses
<1>3. CASE ApprovedStarts(p) \/ ApprovedFails(p) \/ RejectPreview(p)
  <2>1. PICK appr \in {"resolved", "pending", "rejected"} : approval' = [approval EXCEPT ![p] = appr]
    BY <1>3 DEF ApprovedStarts, ApprovedFails, RejectPreview
  <2>2. /\ UNCHANGED <<vault, given, logged>> /\ previewFaults' \in Nat
        /\ pod' = pod \/ (approval[p] = "running" /\ pod' = Started(p, Values(p)))
        /\ approval[p] \in {"running", "pending"}
    BY <1>3 DEF ApprovedStarts, ApprovedFails, RejectPreview, PreviewFault, PreviewShape
  <2>3. approval[p] = "running" => Values(p) = publish[p].env /\ p \in logged /\ publish[p].pc \notin {"free", "create", "run"}
    BY <1>1 DEF Values, RequestOK
  <2>4. PreviewShape'
    <3>1. pod' \subseteq [of : Publishes, env : {"no", "yes"}]
      BY <1>1, <2>2, <2>3 DEF Started, PreviewShape
    <3> QED
      BY <1>1, <2>1, <2>2, <3>1 DEF PreviewShape
  <2>5. RequestOK(publish'[p], vault'[p], approval'[p], given'[p], p \in logged')
    <3>1. approval'[p] = appr
      BY <2>1 DEF PreviewShape
    <3> QED
      BY <1>1, <2>2, <3>1 DEF RequestOK
  <2>6. ASSUME NEW s \in pod', s.of = p PROVE PodOK(s, publish'[p], p \in logged')
    BY <1>1, <2>2, <2>3, <2>6 DEF PodsOK, PodOK, Started
  <2>7. \A s \in pod' : s.of # p => s \in pod
    BY <2>2 DEF Started
  <2>8. \A o \in Publishes \ {p} : approval'[o] = approval[o]
    BY <2>1 DEF PreviewShape
  <2>9. RequestsOK' /\ PodsOK'
    BY <1>1, <2>2, <2>4, <2>5, <2>6, <2>7, <2>8, OneRequestMoves
  <2> QED
    BY <2>2, <2>4, <2>9, VaultOnlyLoses
<1>4. CASE EntryExpires(p)
  <2>1. vault[p] = "kept" /\ vault' = [vault EXCEPT ![p] = "expired"]
        /\ UNCHANGED <<publish, approval, pod, previewFaults, given, logged>>
    BY <1>4 DEF EntryExpires
  <2>2. PreviewShape' /\ vault'[p] = "expired" /\ \A o \in Publishes \ {p} : vault'[o] = vault[o]
    BY <2>1 DEF PreviewShape
  <2>3. RequestOK(publish'[p], vault'[p], approval'[p], given'[p], p \in logged')
    BY <1>1, <2>1, <2>2 DEF RequestOK
  <2>4. \A s \in pod' : s.of = p => PodOK(s, publish'[p], p \in logged')
    BY <2>1 DEF PodsOK, PodOK
  <2>5. RequestsOK' /\ PodsOK'
    BY <2>1, <2>2, <2>3, <2>4, OneRequestMoves
  <2>6. Kept(vault') \subseteq Kept(vault)
    BY <2>2 DEF Kept
  <2> QED
    BY <2>2, <2>5, <2>6, VaultOnlyLoses
<1> QED
  BY <1>2, <1>3, <1>4

\* A restart empties the vault; calls under way have failed, approvals that ran are stuck.
LEMMA RestartStep ==
  ASSUME PreviewSafe, PreviewRestart
  PROVE  PreviewSafe'
<1> USE DEF PreviewSafe
<1>1. ASSUME NEW p \in Publishes
      PROVE  /\ publish'[p] \in [pc : PublishSteps, env : {"no", "yes"}] /\ publish'[p].env = publish[p].env
             /\ publish'[p].pc = (IF publish[p].pc \in {"create", "run", "record"} THEN "failed" ELSE publish[p].pc)
             /\ vault'[p] = "none"
             /\ approval'[p] = IF approval[p] = "running" THEN "stuck" ELSE approval[p]
  <2>1. publish[p] \in [pc : PublishSteps, env : {"no", "yes"}]
    BY DEF PreviewShape
  <2>2. publish'[p] = IF publish[p].pc \in {"create", "run", "record"} THEN [publish[p] EXCEPT !.pc = "failed"] ELSE publish[p]
    BY DEF PreviewRestart
  <2>3. CASE publish[p].pc \in {"create", "run", "record"}
    BY <2>1, <2>2, <2>3 DEF PreviewRestart, PublishSteps
  <2>4. CASE publish[p].pc \notin {"create", "run", "record"}
    BY <2>1, <2>2, <2>4 DEF PreviewRestart
  <2> QED
    BY <2>3, <2>4
<1>2. UNCHANGED <<pod, given, logged>> /\ previewFaults' \in Nat
  BY DEF PreviewRestart, PreviewFault, PreviewShape
<1>3. PreviewShape'
  <2>1. publish' = [p \in Publishes |-> publish'[p]] /\ approval' = [p \in Publishes |-> approval'[p]]
        /\ vault' = [p \in Publishes |-> vault'[p]]
    BY DEF PreviewRestart
  <2>2. \A p \in Publishes : approval'[p] \in {"none", "pending", "running", "resolved", "rejected", "stuck"}
    BY <1>1 DEF PreviewShape
  <2>3. publish' \in [Publishes -> [pc : PublishSteps, env : {"no", "yes"}]]
    BY <2>1, <1>1
  <2> QED
    BY <1>1, <1>2, <2>1, <2>2, <2>3 DEF PreviewShape
<1>4. RequestsOK'
  <2> SUFFICES ASSUME NEW p \in Publishes
               PROVE  RequestOK(publish'[p], vault'[p], approval'[p], given'[p], p \in logged')
    BY DEF RequestsOK
  <2>1. RequestOK(publish[p], vault[p], approval[p], given[p], p \in logged)
    BY DEF RequestsOK
  <2> QED
    BY <1>1, <1>2, <2>1 DEF RequestOK
<1>5. PodsOK'
  <2> SUFFICES ASSUME NEW s \in pod PROVE PodOK(s, publish'[s.of], s.of \in logged)
    BY <1>2 DEF PodsOK, PodOK
  <2>1. s.of \in Publishes
    BY DEF PreviewShape
  <2> QED
    BY <1>1, <2>1 DEF PodsOK, PodOK
<1>6. Kept(vault') \subseteq Kept(vault)
  BY <1>1 DEF Kept
<1> QED
  BY <1>3, <1>4, <1>5, <1>6, VaultOnlyLoses

\* Every step of the previews keeps PreviewSafe.
LEMMA PreviewStep == PreviewSafe /\ [PreviewNext]_previewVars => PreviewSafe'
<1> SUFFICES ASSUME PreviewSafe, [PreviewNext]_previewVars PROVE PreviewSafe'
  OBVIOUS
<1>1. CASE StopPreview
  BY <1>1, VaultOnlyLoses DEF StopPreview, PreviewSafe, PreviewShape, RequestsOK, PodsOK
<1>2. CASE UNCHANGED previewVars
  BY <1>2 DEF previewVars, PreviewSafe, PreviewShape, RequestsOK, PodsOK, VaultIsBounded, Kept
<1> QED
  BY <1>1, <1>2, PublishStep, CallStep, ApprovalStep, RestartStep DEF PreviewNext

\* The inductive invariant of the preview apps' values holds for every number of calls, size of
\* the vault and fault.
THEOREM PreviewSafety == PreviewSpec => []PreviewSafe
<1>1. PreviewInit => PreviewSafe
  <2> SUFFICES ASSUME PreviewInit PROVE PreviewSafe
    OBVIOUS
  <2>1. PreviewShape /\ RequestsOK /\ PodsOK
    BY DEF PreviewInit, PreviewShape, RequestsOK, RequestOK, PodsOK, PublishSteps
  <2>2. VaultIsBounded
    <3>1. Kept(vault) = {}
      BY DEF PreviewInit, Kept
    <3> QED
      BY <3>1, PreviewAssumption, FS_EmptySet DEF VaultIsBounded
  <2> QED
    BY <2>1, <2>2 DEF PreviewSafe
<1> QED
  BY <1>1, PreviewStep, PTL DEF PreviewSpec

\* The values of a preview: at most MaxEntries wait, they leave the vault once and for the pod of
\* their own request, none stay behind a failure, and a published app has its audit row.
THEOREM PreviewsAreSound == PreviewSpec => []PreviewInv
<1>1. PreviewSafe => PreviewInv
  <2> SUFFICES ASSUME PreviewSafe PROVE PreviewTypeOK /\ ValuesGivenOnce /\ PodHasItsValues /\ FailureLeavesNothing
    BY DEF PreviewInv
  <2>1. PreviewTypeOK
    BY DEF PreviewSafe, PreviewTypeOK, PreviewShape, VaultIsBounded, PublishSteps
  <2>2. ValuesGivenOnce /\ PodHasItsValues
    BY DEF PreviewSafe, PreviewShape, PodsOK, ValuesGivenOnce, PodHasItsValues
  <2>3. FailureLeavesNothing
    BY DEF PreviewSafe, PreviewShape, RequestsOK, RequestOK, PodsOK, FailureLeavesNothing
  <2> QED
    BY <2>1, <2>2, <2>3
<1> QED
  BY <1>1, PreviewSafety, PTL


-----------------------------------------------------------------------------
(***************************************************************************)
(* Nightly                                                                 *)
(***************************************************************************)

NightTypeOK ==
  /\ clock \in 0 .. 4 * MaxNights - 1 /\ nightFaults \in Nat
  /\ report \in [pc : {"idle", "canvas", "model", "audit", "ok", "failed"}, night : 0 .. MaxNights]
  /\ stored \subseteq [night : Nights, at : Nat, status : {"ok", "failed"}]
  /\ morning \in {"idle", "told"}
  /\ ended \in [Nights -> {"none", "ok", "failed", "lost"}]
  /\ toldOf \in [Nights -> [kind : {"none", "missing", "summary", "failed"}, night : 0 .. MaxNights]]
  /\ deaf \subseteq Nights

\* The run under way began this midnight, and its night has no outcome.
ReportOfTonight ==
  report.pc # "idle" => /\ report.night \in Nights /\ ended[report.night] = "none"
                        /\ clock \in {4 * (report.night - 1), 4 * (report.night - 1) + 1}

\* A row was stored by six of its own night, and its status is how the night ended.
RowsOfTheirNight ==
  \A r \in stored : /\ r.at \in {4 * (r.night - 1), 4 * (r.night - 1) + 1} /\ r.at <= clock
                    /\ ended[r.night] = r.status

\* An alert that was given, or failed, is this morning's.
AlertedThisMorning ==
  morning = "told" => /\ clock = 4 * (Night(clock) - 1) + 1
                      /\ toldOf[Night(clock)].kind # "none" \/ Night(clock) \in deaf

NightSafe == NightTypeOK /\ ReportOfTonight /\ RowsOfTheirNight /\ AlertedThisMorning /\ NightInv

(***************************************************************************)
(* TelegramAlerts                                                          *)
(***************************************************************************)

AlertShape ==
  /\ AlertTypeOK
  /\ utcDay \in 1 .. MaxDays /\ notified.day <= utcDay /\ check.day <= utcDay /\ alertFaults \in Nat /\ active \in 0 .. MaxActivations
  /\ toldToday \in [Levels -> Nat] /\ failedToday \subseteq Levels
  /\ kill = "on" => active >= 1

\* A check that is about to tell an activation tells the last one, unless it came meanwhile.
TellsTheLast ==
  check.pc = "kill" => check.of \in 1 .. active /\ (active \notin quick => check.of = active)

\* A check goes on with the memory of the day it began on, and tells what it has not told.
ChecksItsDay ==
  /\ check.pc \in {"ratio", "level", "oauth"} => notified.day = check.day
  /\ check.left \cap notified.levels = {}

\* Levels the process holds for told today.
HeldToday == IF notified.day = utcDay THEN notified.levels ELSE {}

HeldIsTold ==
  /\ \A l \in HeldToday : toldToday[l] > 0 \/ l \in failedToday
  /\ \A l \in Levels : toldToday[l] <= alertFaults + (IF l \in HeldToday THEN 1 ELSE 0)

SweptIsTold == \A l \in swept : toldToday[l] > 0 \/ l \in failedToday

AlertSafe == AlertShape /\ TellsTheLast /\ ChecksItsDay /\ HeldIsTold /\ SweptIsTold /\ AlarmsTold


-----------------------------------------------------------------------------
\* The clock and its nights: four spans each, the first is midnight, the second is six.
LEMMA ClockOfNights ==
  ASSUME NEW t \in 0 .. 4 * MaxNights - 1
  PROVE  /\ Night(t) \in Nights
         /\ Hour(t) = "midnight" <=> t = 4 * (Night(t) - 1)
         /\ Hour(t) = "six" <=> t = 4 * (Night(t) - 1) + 1
         /\ 4 * (Night(t) - 1) <= t /\ t <= 4 * (Night(t) - 1) + 3
<1>1. t \in Nat /\ MaxNights \in Nat /\ t <= 4 * MaxNights - 1
  BY NightAssumption
<1>2. PICK q \in Nat, h \in 0 .. 3 : t = 4 * q + h /\ q = t \div 4 /\ h = t % 4
  <2>1. t \div 4 \in Nat /\ t % 4 \in 0 .. 3 /\ t = 4 * (t \div 4) + (t % 4)
    BY <1>1
  <2> QED
    BY <2>1
<1>3. Night(t) = 1 + q /\ q <= MaxNights - 1
  BY <1>1, <1>2 DEF Night
<1>4. /\ h = 0 <=> Hour(t) = "midnight"
      /\ h = 1 <=> Hour(t) = "six"
  BY <1>2 DEF Hour
<1> QED
  BY <1>1, <1>2, <1>3, <1>4 DEF Nights

\* A run begins, goes on or fails: the night it is of has no outcome yet.
LEMMA ReportMoves ==
  ASSUME NightSafe, BeginReport \/ ReportStep \/ ReportFails
  PROVE  NightSafe'
<1> USE DEF NightSafe
<1>1. UNCHANGED <<clock, stored, morning, ended, toldOf, deaf>> /\ nightFaults' \in Nat
  BY DEF BeginReport, ReportStep, ReportFails, NightFault, NightTypeOK
<1>2. clock \in 0 .. 4 * MaxNights - 1 /\ MaxNights \in Nat
  BY NightAssumption DEF NightTypeOK
<1>3. /\ report' \in [pc : {"idle", "canvas", "model", "audit", "ok", "failed"}, night : 0 .. MaxNights]
      /\ \/ report'.night = report.night /\ report.pc # "idle"
         \/ report'.night = Night(clock) /\ Hour(clock) = "midnight" /\ ended[Night(clock)] = "none"
  <2>1. CASE BeginReport
    <3>1. Night(clock) \in Nights
      BY <1>2, ClockOfNights
    <3> QED
      BY <1>2, <2>1, <3>1 DEF BeginReport, Nights
  <2>2. CASE ReportStep \/ ReportFails
    BY <2>2 DEF ReportStep, ReportFails, NightTypeOK
  <2> QED
    BY <2>1, <2>2
<1>4. NightTypeOK'
  BY <1>1, <1>3 DEF NightTypeOK
<1>5. ReportOfTonight'
  <2>1. CASE report'.night = report.night /\ report.pc # "idle"
    BY <1>1, <2>1 DEF ReportOfTonight
  <2>2. CASE report'.night = Night(clock) /\ Hour(clock) = "midnight" /\ ended[Night(clock)] = "none"
    BY <1>1, <1>2, <2>2, ClockOfNights DEF ReportOfTonight
  <2> QED
    BY <1>3, <2>1, <2>2
<1> QED
  BY <1>1, <1>4, <1>5 DEF RowsOfTheirNight, AlertedThisMorning, NightInv, MorningTellsTheTruth, NoSilentMorning

\* The run ends: its outcome is stored and is the night's, or it is lost.
LEMMA PersistMoves ==
  ASSUME NightSafe, PersistRun
  PROVE  NightSafe'
<1> USE DEF NightSafe
<1> PICK n, status : n = report.night /\ status = report.pc
  OBVIOUS
<1>1. status \in {"ok", "failed"} /\ n \in Nights /\ ended[n] = "none" /\ clock \in {4 * (n - 1), 4 * (n - 1) + 1}
      /\ clock \in Nat /\ MaxNights \in Nat
  BY NightAssumption DEF PersistRun, ReportOfTonight, NightTypeOK
<1>2. report' = NoReport /\ UNCHANGED <<clock, morning, toldOf, deaf>>
  BY DEF PersistRun
<1>3. PICK end \in {"ok", "failed", "lost"} :
        /\ ended' = [ended EXCEPT ![n] = end] /\ nightFaults' \in Nat
        /\ \/ end = status /\ stored' = stored \cup {[night |-> n, at |-> clock, status |-> status]}
           \/ stored' = stored
  BY <1>1 DEF PersistRun, NightFault, NightTypeOK
<1>4. \A k \in Nights : k # n => ended'[k] = ended[k]
  BY <1>3 DEF NightTypeOK
<1>5. ended'[n] = end
  BY <1>1, <1>3 DEF NightTypeOK
<1>6. NightTypeOK'
  BY <1>1, <1>2, <1>3 DEF NightTypeOK, NoReport
<1>7. ReportOfTonight'
  BY <1>2 DEF ReportOfTonight, NoReport
<1>8. RowsOfTheirNight'
  <2> SUFFICES ASSUME NEW r \in stored'
               PROVE  /\ r.at \in {4 * (r.night - 1), 4 * (r.night - 1) + 1} /\ r.at <= clock
                      /\ ended'[r.night] = r.status
    BY <1>2 DEF RowsOfTheirNight
  <2>1. CASE r \in stored
    <3>1. r.night \in Nights /\ r.status \in {"ok", "failed"} /\ ended[r.night] = r.status
      BY <2>1 DEF NightTypeOK, RowsOfTheirNight
    <3>2. r.night # n
      BY <1>1, <3>1
    <3> QED
      BY <1>4, <2>1, <3>1, <3>2 DEF RowsOfTheirNight
  <2>2. CASE r \notin stored
    BY <1>1, <1>3, <1>5, <2>2
  <2> QED
    BY <2>1, <2>2
<1>9. NightInv'
  BY <1>1, <1>2, <1>4 DEF NightInv, MorningTellsTheTruth, NoSilentMorning
<1> QED
  BY <1>2, <1>6, <1>7, <1>8, <1>9 DEF AlertedThisMorning

\* Six in the morning: the rows that are recent are tonight's.
LEMMA RecentIsTonight ==
  ASSUME NightSafe, Hour(clock) = "six"
  PROVE  /\ \A r \in Recent : r.night = Night(clock) /\ ended[Night(clock)] = r.status
         /\ Recent # {} => Latest(Recent) \in Recent
<1> USE DEF NightSafe
<1>1. Night(clock) \in Nights /\ clock = 4 * (Night(clock) - 1) + 1 /\ clock \in Nat /\ MaxNights \in Nat
  BY ClockOfNights, NightAssumption DEF NightTypeOK
<1>2. ASSUME NEW r \in Recent PROVE r.night = Night(clock) /\ ended[Night(clock)] = r.status
  <2>1. r \in stored /\ clock - r.at <= 2 /\ r.at \in Nat /\ r.night \in Nights
    BY <1>2 DEF Recent, NightTypeOK
  <2>2. r.at \in {4 * (r.night - 1), 4 * (r.night - 1) + 1} /\ r.at <= clock /\ ended[r.night] = r.status
    BY <2>1 DEF RowsOfTheirNight
  <2>3. r.night \in Nat /\ Night(clock) \in Nat
    BY <1>1, <2>1 DEF Nights
  <2>4. ASSUME NEW k \in Nat, NEW n \in Nat, NEW at \in Nat, NEW t \in Nat, t = 4 * (n - 1) + 1,
               at \in {4 * (k - 1), 4 * (k - 1) + 1}, at <= t, t - at <= 2
        PROVE  k = n
    BY <2>4
  <2>5. r.night = Night(clock)
    BY <1>1, <2>1, <2>2, <2>3, <2>4
  <2> QED
    BY <2>2, <2>5
<1>3. ASSUME Recent # {} PROVE Latest(Recent) \in Recent
  <2> DEFINE late == 4 * (Night(clock) - 1) + 1
             early == 4 * (Night(clock) - 1)
  <2>1. \A r \in Recent : r.at \in {early, late}
    <3> TAKE r \in Recent
    <3>1. r \in stored /\ r.night = Night(clock)
      BY <1>2 DEF Recent
    <3> QED
      BY <3>1 DEF RowsOfTheirNight
  <2>2. late \in Nat /\ early \in Nat /\ early < late
    BY <1>1 DEF Nights
  <2> HIDE DEF late, early
  <2>3. \E r \in Recent : \A q \in Recent : r.at >= q.at
    <3>1. CASE \E r \in Recent : r.at = late
      BY <2>1, <2>2, <3>1
    <3>2. CASE ~\E r \in Recent : r.at = late
      BY <1>3, <2>1, <2>2, <3>2
    <3> QED
      BY <3>1, <3>2
  <2> QED
    BY <2>3 DEF Latest
<1> QED
  BY <1>2, <1>3

\* The alert tells of tonight's run, by its outcome, or that there is none.
LEMMA MorningMoves ==
  ASSUME NightSafe, MorningAlert
  PROVE  NightSafe'
<1> USE DEF NightSafe
<1> PICK n : n = Night(clock)
  OBVIOUS
<1>1. n \in Nights /\ clock = 4 * (n - 1) + 1 /\ clock \in Nat /\ MaxNights \in Nat /\ Hour(clock) = "six"
  BY ClockOfNights, NightAssumption DEF NightTypeOK, MorningAlert
<1>2. morning' = "told" /\ UNCHANGED <<clock, report, stored, ended>>
  BY DEF MorningAlert
<1>3. /\ MorningEvent \in [kind : {"missing", "summary", "failed"}, night : 0 .. MaxNights]
      /\ MorningEvent.kind = "summary" => MorningEvent.night = n /\ ended[n] = "ok"
      /\ MorningEvent.kind = "failed" => MorningEvent.night = n /\ ended[n] = "failed"
  <2>1. CASE Recent = {}
    BY <1>1, <2>1 DEF MorningEvent
  <2>2. CASE Recent # {}
    <3>1. Latest(Recent) \in Recent /\ Latest(Recent).night = n /\ ended[n] = Latest(Recent).status
          /\ Latest(Recent).status \in {"ok", "failed"}
      <4>1. Latest(Recent) \in Recent
        BY <1>1, <2>2, RecentIsTonight
      <4> QED
        BY <1>1, <4>1, RecentIsTonight DEF Recent, NightTypeOK
    <3>2. n \in 0 .. MaxNights
      BY <1>1 DEF Nights
    <3> QED
      BY <2>2, <3>1, <3>2 DEF MorningEvent
  <2> QED
    BY <2>1, <2>2
<1> HIDE DEF MorningEvent
<1>4. \/ toldOf' = [toldOf EXCEPT ![n] = MorningEvent] /\ deaf' = deaf /\ nightFaults' = nightFaults
      \/ toldOf' = toldOf /\ deaf' = deaf \cup {n} /\ nightFaults' \in Nat
  BY DEF MorningAlert, NightFault, NightTypeOK
<1>5. \/ toldOf'[n] = MorningEvent /\ (\A k \in Nights : k # n => toldOf'[k] = toldOf[k]) /\ deaf' = deaf
      \/ toldOf' = toldOf /\ n \in deaf' /\ deaf \subseteq deaf'
  BY <1>1, <1>4 DEF NightTypeOK
<1>6. MorningEvent \in [kind : {"none", "missing", "summary", "failed"}, night : 0 .. MaxNights] /\ MorningEvent.kind # "none"
  BY <1>3
<1>7. NightTypeOK'
  BY <1>1, <1>2, <1>4, <1>6 DEF NightTypeOK
<1>8. AlertedThisMorning'
  <2>1. Night(clock)' = n
    BY <1>2 DEF Night
  <2> QED
    BY <1>1, <1>2, <1>5, <1>6, <2>1 DEF AlertedThisMorning
<1>9. MorningTellsTheTruth'
  BY <1>2, <1>3, <1>5 DEF NightInv, MorningTellsTheTruth
<1>10. NoSilentMorning'
  BY <1>2, <1>5, <1>6 DEF NightInv, NoSilentMorning
<1> QED
  BY <1>2, <1>7, <1>8, <1>9, <1>10 DEF ReportOfTonight, RowsOfTheirNight, NightInv

\* Time passes: no run outlives six, and no six passes without its alert.
LEMMA ClockMoves ==
  ASSUME NightSafe, TimePasses
  PROVE  NightSafe'
<1> USE DEF NightSafe
<1> PICK n : n = Night(clock)
  OBVIOUS
<1>1. n \in Nights /\ clock \in Nat /\ MaxNights \in Nat /\ 4 * (n - 1) <= clock /\ clock <= 4 * (n - 1) + 3 /\ n \in Nat
      /\ (Hour(clock) = "midnight" <=> clock = 4 * (n - 1)) /\ (Hour(clock) = "six" <=> clock = 4 * (n - 1) + 1)
  <2>1. clock \in 0 .. 4 * MaxNights - 1 /\ MaxNights \in Nat
    BY NightAssumption DEF NightTypeOK
  <2>2. n \in Nights => n \in Nat
    BY DEF Nights
  <2>3. clock \in Nat
    BY <2>1
  <2> QED
    BY <2>1, <2>2, <2>3, ClockOfNights
<1>2. clock' = clock + 1 /\ morning' = "idle" /\ UNCHANGED <<report, stored, nightFaults, ended, toldOf, deaf>>
      /\ clock < 4 * MaxNights - 1 /\ (Hour(clock) = "six" => morning = "told" /\ report.pc = "idle")
  BY DEF TimePasses
<1>3. NightTypeOK'
  BY <1>1, <1>2 DEF NightTypeOK
<1>4. ReportOfTonight'
  <2> SUFFICES ASSUME report.pc # "idle"
               PROVE  clock + 1 \in {4 * (report.night - 1), 4 * (report.night - 1) + 1}
    BY <1>2 DEF ReportOfTonight
  <2>1. report.night \in Nat /\ clock \in {4 * (report.night - 1), 4 * (report.night - 1) + 1}
    BY DEF ReportOfTonight, Nights
  <2>2. clock # 4 * (n - 1) + 1
    BY <1>1, <1>2
  <2>3. report.night = n
    BY <1>1, <2>1
  <2> QED
    BY <1>1, <2>1, <2>2, <2>3
<1>5. RowsOfTheirNight'
  <2> SUFFICES ASSUME NEW r \in stored PROVE r.at <= clock + 1
    BY <1>2 DEF RowsOfTheirNight
  <2>1. r.at \in Nat /\ r.at <= clock
    BY DEF RowsOfTheirNight, NightTypeOK
  <2> QED
    BY <1>1, <2>1
<1>6. NoSilentMorning'
  <2> SUFFICES ASSUME NEW k \in Nights, clock + 1 > 4 * (k - 1) + 1
               PROVE  toldOf[k].kind # "none" \/ k \in deaf
    BY <1>2 DEF NoSilentMorning
  <2>1. k \in Nat
    BY DEF Nights
  <2>2. CASE clock > 4 * (k - 1) + 1
    BY <2>2 DEF NightInv, NoSilentMorning
  <2>3. CASE clock = 4 * (k - 1) + 1
    <3>1. k = n
      BY <1>1, <2>1, <2>3
    <3> QED
      BY <1>1, <1>2, <2>3, <3>1 DEF AlertedThisMorning
  <2> QED
    BY <1>1, <2>1, <2>2, <2>3
<1> QED
  BY <1>2, <1>3, <1>4, <1>5, <1>6 DEF AlertedThisMorning, NightInv, MorningTellsTheTruth

\* The process dies: the run is lost, and so is an alert that was due.
LEMMA CrashMoves ==
  ASSUME NightSafe, NightCrash
  PROVE  NightSafe'
<1> USE DEF NightSafe
<1> PICK n : n = Night(clock)
  OBVIOUS
<1>1. n \in Nights /\ (Hour(clock) = "six" <=> clock = 4 * (n - 1) + 1) /\ MaxNights \in Nat
  BY ClockOfNights, NightAssumption DEF NightTypeOK
<1>2. /\ UNCHANGED <<clock, stored, toldOf>> /\ report' = NoReport /\ nightFaults' \in Nat
      /\ deaf' = (IF Hour(clock) = "six" /\ morning = "idle" THEN deaf \cup {n} ELSE deaf)
      /\ morning' = IF Hour(clock) = "six" THEN "told" ELSE morning
  BY DEF NightCrash, NightFault, NightTypeOK
<1>3. ended' = ended \/ \E k \in Nights : ended[k] = "none" /\ ended' = [ended EXCEPT ![k] = "lost"]
  <2>1. CASE report.pc # "idle"
    <3>1. ended' = [ended EXCEPT ![report.night] = "lost"]
      BY <2>1 DEF NightCrash
    <3> QED
      BY <2>1, <3>1 DEF ReportOfTonight
  <2>2. CASE report.pc = "idle" /\ Hour(clock) = "midnight" /\ ended[n] = "none"
    <3>1. ended' = [ended EXCEPT ![n] = "lost"]
      BY <2>2 DEF NightCrash
    <3> QED
      BY <1>1, <2>2, <3>1
  <2>3. CASE report.pc = "idle" /\ ~(Hour(clock) = "midnight" /\ ended[n] = "none")
    BY <2>3 DEF NightCrash
  <2> QED
    BY <2>1, <2>2, <2>3
<1>4. ended' \in [Nights -> {"none", "ok", "failed", "lost"}]
      /\ \A k \in Nights : ended[k] # "none" => ended'[k] = ended[k]
  BY <1>3 DEF NightTypeOK
<1>5. NightTypeOK'
  BY <1>1, <1>2, <1>4 DEF NightTypeOK, NoReport
<1>6. ReportOfTonight'
  BY <1>2 DEF ReportOfTonight, NoReport
<1>7. RowsOfTheirNight'
  BY <1>2, <1>4 DEF RowsOfTheirNight, NightTypeOK
<1>8. AlertedThisMorning'
  <2>1. Night(clock)' = n
    BY <1>2 DEF Night
  <2>2. morning \in {"idle", "told"}
    BY DEF NightTypeOK
  <2> QED
    BY <1>1, <1>2, <2>1, <2>2 DEF AlertedThisMorning
<1>9. NightInv'
  BY <1>2, <1>4 DEF NightInv, MorningTellsTheTruth, NoSilentMorning
<1> QED
  BY <1>5, <1>6, <1>7, <1>8, <1>9

\* The inductive invariant of the nightly report and the morning alert, for every number of
\* nights and faults.
THEOREM NightSafety == NightSpec => []NightSafe
<1>1. NightInit => NightSafe
  <2> SUFFICES ASSUME NightInit PROVE NightSafe
    OBVIOUS
  <2>1. MaxNights \in Nat /\ MaxNights >= 1
    BY NightAssumption
  <2>2. NightTypeOK
    BY <2>1 DEF NightInit, NightTypeOK, NoReport, Untold
  <2>3. NoSilentMorning
    BY <2>1 DEF NightInit, NoSilentMorning, Nights
  <2> QED
    BY <2>2, <2>3 DEF NightInit, NightSafe, ReportOfTonight, RowsOfTheirNight, AlertedThisMorning, NightInv,
       MorningTellsTheTruth, NoReport, Untold
<1>2. NightSafe /\ [NightNext]_nightVars => NightSafe'
  <2>1. ASSUME NightSafe, UNCHANGED nightVars PROVE NightSafe'
    BY <2>1 DEF nightVars, NightSafe, NightTypeOK, ReportOfTonight, RowsOfTheirNight, AlertedThisMorning, NightInv,
       MorningTellsTheTruth, NoSilentMorning, Night
  <2> QED
    BY <2>1, ReportMoves, PersistMoves, MorningMoves, ClockMoves, CrashMoves DEF NightNext
<1> QED
  BY <1>1, <1>2, PTL DEF NightSpec

\* Every morning brings an alert unless its query failed or the process died, and what it tells
\* is the outcome of the night before and of no other.
THEOREM MorningsAreTrue == NightSpec => []NightInv
<1>1. NightSafe => NightInv
  BY DEF NightSafe
<1> QED
  BY <1>1, NightSafety, PTL


-----------------------------------------------------------------------------
Checks == [pc : {"idle", "kill", "ratio", "level", "oauth"}, left : SUBSET Levels, of : 0 .. MaxActivations, day : 0 .. MaxDays]
Memories == [levels : SUBSET Levels, day : 0 .. MaxDays, oauthDay : 0 .. MaxDays]

\* The check and the memory, field by field.
LEMMA AlertFields ==
  ASSUME AlertShape
  PROVE  /\ check \in Checks /\ notified \in Memories /\ lastNotified \in [kill : {"no", "yes"}, chain : {"no", "yes"}]
         /\ Rest \in Checks /\ Rest.pc = "idle" /\ Rest.left = {} /\ Rest.of = 0 /\ Rest.day = 0
         /\ MaxDays \in Nat /\ MaxActivations \in Nat /\ utcDay \in 0 .. MaxDays /\ active \in 0 .. MaxActivations
BY AlertAssumption DEF AlertShape, AlertTypeOK, Checks, Memories, Rest, Levels

\* What happens around the bot, but for midnight, leaves what it holds and told.
LEMMA WorldStep ==
  ASSUME AlertSafe, OAuthRefreshed \/ Activate \/ UnpauseElsewhere \/ LockChain \/ Spend \/ LocalMidnight
  PROVE  AlertSafe'
<1> USE DEF AlertSafe
<1>1. UNCHANGED <<memo, records, utcDay>> /\ spent' \in 0 .. 2 /\ oauth' \in {"fresh", "due"} /\ kill' \in {"off", "on"} /\ chain' \in {"open", "locked"}
  BY DEF OAuthRefreshed, Activate, UnpauseElsewhere, LockChain, Spend, LocalMidnight, AlertShape, AlertTypeOK
<1>2. /\ active' \in 0 .. MaxActivations /\ active <= active' /\ (kill' = "on" => active' >= 1)
      /\ \/ active' = active /\ quick' = quick /\ (kill' = "on" => kill = "on")
         \/ /\ active' = active + 1 /\ kill = "off"
            /\ quick' = IF lastNotified.kill = "yes" \/ check.pc = "kill" THEN quick \cup {active'} ELSE quick
  BY AlertAssumption DEF OAuthRefreshed, Activate, UnpauseElsewhere, LockChain, Spend, LocalMidnight, AlertShape, AlertTypeOK
<1>3. active \in Nat /\ active' \in Nat
  BY <1>2, AlertAssumption DEF AlertShape
<1>4. told' \subseteq 1 .. active'
  BY <1>1, <1>2, <1>3 DEF records, AlertShape, AlertTypeOK
<1>5. AlertShape'
  BY <1>1, <1>2, <1>4 DEF memo, records, AlertShape, AlertTypeOK
<1>6. TellsTheLast' /\ AlarmsTold'
  BY <1>1, <1>2, <1>3 DEF memo, records, TellsTheLast, AlarmsTold
<1>7. ChecksItsDay' /\ HeldIsTold' /\ SweptIsTold'
  BY <1>1 DEF memo, records, ChecksItsDay, HeldIsTold, SweptIsTold, HeldToday
<1> QED
  BY <1>5, <1>6, <1>7

\* A new day: nothing was told in it yet, and what is held is another day's.
LEMMA MidnightStep ==
  ASSUME AlertSafe, UtcMidnight
  PROVE  AlertSafe'
<1> USE DEF AlertSafe
<1>1. /\ UNCHANGED <<kill, chain, spent, active, quick, lastNotified, notified, check, unpausing, alertFaults, told, lockTold>>
      /\ utcDay' = utcDay + 1 /\ utcDay < MaxDays /\ oauth' \in {oauth, "due"}
      /\ toldToday' = [l \in Levels |-> 0] /\ failedToday' = {} /\ swept' = {}
  BY DEF UtcMidnight
<1>2. utcDay \in Nat /\ MaxDays \in Nat /\ notified.day \in Nat /\ check.day \in Nat /\ notified.day <= utcDay /\ check.day <= utcDay
  BY AlertAssumption DEF AlertShape, AlertTypeOK
<1>3. AlertShape'
  BY <1>1, <1>2 DEF AlertShape, AlertTypeOK
<1>4. HeldToday' = {}
  BY <1>1, <1>2 DEF HeldToday
<1>5. HeldIsTold' /\ SweptIsTold'
  BY <1>1, <1>4 DEF HeldIsTold, SweptIsTold, AlertShape
<1> QED
  BY <1>1, <1>3, <1>5 DEF TellsTheLast, ChecksItsDay, AlarmsTold

\* The process dies: it holds nothing for told, and has one more fault to tell twice by.
LEMMA AlertCrashStep ==
  ASSUME AlertSafe, AlertCrash
  PROVE  AlertSafe'
<1> USE DEF AlertSafe
<1>1. /\ UNCHANGED <<world, records>> /\ alertFaults' = alertFaults + 1 /\ check' = Rest /\ unpausing' = "no"
      /\ lastNotified' = [kill |-> "no", chain |-> "no"] /\ notified' = [levels |-> {}, day |-> 0, oauthDay |-> 0]
  BY DEF AlertCrash, AlertFault
<1>2. Rest \in Checks /\ Rest.pc = "idle" /\ Rest.left = {} /\ Rest.of = 0 /\ Rest.day = 0 /\ MaxDays \in Nat
  BY AlertFields
<1>3. notified' \in Memories /\ notified'.levels = {} /\ notified'.day = 0
  BY <1>1, <1>2 DEF Memories
<1>4. lastNotified' \in [kill : {"no", "yes"}, chain : {"no", "yes"}] /\ lastNotified'.kill = "no" /\ lastNotified'.chain = "no"
  BY <1>1
<1>5. AlertShape'
  BY <1>1, <1>2, <1>3, <1>4 DEF world, records, AlertShape, AlertTypeOK, Checks, Memories
<1>6. HeldToday' = {}
  BY <1>3 DEF HeldToday
<1>7. ASSUME NEW l \in Levels PROVE toldToday[l] <= alertFaults + 1
  BY DEF HeldIsTold, AlertShape
<1>8. HeldIsTold' /\ SweptIsTold'
  <2>1. \A l \in Levels : toldToday'[l] <= alertFaults' + 0
    BY <1>1, <1>7 DEF records, AlertShape
  <2> QED
    BY <1>1, <1>6, <2>1 DEF records, HeldIsTold, SweptIsTold
<1>9. TellsTheLast' /\ ChecksItsDay' /\ AlarmsTold'
  BY <1>1, <1>2, <1>3, <1>4 DEF TellsTheLast, ChecksItsDay, AlarmsTold
<1> QED
  BY <1>5, <1>8, <1>9

\* The lock's check, /unpause and a check that fails, which leave the memory of the thresholds.
LEMMA FlagStep ==
  ASSUME AlertSafe, CheckAuditIntegrity \/ Unpause \/ RecordUnpause \/ CheckFails
  PROVE  AlertSafe'
<1> USE DEF AlertSafe
<1>1. /\ UNCHANGED <<chain, spent, oauth, utcDay, active, quick, notified, told, toldToday, failedToday, swept>>
      /\ alertFaults' \in {alertFaults, alertFaults + 1} /\ unpausing' \in {"no", "yes"} /\ check' \in {check, Rest}
      /\ kill' \in {kill, "off"}
  BY DEF CheckAuditIntegrity, Unpause, RecordUnpause, CheckFails, AlertFault, world, records, AlertShape, AlertTypeOK
<1>2. /\ lastNotified' \in [kill : {"no", "yes"}, chain : {"no", "yes"}] /\ lockTold' \in {"no", "yes"}
      /\ lastNotified'.kill = "yes" => lastNotified.kill = "yes"
      /\ lastNotified'.chain = "yes" => lockTold' = "yes"
  BY DEF CheckAuditIntegrity, Unpause, RecordUnpause, CheckFails, world, records, AlertShape, AlertTypeOK, AlarmsTold
<1>3. Rest \in Checks /\ Rest.pc = "idle" /\ Rest.left = {} /\ Rest.of = 0 /\ Rest.day = 0 /\ check \in Checks
  BY AlertFields
<1>4. alertFaults \in Nat /\ alertFaults' \in Nat /\ alertFaults <= alertFaults' /\ utcDay \in Nat
  BY <1>1, AlertAssumption DEF AlertShape
<1>5. AlertShape'
  BY <1>1, <1>2, <1>3, <1>4 DEF AlertShape, AlertTypeOK, Checks
<1>6. TellsTheLast' /\ ChecksItsDay' /\ AlarmsTold' /\ SweptIsTold'
  BY <1>1, <1>2, <1>3 DEF TellsTheLast, ChecksItsDay, AlarmsTold, SweptIsTold
<1>7. HeldToday' = HeldToday
  BY <1>1 DEF HeldToday
<1>8. HeldIsTold'
  <2>1. ASSUME NEW l \in Levels PROVE toldToday[l] <= alertFaults' + (IF l \in HeldToday THEN 1 ELSE 0)
    BY <1>4 DEF HeldIsTold, AlertShape
  <2> QED
    BY <1>1, <1>7, <2>1 DEF HeldIsTold
<1> QED
  BY <1>5, <1>6, <1>8

\* The memory at the start of checkDailyBudgetAlert: this day's, and no more than was held for it.
LEMMA ResetKeeps ==
  ASSUME AlertSafe, ResetThresholds, utcDay' = utcDay
  PROVE  /\ notified' \in Memories /\ notified'.day = utcDay /\ HeldToday' = HeldToday /\ notified'.levels = HeldToday
<1>1. notified \in Memories /\ utcDay \in 0 .. MaxDays
  BY AlertFields DEF AlertSafe
<1>2. CASE notified.day = utcDay
  BY <1>1, <1>2 DEF ResetThresholds, HeldToday
<1>3. CASE notified.day # utcDay
  <2>1. notified' = [notified EXCEPT !.day = utcDay, !.levels = {}]
    BY <1>3 DEF ResetThresholds
  <2>2. notified' \in Memories /\ notified'.day = utcDay /\ notified'.levels = {}
    BY <1>1, <2>1 DEF Memories
  <2> QED
    BY <1>3, <2>2 DEF HeldToday
<1> QED
  BY <1>2, <1>3

\* checkKillSwitchAlert, with and without a message.
LEMMA KillSwitchStep ==
  ASSUME AlertSafe, CheckKillSwitch \/ SendKillSwitch
  PROVE  AlertSafe'
<1> USE DEF AlertSafe
<1>1. UNCHANGED <<world, unpausing, alertFaults, toldToday, failedToday, swept, lockTold>>
  BY DEF CheckKillSwitch, SendKillSwitch, records
<1>2. /\ check \in Checks /\ notified \in Memories /\ lastNotified \in [kill : {"no", "yes"}, chain : {"no", "yes"}]
      /\ Rest \in Checks /\ Rest.left = {} /\ Rest.of = 0
      /\ MaxDays \in Nat /\ MaxActivations \in Nat /\ utcDay \in 0 .. MaxDays /\ active \in 0 .. MaxActivations
  BY AlertFields
<1>3. CASE CheckKillSwitch /\ kill = "on" /\ lastNotified.kill = "no"
  <2>1. check' = [Rest EXCEPT !.pc = "kill", !.of = active, !.day = utcDay] /\ UNCHANGED <<lastNotified, notified, told>>
    BY <1>3 DEF CheckKillSwitch, records
  <2>2. check' \in Checks /\ check'.pc = "kill" /\ check'.of = active /\ check'.day = utcDay /\ check'.left = {}
    BY <1>2, <2>1 DEF Checks
  <2>3. active \in 1 .. active
    BY <1>2, <1>3 DEF AlertShape
  <2>4. AlertShape'
    BY <1>1, <1>2, <2>1, <2>2 DEF world, AlertShape, AlertTypeOK, Checks
  <2>5. TellsTheLast' /\ ChecksItsDay' /\ AlarmsTold' /\ SweptIsTold' /\ HeldIsTold'
    BY <1>1, <2>1, <2>2, <2>3 DEF world, TellsTheLast, ChecksItsDay, AlarmsTold, SweptIsTold, HeldIsTold, HeldToday
  <2> QED
    BY <2>4, <2>5
<1>4. CASE SendKillSwitch \/ (CheckKillSwitch /\ ~(kill = "on" /\ lastNotified.kill = "no"))
  <2>1. ResetThresholds /\ utcDay' = utcDay
    BY <1>1, <1>4 DEF CheckKillSwitch, SendKillSwitch, world
  <2>2. notified' \in Memories /\ notified'.day = utcDay /\ HeldToday' = HeldToday /\ notified'.levels = HeldToday
    BY <2>1, ResetKeeps
  <2>3. check' \in Checks /\ check'.pc = "ratio" /\ check'.left = {} /\ check'.day = utcDay
    <3>1. CASE SendKillSwitch
      <4>1. check.left = {} /\ check' = [check EXCEPT !.pc = "ratio", !.day = utcDay]
        BY <3>1 DEF SendKillSwitch, AlertShape, AlertTypeOK
      <4> QED
        BY <1>2, <4>1 DEF Checks
    <3>2. CASE ~SendKillSwitch
      <4>1. check' = [Rest EXCEPT !.pc = "ratio", !.day = utcDay]
        BY <1>4, <3>2 DEF CheckKillSwitch
      <4> QED
        BY <1>2, <4>1 DEF Checks
    <3> QED
      BY <3>1, <3>2
  <2>4. /\ lastNotified' \in [kill : {"no", "yes"}, chain : {"no", "yes"}] /\ lastNotified'.chain = lastNotified.chain
        /\ told \subseteq told' /\ told' \subseteq 1 .. active
        /\ kill = "on" /\ lastNotified'.kill = "yes" /\ active \notin quick => active \in told'
    <3>1. CASE SendKillSwitch
      <4>1. check.of \in 1 .. active /\ (active \notin quick => check.of = active)
        BY <3>1 DEF SendKillSwitch, TellsTheLast
      <4> QED
        BY <1>2, <3>1, <4>1 DEF SendKillSwitch, AlertShape, AlertTypeOK
    <3>2. CASE ~SendKillSwitch
      <4>1. lastNotified' = [lastNotified EXCEPT !.kill = IF kill = "on" THEN "yes" ELSE "no"] /\ told' = told
            /\ ~(kill = "on" /\ lastNotified.kill = "no")
        BY <1>4, <3>2 DEF CheckKillSwitch, records
      <4>2. lastNotified' \in [kill : {"no", "yes"}, chain : {"no", "yes"}] /\ lastNotified'.chain = lastNotified.chain
        BY <1>2, <4>1
      <4>3. kill = "on" => lastNotified.kill = "yes"
        BY <1>2, <4>1
      <4> QED
        BY <4>1, <4>2, <4>3 DEF AlarmsTold, AlertShape, AlertTypeOK
    <3> QED
      BY <3>1, <3>2
  <2>5. AlertShape'
    BY <1>1, <1>2, <2>2, <2>3, <2>4 DEF world, AlertShape, AlertTypeOK, Checks, Memories
  <2>6. TellsTheLast' /\ ChecksItsDay' /\ AlarmsTold' /\ SweptIsTold'
    BY <1>1, <2>2, <2>3, <2>4 DEF world, TellsTheLast, ChecksItsDay, AlarmsTold, SweptIsTold
  <2>7. HeldIsTold'
    BY <1>1, <2>2 DEF HeldIsTold
  <2> QED
    BY <2>5, <2>6, <2>7
<1> QED
  BY <1>3, <1>4

\* The ratio, and the Google token's check at the end.
LEMMA RatioStep ==
  ASSUME AlertSafe, ReadRatio \/ CheckOAuth
  PROVE  AlertSafe'
<1> USE DEF AlertSafe
<1>1. UNCHANGED <<world, lastNotified, unpausing, alertFaults, told, toldToday, failedToday, lockTold>>
  BY DEF ReadRatio, CheckOAuth, records
<1>2. /\ check \in Checks /\ notified \in Memories /\ Rest \in Checks /\ Rest.pc = "idle" /\ Rest.left = {} /\ Rest.day = 0
      /\ MaxDays \in Nat /\ MaxActivations \in Nat /\ utcDay \in 0 .. MaxDays
  BY AlertFields
<1>3. CASE ReadRatio
  <2>1. check.pc = "ratio" /\ notified' = notified
        /\ check' = [check EXCEPT !.pc = IF ToTell = {} THEN "oauth" ELSE "level", !.left = ToTell]
        /\ swept' = IF check.day = utcDay THEN swept \cup ((1 .. spent) \ ToTell) ELSE swept
    BY <1>3 DEF ReadRatio
  <2>2. spent \in 0 .. 2 /\ 1 .. spent \subseteq Levels /\ ToTell \subseteq Levels /\ ToTell \cap notified.levels = {}
        /\ (1 .. spent) \ ToTell \subseteq notified.levels
    BY DEF AlertShape, AlertTypeOK, Levels, ToTell
  <2> HIDE DEF ToTell
  <2>3. /\ check' \in Checks /\ check'.left = ToTell /\ check'.pc = (IF ToTell = {} THEN "oauth" ELSE "level")
        /\ check'.day = check.day
    BY <1>2, <2>1, <2>2 DEF Checks
  <2>4. swept' \subseteq Levels
    BY <2>1, <2>2 DEF AlertShape, AlertTypeOK
  <2>5. AlertShape'
    BY <1>1, <2>1, <2>3, <2>4 DEF world, AlertShape, AlertTypeOK, Checks
  <2>6. TellsTheLast' /\ ChecksItsDay' /\ AlarmsTold' /\ HeldIsTold'
    BY <1>1, <2>1, <2>2, <2>3 DEF world, TellsTheLast, ChecksItsDay, AlarmsTold, HeldIsTold, HeldToday
  <2>7. SweptIsTold'
    BY <1>1, <2>1, <2>2 DEF SweptIsTold, ChecksItsDay, HeldIsTold, HeldToday
  <2> QED
    BY <2>5, <2>6, <2>7
<1>4. CASE CheckOAuth
  <2>1. check' = Rest /\ swept' = swept /\ notified' \in {notified, [notified EXCEPT !.oauthDay = utcDay]}
    BY <1>4 DEF CheckOAuth, records
  <2>2. notified' \in Memories /\ notified'.levels = notified.levels /\ notified'.day = notified.day
    BY <1>2, <2>1 DEF Memories
  <2>3. AlertShape'
    BY <1>1, <1>2, <2>1, <2>2 DEF world, AlertShape, AlertTypeOK, Checks, Memories
  <2>4. TellsTheLast' /\ ChecksItsDay' /\ AlarmsTold' /\ HeldIsTold' /\ SweptIsTold'
    BY <1>1, <1>2, <2>1, <2>2 DEF world, TellsTheLast, ChecksItsDay, AlarmsTold, HeldIsTold, HeldToday, SweptIsTold
  <2> QED
    BY <2>3, <2>4
<1> QED
  BY <1>3, <1>4

\* A threshold is marked, then told, or its message fails.
LEMMA ThresholdStep ==
  ASSUME AlertSafe, SendThreshold
  PROVE  AlertSafe'
<1> USE DEF AlertSafe
<1> PICK l : l = Lowest(check.left)
  OBVIOUS
<1>1. /\ check \in Checks /\ notified \in Memories /\ Rest \in Checks /\ Rest.pc = "idle" /\ Rest.left = {} /\ Rest.day = 0
      /\ utcDay \in Nat /\ alertFaults \in Nat /\ check.pc = "level"
  BY AlertFields DEF SendThreshold, AlertShape
<1>2. l \in check.left /\ l \in Levels /\ l \notin notified.levels /\ notified.day = check.day
  <2>1. check.left # {} /\ check.left \subseteq {1, 2}
    BY <1>1 DEF AlertShape, AlertTypeOK, Levels
  <2>2. \E k \in check.left : \A j \in check.left : k <= j
    BY <2>1
  <2>3. l \in check.left
    BY <2>2 DEF Lowest
  <2> QED
    BY <1>1, <2>1, <2>3 DEF ChecksItsDay, Levels
<1>3. UNCHANGED <<world, lastNotified, unpausing, told, lockTold>> /\ notified' = MarkTold(l)
  BY DEF SendThreshold
<1>4. notified' \in Memories /\ notified'.levels = notified.levels \cup {l} /\ notified'.day = notified.day
  BY <1>1, <1>2, <1>3 DEF MarkTold, Memories
<1>5. HeldToday' = IF check.day = utcDay THEN HeldToday \cup {l} ELSE HeldToday
  BY <1>2, <1>3, <1>4 DEF world, HeldToday
<1>6. l \notin HeldToday
  BY <1>2 DEF HeldToday
<1>7. CASE /\ check' = [check EXCEPT !.left = @ \ {l}, !.pc = IF check.left = {l} THEN "oauth" ELSE "level"]
           /\ toldToday' = (IF check.day = utcDay THEN [toldToday EXCEPT ![l] = @ + 1] ELSE toldToday)
           /\ swept' = (IF check.day = utcDay THEN swept \cup {l} ELSE swept)
           /\ UNCHANGED <<failedToday, alertFaults>>
  <2>1. /\ check' \in Checks /\ check'.left = check.left \ {l} /\ check'.pc = (IF check.left = {l} THEN "oauth" ELSE "level")
        /\ check'.day = check.day
    BY <1>1, <1>7 DEF Checks
  <2>2. check'.pc = "level" <=> check'.left # {}
    BY <1>2, <2>1
  <2>3. /\ toldToday' \in [Levels -> Nat] /\ (\A k \in Levels : k # l => toldToday'[k] = toldToday[k])
        /\ toldToday'[l] = IF check.day = utcDay THEN toldToday[l] + 1 ELSE toldToday[l]
    BY <1>2, <1>7 DEF AlertShape
  <2>4. AlertShape'
    BY <1>2, <1>3, <1>4, <1>7, <2>1, <2>2, <2>3 DEF world, AlertShape, AlertTypeOK, Checks, Memories
  <2>5. TellsTheLast' /\ ChecksItsDay' /\ AlarmsTold'
    BY <1>2, <1>3, <1>4, <2>1 DEF world, TellsTheLast, ChecksItsDay, AlarmsTold
  <2>6. toldToday[l] \in Nat /\ toldToday[l] <= alertFaults
    BY <1>1, <1>2, <1>6 DEF HeldIsTold, AlertShape
  <2>7. ASSUME NEW k \in Levels
        PROVE  toldToday'[k] <= alertFaults + (IF k \in HeldToday' THEN 1 ELSE 0)
    <3>1. CASE k = l
      BY <1>1, <1>5, <1>6, <2>3, <2>6, <3>1
    <3>2. CASE k # l
      BY <1>5, <2>3, <3>2 DEF HeldIsTold
    <3> QED
      BY <3>1, <3>2
  <2>8. ASSUME NEW k \in Levels, k = l => check.day = utcDay \/ toldToday[k] > 0 \/ k \in failedToday,
               k # l => toldToday[k] > 0 \/ k \in failedToday
        PROVE  toldToday'[k] > 0 \/ k \in failedToday
    BY <2>3, <2>6, <2>8
  <2>9. HeldToday' \subseteq Levels /\ HeldToday \subseteq Levels /\ swept' \subseteq Levels
    BY <1>1, <1>2, <1>5, <1>7 DEF HeldToday, Memories, AlertShape, AlertTypeOK
  <2>10. HeldIsTold'
    BY <1>5, <1>7, <2>7, <2>8, <2>9 DEF HeldIsTold
  <2>11. SweptIsTold'
    BY <1>7, <2>8, <2>9 DEF SweptIsTold
  <2> QED
    BY <2>4, <2>5, <2>10, <2>11
<1>8. CASE /\ AlertFault /\ check' = Rest
           /\ failedToday' = (IF check.day = utcDay THEN failedToday \cup {l} ELSE failedToday)
           /\ UNCHANGED <<toldToday, swept>>
  <2>1. alertFaults' = alertFaults + 1 /\ failedToday \subseteq failedToday' /\ failedToday' \subseteq Levels
    BY <1>2, <1>8 DEF AlertFault, AlertShape
  <2>2. AlertShape'
    BY <1>1, <1>3, <1>4, <1>8, <2>1 DEF world, AlertShape, AlertTypeOK, Checks, Memories
  <2>3. TellsTheLast' /\ ChecksItsDay' /\ AlarmsTold' /\ SweptIsTold'
    BY <1>1, <1>3, <1>8, <2>1 DEF world, TellsTheLast, ChecksItsDay, AlarmsTold, SweptIsTold
  <2>4. ASSUME NEW k \in Levels
        PROVE  toldToday[k] <= alertFaults' + (IF k \in HeldToday' THEN 1 ELSE 0)
    BY <1>1, <1>5, <2>1 DEF HeldIsTold, AlertShape
  <2>5. HeldIsTold'
    BY <1>5, <1>8, <2>1, <2>4 DEF HeldIsTold
  <2> QED
    BY <2>2, <2>3, <2>5
<1> QED
  BY <1>7, <1>8 DEF SendThreshold

\* The inductive invariant of the bot's alerts, for every number of activations, days and faults.
THEOREM AlertSafety == AlertSpec => []AlertSafe
<1>1. AlertInit => AlertSafe
  <2> SUFFICES ASSUME AlertInit PROVE AlertSafe
    OBVIOUS
  <2>1. MaxDays \in Nat /\ MaxDays >= 1 /\ MaxActivations \in Nat
    BY AlertAssumption
  <2>2. check.pc = "idle" /\ check.left = {} /\ check.day = 0 /\ check \in Checks
    BY <2>1 DEF AlertInit, Rest, Checks
  <2>3. notified.levels = {} /\ notified.day = 0 /\ notified \in Memories /\ lastNotified.kill = "no" /\ lastNotified.chain = "no"
        /\ lastNotified \in [kill : {"no", "yes"}, chain : {"no", "yes"}]
    BY <2>1 DEF AlertInit, Memories
  <2>4. AlertShape
    BY <2>1, <2>2, <2>3 DEF AlertInit, AlertShape, AlertTypeOK, Checks, Memories
  <2>5. TellsTheLast /\ ChecksItsDay /\ AlarmsTold /\ SweptIsTold
    BY <2>2, <2>3 DEF AlertInit, TellsTheLast, ChecksItsDay, AlarmsTold, SweptIsTold
  <2>6. HeldIsTold
    BY <2>3 DEF AlertInit, HeldIsTold, HeldToday
  <2> QED
    BY <2>4, <2>5, <2>6 DEF AlertSafe
<1>2. AlertSafe /\ [AlertNext]_alertVars => AlertSafe'
  <2>1. ASSUME AlertSafe, UNCHANGED alertVars PROVE AlertSafe'
    BY <2>1 DEF alertVars, AlertSafe, AlertShape, AlertTypeOK, TellsTheLast, ChecksItsDay, HeldIsTold, HeldToday, SweptIsTold, AlarmsTold
  <2> QED
    BY <2>1, WorldStep, MidnightStep, AlertCrashStep, FlagStep, KillSwitchStep, RatioStep, ThresholdStep DEF AlertNext
<1> QED
  BY <1>1, <1>2, PTL DEF AlertSpec

\* What the bot holds for told was told: the activations of the kill switch, the lock of the audit
\* log, and each threshold of the day, which one process tells at most once.
THEOREM AlertsAreTold == AlertSpec => []AlertInv
<1>1. AlertSafe => AlertInv
  <2> SUFFICES ASSUME AlertSafe PROVE AlertTypeOK /\ AlarmsTold /\ ThresholdsTold
    BY DEF AlertInv
  <2>1. ASSUME NEW l \in Levels PROVE toldToday[l] <= 1 + alertFaults
    BY DEF AlertSafe, HeldIsTold, AlertShape
  <2> QED
    BY <2>1 DEF AlertSafe, AlertShape, SweptIsTold, ThresholdsTold
<1> QED
  BY <1>1, AlertSafety, PTL

(***************************************************************************)
(* TelegramSessions                                                        *)
(***************************************************************************)

Entries == 0 .. MaxTurns
TurnSteps == InFlight \cup {"free", "done", "failed"}
ChatRows == [st : {"none", "active", "consolidated"}, tr : Seq(Entries), idle : {"no", "yes"}]
TurnRecords == [pc : TurnSteps, s : Entries, copy : Seq(Entries)]
CloserRecords == [pc : {"free", "consolidate", "mark"}, s : Entries, copy : Seq(Entries)]

\* A transcript: the memories are recalled at its head only.
TranscriptOK(tr) == Len(tr) <= MaxSession /\ \A i \in 2 .. Len(tr) : tr[i] # Recalled

ChatShape ==
  /\ tsession \in [Turns -> ChatRows] /\ turn \in [Turns -> TurnRecords] /\ closer \in [Closers -> CloserRecords]
  /\ memory \subseteq Turns /\ lost \subseteq Turns /\ mixed \subseteq Turns /\ chatFaults \in Nat
  /\ \A s \in Turns : TranscriptOK(tsession[s].tr)

\* A turn that has a session: the session exists, and there is room for the exchange.
TurnOK(r, sessions) ==
  /\ TranscriptOK(r.copy)
  /\ r.pc \in {"run", "consolidate", "mark"} => r.s \in Turns /\ sessions[r.s].st # "none"
  /\ r.pc = "run" => Len(r.copy) < MaxSession

\* What a consolidation has passed on of the transcript it read.
PassedOn(r, kept) == r.pc = "mark" => Exchanges(r.copy) \subseteq kept

ReadersOK ==
  /\ \A t \in Turns : TurnOK(turn[t], tsession) /\ PassedOn(turn[t], memory \cup lost)
  /\ \A c \in Closers : TurnOK(closer[c], tsession) /\ PassedOn(closer[c], memory \cup lost)
  /\ \A t \in Turns : turn[t].pc \in {"free", "recall", "consolidate", "mark"} => tsession[t].st = "none"

\* A turn that is not mixed is alone, and its session is active.
AloneOK ==
  \A t \in Turns : turn[t].pc \in InFlight /\ t \notin mixed =>
    /\ \A k \in Turns : turn[k].pc \in InFlight => k = t
    /\ \A c \in Closers : closer[c].pc = "free"
    /\ turn[t].pc # "recall" => tsession[turn[t].s].st = "active"

\* An exchange that session s keeps: it is in the transcript, and in every copy of it.
Keeps(s, e) ==
  /\ tsession[s].st = "active" /\ e \in Exchanges(tsession[s].tr)
  /\ \A t \in Turns : turn[t].pc \in {"run", "consolidate", "mark"} /\ turn[t].s = s => e \in Exchanges(turn[t].copy)
  /\ \A c \in Closers : closer[c].pc # "free" /\ closer[c].s = s => e \in Exchanges(closer[c].copy)

KeptOK ==
  \A t \in Turns : turn[t].pc = "done" /\ t \notin memory \cup lost \cup mixed => \E s \in Turns : Keeps(s, t)

\* Without overlaps there is one conversation, and none while a turn makes one.
ConversationOK ==
  mixed = {} =>
    /\ \A s, k \in Turns : tsession[s].st = "active" /\ tsession[k].st = "active" => s = k
    /\ (\E t \in Turns : turn[t].pc = "recall") => \A s \in Turns : tsession[s].st # "active"

ChatSafe == ChatShape /\ ReadersOK /\ AloneOK /\ KeptOK /\ ConversationOK

-----------------------------------------------------------------------------
\* The exchanges of a transcript.
LEMMA ExchangesType ==
  ASSUME NEW tr \in Seq(Entries)
  PROVE  /\ Exchanges(tr) \subseteq Turns /\ Exchanges(<<>>) = {}
         /\ \A e \in Turns : Append(tr, e) \in Seq(Entries) /\ Exchanges(Append(tr, e)) = Exchanges(tr) \cup {e}
<1>1. Len(tr) \in Nat /\ DOMAIN tr = 1 .. Len(tr) /\ \A i \in 1 .. Len(tr) : tr[i] \in Entries
  OBVIOUS
<1>2. Exchanges(tr) \subseteq Turns
  BY <1>1, SessionBoundsAssumption DEF Exchanges, Entries, Turns, Recalled
<1>3. Exchanges(<<>>) = {}
  BY DEF Exchanges
<1>4. ASSUME NEW e \in Turns PROVE Append(tr, e) \in Seq(Entries) /\ Exchanges(Append(tr, e)) = Exchanges(tr) \cup {e}
  <2>1. e \in Entries /\ e # Recalled
    BY SessionBoundsAssumption DEF Turns, Entries, Recalled
  <2>2. /\ Append(tr, e) \in Seq(Entries) /\ DOMAIN Append(tr, e) = 1 .. Len(tr) + 1 /\ Append(tr, e)[Len(tr) + 1] = e
        /\ \A i \in 1 .. Len(tr) : Append(tr, e)[i] = tr[i]
    BY <1>1, <2>1
  <2>3. {Append(tr, e)[i] : i \in 1 .. Len(tr) + 1} = {tr[i] : i \in 1 .. Len(tr)} \cup {e}
    <3>1. ASSUME NEW i \in 1 .. Len(tr) + 1 PROVE Append(tr, e)[i] \in {tr[j] : j \in 1 .. Len(tr)} \cup {e}
      <4>1. CASE i = Len(tr) + 1
        BY <2>2, <4>1
      <4>2. CASE i \in 1 .. Len(tr)
        BY <2>2, <4>2
      <4> QED
        BY <1>1, <4>1, <4>2
    <3>2. ASSUME NEW i \in 1 .. Len(tr) PROVE tr[i] \in {Append(tr, e)[j] : j \in 1 .. Len(tr) + 1}
      <4>1. i \in 1 .. Len(tr) + 1 /\ Append(tr, e)[i] = tr[i]
        BY <1>1, <2>2
      <4> QED
        BY <4>1
    <3>3. e \in {Append(tr, e)[j] : j \in 1 .. Len(tr) + 1}
      <4>1. Len(tr) + 1 \in 1 .. Len(tr) + 1
        BY <1>1
      <4> QED
        BY <2>2, <4>1
    <3> QED
      BY <3>1, <3>2, <3>3
  <2> QED
    BY <1>1, <2>1, <2>2, <2>3 DEF Exchanges
<1> QED
  BY <1>2, <1>3, <1>4

\* A turn reads the active session, or finds none.
LEMMA ReadSessionStep ==
  ASSUME ChatSafe, NEW t \in Turns, ReadSession(t)
  PROVE  ChatSafe'
<1>1. /\ UNCHANGED <<tsession, closer, chatFaults, memory, lost>> /\ turn[t].pc = "free"
      /\ mixed' = IF Busy = {} /\ Closing = {} THEN mixed ELSE mixed \cup Busy \cup {t}
  BY DEF ReadSession, MixesTurn
<1>2. /\ tsession \in [Turns -> ChatRows] /\ turn \in [Turns -> TurnRecords] /\ closer \in [Closers -> CloserRecords]
      /\ mixed \subseteq Turns
  BY DEF ChatSafe, ChatShape
<1>3. PICK r \in TurnRecords :
        /\ turn' = [turn EXCEPT ![t] = r] /\ TurnOK(r, tsession) /\ r.pc \in {"recall", "run", "consolidate"}
        /\ r.pc = "recall" => \A s \in Turns : tsession[s].st # "active"
        /\ r.pc # "recall" => tsession[r.s].st = "active" /\ r.copy = tsession[r.s].tr
  <2>1. CASE Active = {} /\ turn' = [turn EXCEPT ![t].pc = "recall"]
    <3> PICK r : r = [turn[t] EXCEPT !.pc = "recall"]
      OBVIOUS
    <3>1. turn[t] \in TurnRecords /\ TurnOK(turn[t], tsession)
      BY <1>2 DEF ChatSafe, ReadersOK
    <3>2. r \in TurnRecords /\ r.pc = "recall" /\ r.copy = turn[t].copy
      BY <3>1 DEF TurnRecords, TurnSteps, InFlight
    <3>3. TurnOK(r, tsession)
      BY <3>1, <3>2 DEF TurnOK
    <3>4. turn' = [turn EXCEPT ![t] = r]
      BY <1>2, <2>1
    <3> QED
      BY <2>1, <3>2, <3>3, <3>4 DEF Active
  <2>2. ASSUME NEW s \in Active,
               turn' = [turn EXCEPT ![t] = IF tsession[s].idle = "yes" \/ Len(tsession[s].tr) >= MaxSession
                                      THEN [pc |-> "consolidate", s |-> s, copy |-> tsession[s].tr]
                                      ELSE [pc |-> "run", s |-> s, copy |-> tsession[s].tr]]
        PROVE  \E r \in TurnRecords :
                 /\ turn' = [turn EXCEPT ![t] = r] /\ TurnOK(r, tsession) /\ r.pc \in {"recall", "run", "consolidate"}
                 /\ r.pc = "recall" => \A k \in Turns : tsession[k].st # "active"
                 /\ r.pc # "recall" => tsession[r.s].st = "active" /\ r.copy = tsession[r.s].tr
    <3>1. s \in Turns /\ tsession[s].st = "active" /\ TranscriptOK(tsession[s].tr) /\ tsession[s] \in ChatRows /\ s \in Entries
      BY <1>2, SessionBoundsAssumption DEF Active, ChatSafe, ChatShape, Turns, Entries
    <3>2. tsession[s].tr \in Seq(Entries) /\ Len(tsession[s].tr) \in Nat /\ MaxSession \in Nat
      BY <3>1, SessionBoundsAssumption DEF ChatRows
    <3>3. CASE tsession[s].idle = "yes" \/ Len(tsession[s].tr) >= MaxSession
      <4> PICK r : r = [pc |-> "consolidate", s |-> s, copy |-> tsession[s].tr]
        OBVIOUS
      <4>1. r \in TurnRecords /\ r.pc = "consolidate" /\ r.s = s /\ r.copy = tsession[s].tr
        BY <3>1, <3>2 DEF TurnRecords, TurnSteps, InFlight
      <4>2. TurnOK(r, tsession)
        BY <3>1, <4>1 DEF TurnOK
      <4> QED
        BY <2>2, <3>1, <3>3, <4>1, <4>2
    <3>4. CASE ~ (tsession[s].idle = "yes" \/ Len(tsession[s].tr) >= MaxSession)
      <4> PICK r : r = [pc |-> "run", s |-> s, copy |-> tsession[s].tr]
        OBVIOUS
      <4>1. r \in TurnRecords /\ r.pc = "run" /\ r.s = s /\ r.copy = tsession[s].tr
        BY <3>1, <3>2 DEF TurnRecords, TurnSteps, InFlight
      <4>2. TurnOK(r, tsession)
        BY <3>1, <3>2, <3>4, <4>1 DEF TurnOK
      <4> QED
        BY <2>2, <3>1, <3>4, <4>1, <4>2
    <3> QED
      BY <3>3, <3>4
  <2> QED
    BY <2>1, <2>2 DEF ReadSession
<1>4. turn'[t] = r /\ (\A k \in Turns : k # t => turn'[k] = turn[k]) /\ turn' \in [Turns -> TurnRecords]
  BY <1>2, <1>3
<1>5. ChatShape'
  <2>1. mixed' \subseteq Turns
    BY <1>1, <1>2 DEF Busy
  <2> QED
    BY <1>1, <1>4, <2>1 DEF ChatSafe, ChatShape
<1>6. ReadersOK'
  BY <1>1, <1>3, <1>4 DEF ChatSafe, ReadersOK, PassedOn
<1>7. AloneOK'
  <2>1. CASE Busy = {} /\ Closing = {}
    <3>1. (\A k \in Turns : turn[k].pc \notin InFlight) /\ (\A c \in Closers : closer[c].pc = "free")
      BY <2>1 DEF Busy, Closing
    <3> QED
      BY <1>1, <1>3, <1>4, <3>1 DEF AloneOK
  <2>2. CASE ~ (Busy = {} /\ Closing = {})
    <3>1. \A k \in Turns : turn'[k].pc \in InFlight => k \in mixed'
      BY <1>1, <1>4, <2>2 DEF Busy
    <3> QED
      BY <3>1 DEF AloneOK
  <2> QED
    BY <2>1, <2>2
<1>8. KeptOK'
  <2>1. mixed \subseteq mixed'
    BY <1>1
  <2>2. \A s \in Turns : \A e : Keeps(s, e) => Keeps(s, e)'
    BY <1>1, <1>3, <1>4 DEF Keeps
  <2>3. \A k \in Turns : turn'[k].pc = "done" => turn[k].pc = "done"
    BY <1>3, <1>4
  <2> QED
    BY <1>1, <2>1, <2>2, <2>3 DEF ChatSafe, KeptOK
<1>9. ConversationOK'
  <2> SUFFICES ASSUME mixed' = {}
               PROVE  /\ \A s, k \in Turns : tsession[s].st = "active" /\ tsession[k].st = "active" => s = k
                      /\ (\E k \in Turns : turn'[k].pc = "recall") => \A s \in Turns : tsession[s].st # "active"
    BY <1>1 DEF ConversationOK
  <2>1. mixed = {} /\ Busy = {}
    BY <1>1
  <2>2. \A k \in Turns : turn'[k].pc = "recall" => k = t
    BY <1>4, <2>1 DEF Busy, InFlight
  <2> QED
    BY <1>3, <1>4, <2>1, <2>2 DEF ChatSafe, ConversationOK
<1> QED
  BY <1>5, <1>6, <1>7, <1>8, <1>9 DEF ChatSafe

\* The records a turn or a closer starts from, or ends with.
LEMMA EndedType ==
  ASSUME NEW pc \in TurnSteps, NEW sessions
  PROVE  /\ [NoTurn EXCEPT !.pc = pc] \in TurnRecords /\ [NoTurn EXCEPT !.pc = pc].pc = pc
         /\ pc \notin {"run", "consolidate", "mark"} => TurnOK([NoTurn EXCEPT !.pc = pc], sessions)
         /\ NoTurn \in CloserRecords /\ NoTurn.pc = "free" /\ TurnOK(NoTurn, sessions)
<1>1. 0 \in Entries /\ <<>> \in Seq(Entries) /\ TranscriptOK(<<>>)
  BY SessionBoundsAssumption DEF Entries, TranscriptOK
<1> PICK r : r = [NoTurn EXCEPT !.pc = pc]
  OBVIOUS
<1>2. r \in TurnRecords /\ r.pc = pc /\ r.copy = <<>>
  BY <1>1 DEF NoTurn, TurnRecords
<1>3. pc \notin {"run", "consolidate", "mark"} => TurnOK(r, sessions)
  BY <1>1, <1>2 DEF TurnOK
<1>4. NoTurn \in CloserRecords /\ NoTurn.pc = "free" /\ NoTurn.copy = <<>>
  BY <1>1 DEF NoTurn, CloserRecords
<1>5. TurnOK(NoTurn, sessions)
  BY <1>1, <1>4 DEF TurnOK
<1> QED
  BY <1>2, <1>3, <1>4, <1>5

\* A turn that found no session makes one.
LEMMA CreateSessionStep ==
  ASSUME ChatSafe, NEW t \in Turns, CreateSession(t)
  PROVE  ChatSafe'
<1>1. turn[t].pc = "recall" /\ UNCHANGED <<closer, chatFaults, memory, lost, mixed>>
  BY DEF CreateSession
<1>2. PICK tr \in {<<>>, <<Recalled>>} :
        /\ tsession' = [tsession EXCEPT ![t] = [st |-> "active", tr |-> tr, idle |-> "no"]]
        /\ turn' = [turn EXCEPT ![t] = [pc |-> "run", s |-> t, copy |-> tr]]
  BY DEF CreateSession
<1>3. tsession \in [Turns -> ChatRows] /\ turn \in [Turns -> TurnRecords] /\ closer \in [Closers -> CloserRecords]
  BY DEF ChatSafe, ChatShape
<1>4. tr \in Seq(Entries) /\ Len(tr) < MaxSession /\ TranscriptOK(tr) /\ t \in Entries
  <2>1. Recalled \in Entries /\ t \in Entries /\ MaxSession >= 2 /\ MaxSession \in Nat
    BY SessionBoundsAssumption DEF Recalled, Entries, Turns
  <2>2. CASE tr = <<>>
    BY <2>1, <2>2 DEF TranscriptOK
  <2>3. CASE tr = <<Recalled>>
    <3>1. tr \in Seq(Entries) /\ Len(tr) = 1
      BY <2>1, <2>3
    <3> QED
      BY <2>1, <3>1 DEF TranscriptOK
  <2> QED
    BY <2>2, <2>3
<1> PICK x : x = [st |-> "active", tr |-> tr, idle |-> "no"]
  OBVIOUS
<1> PICK r : r = [pc |-> "run", s |-> t, copy |-> tr]
  OBVIOUS
<1>5. x \in ChatRows /\ x.st = "active" /\ x.tr = tr /\ r \in TurnRecords /\ r.pc = "run" /\ r.s = t /\ r.copy = tr
  BY <1>4 DEF ChatRows, TurnRecords, TurnSteps, InFlight
<1>6. /\ turn'[t] = r /\ (\A k \in Turns : k # t => turn'[k] = turn[k]) /\ turn' \in [Turns -> TurnRecords]
      /\ tsession'[t] = x /\ (\A k \in Turns : k # t => tsession'[k] = tsession[k]) /\ tsession' \in [Turns -> ChatRows]
  BY <1>2, <1>3, <1>5
<1>7. tsession[t].st = "none"
  BY <1>1 DEF ChatSafe, ReadersOK
<1>8. ChatShape'
  BY <1>1, <1>4, <1>5, <1>6 DEF ChatSafe, ChatShape
<1>9. ReadersOK'
  <2>1. \A q : TurnOK(q, tsession) => TurnOK(q, tsession')
    BY <1>5, <1>6 DEF TurnOK
  <2>2. TurnOK(r, tsession')
    BY <1>4, <1>5, <1>6 DEF TurnOK
  <2>3. \A k \in Turns : TurnOK(turn'[k], tsession') /\ PassedOn(turn'[k], memory' \cup lost')
    BY <1>1, <1>5, <1>6, <2>1, <2>2 DEF ChatSafe, ReadersOK, PassedOn
  <2>4. \A c \in Closers : TurnOK(closer'[c], tsession') /\ PassedOn(closer'[c], memory' \cup lost')
    BY <1>1, <2>1 DEF ChatSafe, ReadersOK
  <2>5. \A k \in Turns : turn'[k].pc \in {"free", "recall", "consolidate", "mark"} => tsession'[k].st = "none"
    BY <1>5, <1>6 DEF ChatSafe, ReadersOK
  <2> QED
    BY <2>3, <2>4, <2>5 DEF ReadersOK
<1>10. \A k \in Turns : turn[k].pc \in InFlight /\ k \notin mixed => k = t
  BY <1>1 DEF ChatSafe, AloneOK, InFlight
<1>11. AloneOK'
  <2> SUFFICES ASSUME NEW k \in Turns, turn'[k].pc \in InFlight, k \notin mixed
               PROVE  /\ k = t
                      /\ \A l \in Turns : turn'[l].pc \in InFlight => l = k
                      /\ \A c \in Closers : closer[c].pc = "free"
    BY <1>1, <1>5, <1>6 DEF AloneOK
  <2>1. k = t
    BY <1>6, <1>10
  <2> QED
    BY <1>1, <1>6, <2>1 DEF ChatSafe, AloneOK, InFlight
<1>12. KeptOK'
  <2>1. \A s \in Turns : \A e : Keeps(s, e) => Keeps(s, e)'
    BY <1>1, <1>5, <1>6, <1>7 DEF Keeps
  <2>2. \A k \in Turns : turn'[k].pc = "done" => turn[k].pc = "done"
    BY <1>5, <1>6
  <2> QED
    BY <1>1, <2>1, <2>2 DEF ChatSafe, KeptOK
<1>13. ConversationOK'
  <2> SUFFICES ASSUME mixed = {}
               PROVE  /\ \A s, k \in Turns : tsession'[s].st = "active" /\ tsession'[k].st = "active" => s = k
                      /\ \A k \in Turns : turn'[k].pc # "recall"
    BY <1>1 DEF ConversationOK
  <2>1. \A s \in Turns : tsession[s].st # "active"
    BY <1>1 DEF ChatSafe, ConversationOK
  <2>2. \A k \in Turns : turn[k].pc = "recall" => k = t
    BY <1>10 DEF InFlight
  <2> QED
    BY <1>5, <1>6, <2>1, <2>2
<1> QED
  BY <1>8, <1>9, <1>11, <1>12, <1>13 DEF ChatSafe

\* The exchange is written back, over whatever is there.
LEMMA WriteBackStep ==
  ASSUME ChatSafe, NEW t \in Turns, WriteBack(t)
  PROVE  ChatSafe'
<1> PICK q : q = turn[t]
  OBVIOUS
<1> PICK s : s = q.s
  OBVIOUS
<1> PICK tr : tr = Append(q.copy, t)
  OBVIOUS
<1> PICK x : x = [tsession[s] EXCEPT !.tr = tr, !.idle = "no"]
  OBVIOUS
<1> PICK r : r = [NoTurn EXCEPT !.pc = "done"]
  OBVIOUS
<1>1. tsession \in [Turns -> ChatRows] /\ turn \in [Turns -> TurnRecords] /\ closer \in [Closers -> CloserRecords] /\ q \in TurnRecords
  BY DEF ChatSafe, ChatShape
<1>2. q.pc = "run" /\ turn' = [turn EXCEPT ![t] = r] /\ UNCHANGED <<closer, chatFaults, memory, lost, mixed>>
  BY DEF WriteBack, Ended
<1>3. s \in Turns /\ tsession[s].st # "none" /\ TranscriptOK(q.copy) /\ Len(q.copy) < MaxSession /\ tsession[s] \in ChatRows
  BY <1>1, <1>2 DEF ChatSafe, ReadersOK, TurnOK
<1>4. q.copy \in Seq(Entries) /\ tr \in Seq(Entries) /\ Exchanges(tr) = Exchanges(q.copy) \cup {t}
  BY <1>1, ExchangesType DEF TurnRecords
<1>5. TranscriptOK(tr)
  <2>1. t \in Entries /\ t # Recalled /\ MaxSession \in Nat /\ Len(q.copy) \in Nat
    BY <1>4, SessionBoundsAssumption DEF Turns, Entries, Recalled
  <2>2. Len(tr) = Len(q.copy) + 1 /\ tr[Len(q.copy) + 1] = t /\ \A i \in 1 .. Len(q.copy) : tr[i] = q.copy[i]
    BY <1>4, <2>1
  <2>3. ASSUME NEW i \in 2 .. Len(q.copy) + 1 PROVE tr[i] # Recalled
    <3>1. CASE i = Len(q.copy) + 1
      BY <2>1, <2>2, <3>1
    <3>2. CASE i \in 2 .. Len(q.copy)
      <4>1. i \in 1 .. Len(q.copy)
        BY <2>1, <3>2
      <4> QED
        BY <1>3, <2>2, <3>2, <4>1 DEF TranscriptOK
    <3> QED
      BY <2>1, <3>1, <3>2
  <2> QED
    BY <1>3, <2>1, <2>2, <2>3 DEF TranscriptOK
<1>6. x \in ChatRows /\ x.st = tsession[s].st /\ x.tr = tr
  BY <1>3, <1>4 DEF ChatRows
<1>7. tsession' = [tsession EXCEPT ![s] = x]
  <2>1. tsession' = [tsession EXCEPT ![s].tr = tr, ![s].idle = "no"]
    BY DEF WriteBack
  <2> QED
    BY <1>1, <1>3, <2>1
<1>8. r \in TurnRecords /\ r.pc = "done" /\ TurnOK(r, tsession')
  BY EndedType DEF TurnSteps
<1>9. /\ turn'[t] = r /\ (\A k \in Turns : k # t => turn'[k] = turn[k]) /\ turn' \in [Turns -> TurnRecords]
      /\ tsession'[s] = x /\ (\A k \in Turns : k # s => tsession'[k] = tsession[k]) /\ tsession' \in [Turns -> ChatRows]
      /\ \A k \in Turns : tsession'[k].st = tsession[k].st
  <2>1. turn'[t] = r /\ (\A k \in Turns : k # t => turn'[k] = turn[k]) /\ turn' \in [Turns -> TurnRecords]
    BY <1>1, <1>2, <1>8
  <2>2. tsession'[s] = x /\ (\A k \in Turns : k # s => tsession'[k] = tsession[k]) /\ tsession' \in [Turns -> ChatRows]
    BY <1>1, <1>3, <1>6, <1>7
  <2>3. \A k \in Turns : tsession'[k].st = tsession[k].st
    BY <1>6, <2>2
  <2> QED
    BY <2>1, <2>2, <2>3
<1>10. ChatShape'
  BY <1>2, <1>5, <1>6, <1>9 DEF ChatSafe, ChatShape
<1>11. ReadersOK'
  <2>1. \A p : TurnOK(p, tsession) => TurnOK(p, tsession')
    BY <1>9 DEF TurnOK
  <2>2. \A k \in Turns : TurnOK(turn'[k], tsession') /\ PassedOn(turn'[k], memory' \cup lost')
    BY <1>2, <1>8, <1>9, <2>1 DEF ChatSafe, ReadersOK, PassedOn
  <2>3. \A c \in Closers : TurnOK(closer'[c], tsession') /\ PassedOn(closer'[c], memory' \cup lost')
    BY <1>2, <2>1 DEF ChatSafe, ReadersOK
  <2>4. \A k \in Turns : turn'[k].pc \in {"free", "recall", "consolidate", "mark"} => tsession'[k].st = "none"
    BY <1>8, <1>9 DEF ChatSafe, ReadersOK
  <2> QED
    BY <2>2, <2>3, <2>4 DEF ReadersOK
<1>12. t \notin mixed => /\ \A k \in Turns : k # t => turn[k].pc \notin InFlight
                         /\ \A c \in Closers : closer[c].pc = "free"
                         /\ tsession[s].st = "active"
  BY <1>2 DEF ChatSafe, AloneOK, InFlight
<1>13. AloneOK'
  <2> SUFFICES ASSUME NEW k \in Turns, turn'[k].pc \in InFlight, k \notin mixed PROVE FALSE
    BY <1>2 DEF AloneOK
  <2>1. k # t /\ turn[k].pc \in InFlight
    BY <1>8, <1>9 DEF InFlight
  <2> QED
    BY <1>2, <2>1 DEF ChatSafe, AloneOK, InFlight
<1>14. KeptOK'
  <2> SUFFICES ASSUME NEW e \in Turns, turn'[e].pc = "done", e \notin memory \cup lost \cup mixed
               PROVE  \E k \in Turns : Keeps(k, e)'
    BY <1>2 DEF KeptOK
  <2>1. CASE e = t
    <3>1. tsession'[s].st = "active" /\ t \in Exchanges(tsession'[s].tr)
      BY <1>3, <1>4, <1>6, <1>9, <1>12, <2>1
    <3>2. \A k \in Turns : turn'[k].pc \notin {"run", "consolidate", "mark"}
      BY <1>8, <1>9, <1>12, <2>1 DEF InFlight
    <3>3. \A c \in Closers : closer'[c].pc = "free"
      BY <1>2, <1>12, <2>1
    <3>4. Keeps(s, t)'
      BY <3>1, <3>2, <3>3 DEF Keeps
    <3> QED
      BY <1>3, <2>1, <3>4
  <2>2. CASE e # t
    <3>1. PICK k \in Turns : Keeps(k, e)
      BY <1>9, <2>2 DEF ChatSafe, KeptOK
    <3>2. k = s => e \in Exchanges(q.copy)
      BY <1>2, <3>1 DEF Keeps
    <3>3. e \in Exchanges(tsession'[k].tr) /\ tsession'[k].st = "active"
      <4>1. CASE k = s
        <5>1. tsession'[k].tr = tr /\ tsession'[k].st = tsession[k].st /\ e \in Exchanges(tr)
          BY <1>4, <1>6, <1>9, <3>2, <4>1
        <5>2. tsession[k].st = "active"
          BY <3>1 DEF Keeps
        <5> QED
          BY <5>1, <5>2
      <4>2. CASE k # s
        BY <1>9, <3>1, <4>2 DEF Keeps
      <4> QED
        BY <4>1, <4>2
    <3>4. Keeps(k, e)'
      BY <1>2, <1>8, <1>9, <3>1, <3>3 DEF Keeps
    <3> QED
      BY <3>4
  <2> QED
    BY <2>1, <2>2
<1>15. ConversationOK'
  <2>1. \A k \in Turns : turn'[k].pc = "recall" => turn[k].pc = "recall"
    BY <1>8, <1>9
  <2> QED
    BY <1>2, <1>9, <2>1 DEF ChatSafe, ConversationOK
<1> QED
  BY <1>10, <1>11, <1>13, <1>14, <1>15 DEF ChatSafe

\* A turn that fails, or goes on with its consolidation.
LEMMA QuietTurn ==
  ASSUME ChatSafe, NEW t \in Turns, NEW r \in TurnRecords, turn' = [turn EXCEPT ![t] = r],
         r.pc \in {"failed", "mark"}, turn[t].pc \in InFlight,
         r.pc = "mark" => turn[t].pc = "consolidate" /\ r.s = turn[t].s /\ r.copy = turn[t].copy,
         TurnOK(r, tsession), PassedOn(r, memory' \cup lost'),
         UNCHANGED <<tsession, closer, mixed>>, chatFaults' \in Nat,
         memory \subseteq memory', memory' \subseteq Turns, lost \subseteq lost', lost' \subseteq Turns
  PROVE  ChatSafe'
<1>1. tsession' = tsession /\ closer' = closer /\ mixed' = mixed
  OBVIOUS
<1>2. turn \in [Turns -> TurnRecords]
  BY DEF ChatSafe, ChatShape
<1>3. turn'[t] = r /\ (\A k \in Turns : k # t => turn'[k] = turn[k]) /\ turn' \in [Turns -> TurnRecords]
  BY <1>2
<1>4. ChatShape'
  BY <1>1, <1>3 DEF ChatSafe, ChatShape
<1>5. ReadersOK'
  <2>1. \A p : PassedOn(p, memory \cup lost) => PassedOn(p, memory' \cup lost')
    BY DEF PassedOn
  <2>2. \A k \in Turns : TurnOK(turn'[k], tsession') /\ PassedOn(turn'[k], memory' \cup lost')
    BY <1>1, <1>3, <2>1 DEF ChatSafe, ReadersOK
  <2>3. \A c \in Closers : TurnOK(closer'[c], tsession') /\ PassedOn(closer'[c], memory' \cup lost')
    BY <1>1, <2>1 DEF ChatSafe, ReadersOK
  <2>4. \A k \in Turns : turn'[k].pc \in {"free", "recall", "consolidate", "mark"} => tsession'[k].st = "none"
    BY <1>1, <1>3 DEF ChatSafe, ReadersOK
  <2> QED
    BY <2>2, <2>3, <2>4 DEF ReadersOK
<1>6. AloneOK'
  <2> SUFFICES ASSUME NEW k \in Turns, turn'[k].pc \in InFlight, k \notin mixed
               PROVE  /\ \A l \in Turns : turn'[l].pc \in InFlight => l = k
                      /\ \A c \in Closers : closer[c].pc = "free"
                      /\ turn'[k].pc # "recall" => tsession[turn'[k].s].st = "active"
    BY <1>1 DEF AloneOK
  <2>1. turn[k].pc \in InFlight /\ (turn'[k].pc # "recall" => turn[k].pc # "recall" /\ turn'[k].s = turn[k].s)
    BY <1>3 DEF InFlight
  <2>2. \A l \in Turns : turn'[l].pc \in InFlight => turn[l].pc \in InFlight
    BY <1>3
  <2> QED
    BY <2>1, <2>2 DEF ChatSafe, AloneOK
<1>7. KeptOK'
  <2>1. \A s \in Turns : \A e : Keeps(s, e) => Keeps(s, e)'
    BY <1>1, <1>3 DEF Keeps
  <2>2. \A k \in Turns : turn'[k].pc = "done" => turn[k].pc = "done"
    BY <1>3
  <2> QED
    BY <1>1, <2>1, <2>2 DEF ChatSafe, KeptOK
<1>8. ConversationOK'
  <2>1. \A k \in Turns : turn'[k].pc = "recall" => turn[k].pc = "recall"
    BY <1>3
  <2> QED
    BY <1>1, <2>1 DEF ChatSafe, ConversationOK
<1> QED
  BY <1>4, <1>5, <1>6, <1>7, <1>8 DEF ChatSafe

\* The turn fails: nothing more is written.
LEMMA TurnFailsStep ==
  ASSUME ChatSafe, NEW t \in Turns, TurnFails(t)
  PROVE  ChatSafe'
<1> PICK r : r = [NoTurn EXCEPT !.pc = "failed"]
  OBVIOUS
<1>1. /\ turn[t].pc \in InFlight /\ turn' = [turn EXCEPT ![t] = r] /\ chatFaults' = chatFaults + 1
      /\ UNCHANGED <<tsession, closer, mixed>> /\ memory' = memory /\ lost' = lost
  BY DEF TurnFails, Ended, ChatFault
<1>2. r \in TurnRecords /\ r.pc = "failed" /\ TurnOK(r, tsession)
  BY EndedType DEF TurnSteps
<1>3. chatFaults' \in Nat /\ memory' \subseteq Turns /\ lost' \subseteq Turns
  BY <1>1 DEF ChatSafe, ChatShape
<1>4. PassedOn(r, memory' \cup lost')
  BY <1>2 DEF PassedOn
<1> HIDE DEF ChatSafe
<1> QED
  BY <1>1, <1>2, <1>3, <1>4, QuietTurn

\* What consolidating a transcript does to memory, either way.
LEMMA ConsolidatedStep ==
  ASSUME ChatSafe, NEW copy \in Seq(Entries), Consolidated(copy)
  PROVE  /\ memory \subseteq memory' /\ memory' \subseteq Turns /\ lost \subseteq lost' /\ lost' \subseteq Turns
         /\ chatFaults' \in Nat /\ Exchanges(copy) \subseteq memory' \cup lost'
<1>1. memory \subseteq Turns /\ lost \subseteq Turns /\ chatFaults \in Nat
  BY DEF ChatSafe, ChatShape
<1>2. Exchanges(copy) \subseteq Turns
  BY ExchangesType
<1> QED
  BY <1>1, <1>2 DEF Consolidated, ChatFault

\* A turn consolidates the session it found idle or long.
LEMMA ConsolidateForTurnStep ==
  ASSUME ChatSafe, NEW t \in Turns, ConsolidateForTurn(t)
  PROVE  ChatSafe'
<1> PICK q : q = turn[t]
  OBVIOUS
<1> PICK r : r = [q EXCEPT !.pc = "mark"]
  OBVIOUS
<1>1. turn \in [Turns -> TurnRecords] /\ q \in TurnRecords /\ TurnOK(q, tsession)
  BY DEF ChatSafe, ChatShape, ReadersOK
<1>2. /\ q.pc = "consolidate" /\ turn' = [turn EXCEPT ![t] = r] /\ Consolidated(q.copy)
      /\ UNCHANGED <<tsession, closer, mixed>>
  BY <1>1 DEF ConsolidateForTurn
<1>3. r \in TurnRecords /\ r.pc = "mark" /\ r.s = q.s /\ r.copy = q.copy /\ q.copy \in Seq(Entries)
  BY <1>1 DEF TurnRecords, TurnSteps, InFlight
<1>4. TurnOK(r, tsession)
  BY <1>1, <1>2, <1>3 DEF TurnOK
<1> HIDE DEF ChatSafe
<1>5. /\ memory \subseteq memory' /\ memory' \subseteq Turns /\ lost \subseteq lost' /\ lost' \subseteq Turns
      /\ chatFaults' \in Nat /\ Exchanges(q.copy) \subseteq memory' \cup lost'
  BY <1>2, <1>3, ConsolidatedStep
<1>6. PassedOn(r, memory' \cup lost')
  BY <1>3, <1>5 DEF PassedOn
<1>7. turn[t].pc \in InFlight
  BY <1>2 DEF InFlight
<1> QED
  BY <1>2, <1>3, <1>4, <1>5, <1>6, <1>7, QuietTurn

\* What closing a session leaves of the others.
LEMMA MarkedSessions ==
  ASSUME tsession \in [Turns -> ChatRows], NEW s \in Turns, tsession' = Mark(s)
  PROVE  /\ tsession' \in [Turns -> ChatRows] /\ tsession'[s].st = "consolidated" /\ tsession'[s].tr = tsession[s].tr
         /\ \A k \in Turns : k # s => tsession'[k] = tsession[k]
<1> PICK x : x = [tsession[s] EXCEPT !.st = "consolidated", !.idle = "no"]
  OBVIOUS
<1>1. tsession[s] \in ChatRows
  OBVIOUS
<1>2. x \in ChatRows /\ x.st = "consolidated" /\ x.tr = tsession[s].tr
  BY <1>1 DEF ChatRows
<1>3. tsession' = [tsession EXCEPT ![s] = x]
  BY DEF Mark
<1> QED
  BY <1>2, <1>3

\* The turn closes the session it consolidated, and goes on to make one.
LEMMA MarkForTurnStep ==
  ASSUME ChatSafe, NEW t \in Turns, MarkForTurn(t)
  PROVE  ChatSafe'
<1> PICK q : q = turn[t]
  OBVIOUS
<1> PICK s : s = q.s
  OBVIOUS
<1> PICK r : r = [NoTurn EXCEPT !.pc = "recall"]
  OBVIOUS
<1>1. tsession \in [Turns -> ChatRows] /\ turn \in [Turns -> TurnRecords] /\ closer \in [Closers -> CloserRecords]
  BY DEF ChatSafe, ChatShape
<1>2. /\ q.pc = "mark" /\ turn' = [turn EXCEPT ![t] = r] /\ tsession' = Mark(s)
      /\ closer' = closer /\ chatFaults' = chatFaults /\ memory' = memory /\ lost' = lost /\ mixed' = mixed
  BY DEF MarkForTurn
<1>3. s \in Turns /\ tsession[s].st # "none" /\ tsession[t].st = "none" /\ Exchanges(q.copy) \subseteq memory \cup lost
  BY <1>2 DEF ChatSafe, ReadersOK, TurnOK, PassedOn
<1>4. /\ tsession' \in [Turns -> ChatRows] /\ tsession'[s].st = "consolidated" /\ tsession'[s].tr = tsession[s].tr
      /\ \A k \in Turns : k # s => tsession'[k] = tsession[k]
  BY <1>1, <1>2, <1>3, MarkedSessions
<1>5. r \in TurnRecords /\ r.pc = "recall" /\ TurnOK(r, tsession')
  BY EndedType DEF TurnSteps, InFlight
<1>6. turn'[t] = r /\ (\A k \in Turns : k # t => turn'[k] = turn[k]) /\ turn' \in [Turns -> TurnRecords]
  BY <1>1, <1>2, <1>5
<1>7. ChatShape'
  BY <1>2, <1>4, <1>6 DEF ChatSafe, ChatShape
<1>8. ReadersOK'
  <2>1. \A p : TurnOK(p, tsession) => TurnOK(p, tsession')
    BY <1>4 DEF TurnOK
  <2>2. \A k \in Turns : TurnOK(turn'[k], tsession') /\ PassedOn(turn'[k], memory' \cup lost')
    BY <1>2, <1>5, <1>6, <2>1 DEF ChatSafe, ReadersOK, PassedOn
  <2>3. \A c \in Closers : TurnOK(closer'[c], tsession') /\ PassedOn(closer'[c], memory' \cup lost')
    BY <1>2, <2>1 DEF ChatSafe, ReadersOK
  <2>4. \A k \in Turns : turn'[k].pc \in {"free", "recall", "consolidate", "mark"} => tsession'[k].st = "none"
    BY <1>3, <1>4, <1>6 DEF ChatSafe, ReadersOK
  <2> QED
    BY <2>2, <2>3, <2>4 DEF ReadersOK
<1>9. \A k \in Turns : turn[k].pc \in InFlight /\ k \notin mixed => k = t
  BY <1>2 DEF ChatSafe, AloneOK, InFlight
<1>10. AloneOK'
  <2> SUFFICES ASSUME NEW k \in Turns, turn'[k].pc \in InFlight, k \notin mixed
               PROVE  /\ k = t
                      /\ \A l \in Turns : turn'[l].pc \in InFlight => l = k
                      /\ \A c \in Closers : closer[c].pc = "free"
    BY <1>2, <1>5, <1>6 DEF AloneOK
  <2>1. k = t
    BY <1>6, <1>9
  <2> QED
    BY <1>2, <1>6, <2>1 DEF ChatSafe, AloneOK, InFlight
<1>11. KeptOK'
  <2> SUFFICES ASSUME NEW e \in Turns, turn'[e].pc = "done", e \notin memory \cup lost \cup mixed
               PROVE  \E k \in Turns : Keeps(k, e)'
    BY <1>2 DEF KeptOK
  <2>1. turn[e].pc = "done"
    BY <1>5, <1>6
  <2>2. PICK k \in Turns : Keeps(k, e)
    BY <2>1 DEF ChatSafe, KeptOK
  <2>3. k # s
    BY <1>2, <1>3, <2>2 DEF Keeps
  <2>4. Keeps(k, e)'
    BY <1>2, <1>4, <1>5, <1>6, <2>2, <2>3 DEF Keeps
  <2> QED
    BY <2>4
<1>12. ConversationOK'
  <2> SUFFICES ASSUME mixed = {} PROVE \A k \in Turns : tsession'[k].st # "active"
    BY <1>2 DEF ConversationOK
  <2>1. tsession[s].st = "active"
    BY <1>2 DEF ChatSafe, AloneOK, InFlight
  <2> QED
    BY <1>3, <1>4, <2>1 DEF ChatSafe, ConversationOK
<1> QED
  BY <1>7, <1>8, <1>10, <1>11, <1>12 DEF ChatSafe

\* A closer that fails, or goes on with its consolidation.
LEMMA QuietCloser ==
  ASSUME ChatSafe, NEW c \in Closers, NEW r \in CloserRecords, closer' = [closer EXCEPT ![c] = r],
         closer[c].pc # "free", r.pc # "free" => r.s = closer[c].s /\ r.copy = closer[c].copy,
         TurnOK(r, tsession), PassedOn(r, memory' \cup lost'),
         UNCHANGED <<tsession, turn, mixed>>, chatFaults' \in Nat,
         memory \subseteq memory', memory' \subseteq Turns, lost \subseteq lost', lost' \subseteq Turns
  PROVE  ChatSafe'
<1>1. tsession' = tsession /\ turn' = turn /\ mixed' = mixed
  OBVIOUS
<1>2. closer \in [Closers -> CloserRecords]
  BY DEF ChatSafe, ChatShape
<1>3. closer'[c] = r /\ (\A k \in Closers : k # c => closer'[k] = closer[k]) /\ closer' \in [Closers -> CloserRecords]
  BY <1>2
<1>4. ChatShape'
  BY <1>1, <1>3 DEF ChatSafe, ChatShape
<1>5. ReadersOK'
  <2>1. \A p : PassedOn(p, memory \cup lost) => PassedOn(p, memory' \cup lost')
    BY DEF PassedOn
  <2>2. \A k \in Turns : TurnOK(turn'[k], tsession') /\ PassedOn(turn'[k], memory' \cup lost')
    BY <1>1, <2>1 DEF ChatSafe, ReadersOK
  <2>3. \A k \in Closers : TurnOK(closer'[k], tsession') /\ PassedOn(closer'[k], memory' \cup lost')
    BY <1>1, <1>3, <2>1 DEF ChatSafe, ReadersOK
  <2>4. \A k \in Turns : turn'[k].pc \in {"free", "recall", "consolidate", "mark"} => tsession'[k].st = "none"
    BY <1>1 DEF ChatSafe, ReadersOK
  <2> QED
    BY <2>2, <2>3, <2>4 DEF ReadersOK
<1>6. AloneOK'
  <2>1. \A k \in Turns : turn[k].pc \in InFlight => k \in mixed
    BY DEF ChatSafe, AloneOK
  <2> QED
    BY <1>1, <2>1 DEF AloneOK
<1>7. KeptOK'
  <2>1. \A s \in Turns : \A e : Keeps(s, e) => Keeps(s, e)'
    BY <1>1, <1>3 DEF Keeps
  <2> QED
    BY <1>1, <2>1 DEF ChatSafe, KeptOK
<1>8. ConversationOK'
  BY <1>1 DEF ChatSafe, ConversationOK
<1> QED
  BY <1>4, <1>5, <1>6, <1>7, <1>8 DEF ChatSafe

\* A closing fails: the session stays open.
LEMMA CloserFailsStep ==
  ASSUME ChatSafe, NEW c \in Closers, CloserFails(c)
  PROVE  ChatSafe'
<1> PICK r : r = NoTurn
  OBVIOUS
<1>1. /\ closer[c].pc # "free" /\ closer' = [closer EXCEPT ![c] = r] /\ chatFaults' = chatFaults + 1
      /\ UNCHANGED <<tsession, turn, mixed>> /\ memory' = memory /\ lost' = lost
  BY DEF CloserFails, ChatFault
<1>2. r \in CloserRecords /\ r.pc = "free" /\ TurnOK(r, tsession)
  BY EndedType DEF TurnSteps
<1>3. chatFaults' \in Nat /\ memory' \subseteq Turns /\ lost' \subseteq Turns
  BY <1>1 DEF ChatSafe, ChatShape
<1>4. PassedOn(r, memory' \cup lost')
  BY <1>2 DEF PassedOn
<1> HIDE DEF ChatSafe
<1> QED
  BY <1>1, <1>2, <1>3, <1>4, QuietCloser

\* The inactivity check, or /endsession, consolidates what it read.
LEMMA ConsolidateForCloserStep ==
  ASSUME ChatSafe, NEW c \in Closers, ConsolidateForCloser(c)
  PROVE  ChatSafe'
<1> PICK q : q = closer[c]
  OBVIOUS
<1> PICK r : r = [q EXCEPT !.pc = "mark"]
  OBVIOUS
<1>1. closer \in [Closers -> CloserRecords] /\ q \in CloserRecords /\ TurnOK(q, tsession)
  BY DEF ChatSafe, ChatShape, ReadersOK
<1>2. /\ q.pc = "consolidate" /\ closer' = [closer EXCEPT ![c] = r] /\ Consolidated(q.copy)
      /\ UNCHANGED <<tsession, turn, mixed>>
  BY <1>1 DEF ConsolidateForCloser
<1>3. r \in CloserRecords /\ r.pc = "mark" /\ r.s = q.s /\ r.copy = q.copy /\ q.copy \in Seq(Entries)
  BY <1>1 DEF CloserRecords
<1>4. TurnOK(r, tsession)
  BY <1>1, <1>2, <1>3 DEF TurnOK
<1> HIDE DEF ChatSafe
<1>5. /\ memory \subseteq memory' /\ memory' \subseteq Turns /\ lost \subseteq lost' /\ lost' \subseteq Turns
      /\ chatFaults' \in Nat /\ Exchanges(q.copy) \subseteq memory' \cup lost'
  BY <1>2, <1>3, ConsolidatedStep
<1>6. PassedOn(r, memory' \cup lost')
  BY <1>3, <1>5 DEF PassedOn
<1> QED
  BY <1>2, <1>3, <1>4, <1>5, <1>6, QuietCloser

\* The inactivity check, or /endsession, closes what it consolidated.
LEMMA MarkForCloserStep ==
  ASSUME ChatSafe, NEW c \in Closers, MarkForCloser(c)
  PROVE  ChatSafe'
<1> PICK q : q = closer[c]
  OBVIOUS
<1> PICK s : s = q.s
  OBVIOUS
<1> PICK r : r = NoTurn
  OBVIOUS
<1>1. tsession \in [Turns -> ChatRows] /\ turn \in [Turns -> TurnRecords] /\ closer \in [Closers -> CloserRecords]
  BY DEF ChatSafe, ChatShape
<1>2. /\ q.pc = "mark" /\ closer' = [closer EXCEPT ![c] = r] /\ tsession' = Mark(s)
      /\ turn' = turn /\ chatFaults' = chatFaults /\ memory' = memory /\ lost' = lost /\ mixed' = mixed
  BY DEF MarkForCloser
<1>3. s \in Turns /\ tsession[s].st # "none" /\ Exchanges(q.copy) \subseteq memory \cup lost
  BY <1>2 DEF ChatSafe, ReadersOK, TurnOK, PassedOn
<1>4. /\ tsession' \in [Turns -> ChatRows] /\ tsession'[s].st = "consolidated" /\ tsession'[s].tr = tsession[s].tr
      /\ \A k \in Turns : k # s => tsession'[k] = tsession[k]
  BY <1>1, <1>2, <1>3, MarkedSessions
<1>5. r \in CloserRecords /\ r.pc = "free" /\ TurnOK(r, tsession')
  BY EndedType DEF TurnSteps
<1>6. closer'[c] = r /\ (\A k \in Closers : k # c => closer'[k] = closer[k]) /\ closer' \in [Closers -> CloserRecords]
  BY <1>1, <1>2, <1>5
<1>7. ChatShape'
  BY <1>2, <1>4, <1>6 DEF ChatSafe, ChatShape
<1>8. ReadersOK'
  <2>1. \A p : TurnOK(p, tsession) => TurnOK(p, tsession')
    BY <1>4 DEF TurnOK
  <2>2. \A k \in Turns : TurnOK(turn'[k], tsession') /\ PassedOn(turn'[k], memory' \cup lost')
    BY <1>2, <2>1 DEF ChatSafe, ReadersOK
  <2>3. \A k \in Closers : TurnOK(closer'[k], tsession') /\ PassedOn(closer'[k], memory' \cup lost')
    BY <1>2, <1>5, <1>6, <2>1 DEF ChatSafe, ReadersOK, PassedOn
  <2>4. \A k \in Turns : turn'[k].pc \in {"free", "recall", "consolidate", "mark"} => tsession'[k].st = "none"
    BY <1>2, <1>3, <1>4 DEF ChatSafe, ReadersOK
  <2> QED
    BY <2>2, <2>3, <2>4 DEF ReadersOK
<1>9. AloneOK'
  <2>1. \A k \in Turns : turn[k].pc \in InFlight => k \in mixed
    BY <1>2 DEF ChatSafe, AloneOK
  <2> QED
    BY <1>2, <2>1 DEF AloneOK
<1>10. KeptOK'
  <2> SUFFICES ASSUME NEW e \in Turns, turn[e].pc = "done", e \notin memory \cup lost \cup mixed
               PROVE  \E k \in Turns : Keeps(k, e)'
    BY <1>2 DEF KeptOK
  <2>1. PICK k \in Turns : Keeps(k, e)
    BY DEF ChatSafe, KeptOK
  <2>2. k # s
    BY <1>2, <1>3, <2>1 DEF Keeps
  <2>3. Keeps(k, e)'
    BY <1>2, <1>4, <1>5, <1>6, <2>1, <2>2 DEF Keeps
  <2> QED
    BY <2>3
<1>11. ConversationOK'
  <2>1. \A k \in Turns : tsession'[k].st = "active" => tsession[k].st = "active"
    BY <1>4
  <2> QED
    BY <1>2, <2>1 DEF ChatSafe, ConversationOK
<1> QED
  BY <1>7, <1>8, <1>9, <1>10, <1>11 DEF ChatSafe

\* The inactivity check, or /endsession, reads an active session: what runs beside it is mixed.
LEMMA CloserReads ==
  ASSUME ChatSafe, NEW c \in Closers, NEW s \in Active, closer[c].pc = "free", MixesCloser,
         closer' = [closer EXCEPT ![c] = [NoTurn EXCEPT !.pc = "consolidate", !.s = s, !.copy = tsession[s].tr]],
         UNCHANGED <<tsession, turn, chatFaults, memory, lost>>
  PROVE  ChatSafe'
<1> PICK r : r = [NoTurn EXCEPT !.pc = "consolidate", !.s = s, !.copy = tsession[s].tr]
  OBVIOUS
<1>1. /\ tsession' = tsession /\ turn' = turn /\ chatFaults' = chatFaults /\ memory' = memory /\ lost' = lost
      /\ mixed' = mixed \cup Busy /\ closer' = [closer EXCEPT ![c] = r]
  BY DEF MixesCloser
<1>2. tsession \in [Turns -> ChatRows] /\ closer \in [Closers -> CloserRecords] /\ mixed \subseteq Turns
  BY DEF ChatSafe, ChatShape
<1>3. s \in Turns /\ s \in Entries /\ tsession[s].st = "active" /\ TranscriptOK(tsession[s].tr) /\ tsession[s] \in ChatRows
  BY <1>2, SessionBoundsAssumption DEF Active, ChatSafe, ChatShape, Turns, Entries
<1>4. r \in CloserRecords /\ r.pc = "consolidate" /\ r.s = s /\ r.copy = tsession[s].tr
  <2>1. tsession[s].tr \in Seq(Entries)
    BY <1>3 DEF ChatRows
  <2> QED
    BY <1>3, <2>1 DEF CloserRecords, NoTurn
<1>5. TurnOK(r, tsession)
  BY <1>3, <1>4 DEF TurnOK
<1>6. closer'[c] = r /\ (\A k \in Closers : k # c => closer'[k] = closer[k]) /\ closer' \in [Closers -> CloserRecords]
  BY <1>1, <1>2, <1>4
<1>7. ChatShape'
  <2>1. mixed' \subseteq Turns
    BY <1>1, <1>2 DEF Busy
  <2> QED
    BY <1>1, <1>6, <2>1 DEF ChatSafe, ChatShape
<1>8. ReadersOK'
  BY <1>1, <1>4, <1>5, <1>6 DEF ChatSafe, ReadersOK, PassedOn
<1>9. AloneOK'
  <2>1. \A k \in Turns : turn'[k].pc \in InFlight => k \in mixed'
    BY <1>1 DEF Busy
  <2> QED
    BY <2>1 DEF AloneOK
<1>10. KeptOK'
  <2>1. \A k \in Turns : \A e : Keeps(k, e) => Keeps(k, e)'
    BY <1>1, <1>4, <1>6 DEF Keeps
  <2>2. mixed \subseteq mixed'
    BY <1>1
  <2> QED
    BY <1>1, <2>1, <2>2 DEF ChatSafe, KeptOK
<1>11. ConversationOK'
  <2>1. mixed' = {} => mixed = {}
    BY <1>1
  <2> QED
    BY <1>1, <2>1 DEF ChatSafe, ConversationOK
<1> QED
  BY <1>7, <1>8, <1>9, <1>10, <1>11 DEF ChatSafe

\* The inactivity check and /endsession.
LEMMA CloserStartsStep ==
  ASSUME ChatSafe, CheckSessionInactivity \/ EndSession
  PROVE  ChatSafe'
<1> HIDE DEF ChatSafe
<1>1. CASE CheckSessionInactivity
  <2>1. PICK s \in Active :
          closer' = [closer EXCEPT !["cron"] = [NoTurn EXCEPT !.pc = "consolidate", !.s = s, !.copy = tsession[s].tr]]
    BY <1>1 DEF CheckSessionInactivity
  <2>2. closer["cron"].pc = "free" /\ MixesCloser /\ UNCHANGED <<tsession, turn, chatFaults, memory, lost>>
    BY <1>1 DEF CheckSessionInactivity
  <2>3. "cron" \in Closers
    BY DEF Closers
  <2> QED
    BY <2>1, <2>2, <2>3, CloserReads
<1>2. CASE EndSession
  <2>1. PICK s \in Active :
          closer' = [closer EXCEPT !["endsession"] = [NoTurn EXCEPT !.pc = "consolidate", !.s = s, !.copy = tsession[s].tr]]
    BY <1>2 DEF EndSession
  <2>2. closer["endsession"].pc = "free" /\ MixesCloser /\ UNCHANGED <<tsession, turn, chatFaults, memory, lost>>
    BY <1>2 DEF EndSession
  <2>3. "endsession" \in Closers
    BY DEF Closers
  <2> QED
    BY <2>1, <2>2, <2>3, CloserReads
<1> QED
  BY <1>1, <1>2

\* Half an hour passes over a session.
LEMMA IdlesStep ==
  ASSUME ChatSafe, NEW s \in Turns, Idles(s)
  PROVE  ChatSafe'
<1> PICK x : x = [tsession[s] EXCEPT !.idle = "yes"]
  OBVIOUS
<1>1. tsession \in [Turns -> ChatRows] /\ tsession[s] \in ChatRows
  BY DEF ChatSafe, ChatShape
<1>2. /\ tsession' = [tsession EXCEPT ![s] = x]
      /\ turn' = turn /\ closer' = closer /\ chatFaults' = chatFaults /\ memory' = memory /\ lost' = lost /\ mixed' = mixed
  BY <1>1 DEF Idles
<1>3. x \in ChatRows /\ x.st = tsession[s].st /\ x.tr = tsession[s].tr
  BY <1>1 DEF ChatRows
<1>4. tsession' \in [Turns -> ChatRows] /\ \A k \in Turns : tsession'[k].st = tsession[k].st /\ tsession'[k].tr = tsession[k].tr
  BY <1>1, <1>2, <1>3
<1>5. ChatShape'
  BY <1>2, <1>4 DEF ChatSafe, ChatShape
<1>6. ReadersOK'
  <2>1. \A p : TurnOK(p, tsession) => TurnOK(p, tsession')
    BY <1>4 DEF TurnOK
  <2> QED
    BY <1>2, <1>4, <2>1 DEF ChatSafe, ReadersOK
<1>7. AloneOK'
  <2>1. \A t \in Turns : turn[t].pc \in InFlight /\ turn[t].pc # "recall" => turn[t].s \in Turns
    BY DEF ChatSafe, ReadersOK, TurnOK, InFlight
  <2> QED
    BY <1>2, <1>4, <2>1 DEF ChatSafe, AloneOK
<1>8. KeptOK'
  <2>1. \A k \in Turns : \A e : Keeps(k, e) => Keeps(k, e)'
    BY <1>2, <1>4 DEF Keeps
  <2> QED
    BY <1>2, <2>1 DEF ChatSafe, KeptOK
<1>9. ConversationOK'
  BY <1>2, <1>4 DEF ChatSafe, ConversationOK
<1> QED
  BY <1>5, <1>6, <1>7, <1>8, <1>9 DEF ChatSafe

\* The chat starts without sessions.
LEMMA ChatStarts ==
  ASSUME ChatInit
  PROVE  ChatSafe
<1>1. 0 \in Entries /\ <<>> \in Seq(Entries) /\ TranscriptOK(<<>>)
  BY SessionBoundsAssumption DEF Entries, TranscriptOK
<1>2. NoChat \in ChatRows /\ NoChat.st = "none" /\ NoChat.tr = <<>>
  BY <1>1 DEF ChatRows, NoChat
<1>3. NoTurn \in TurnRecords /\ NoTurn \in CloserRecords /\ NoTurn.pc = "free" /\ NoTurn.copy = <<>>
  BY <1>1 DEF TurnRecords, CloserRecords, NoTurn, TurnSteps
<1>4. /\ tsession \in [Turns -> ChatRows] /\ turn \in [Turns -> TurnRecords] /\ closer \in [Closers -> CloserRecords]
      /\ (\A s \in Turns : tsession[s] = NoChat /\ turn[s] = NoTurn) /\ (\A c \in Closers : closer[c] = NoTurn)
      /\ chatFaults = 0 /\ memory = {} /\ lost = {} /\ mixed = {}
  BY <1>2, <1>3 DEF ChatInit
<1>5. ChatShape
  BY <1>1, <1>2, <1>4 DEF ChatShape
<1>6. ReadersOK
  BY <1>1, <1>2, <1>3, <1>4 DEF ReadersOK, TurnOK, PassedOn
<1>7. AloneOK /\ KeptOK /\ ConversationOK
  BY <1>2, <1>3, <1>4 DEF AloneOK, KeptOK, ConversationOK, InFlight
<1> QED
  BY <1>5, <1>6, <1>7 DEF ChatSafe

\* The inductive invariant of the bot's conversation.
THEOREM ChatSafety == ChatSpec => []ChatSafe
<1>1. ChatInit => ChatSafe
  BY ChatStarts
<1>2. ChatSafe /\ [ChatNext]_chatVars => ChatSafe'
  <2> SUFFICES ASSUME ChatSafe, [ChatNext]_chatVars PROVE ChatSafe'
    OBVIOUS
  <2>1. ASSUME NEW t \in Turns, ReadSession(t) \/ CreateSession(t) \/ WriteBack(t) \/ TurnFails(t)
        PROVE  ChatSafe'
    BY <2>1, ReadSessionStep, CreateSessionStep, WriteBackStep, TurnFailsStep
  <2>2. ASSUME NEW t \in Turns, ConsolidateForTurn(t) \/ MarkForTurn(t) \/ Idles(t)
        PROVE  ChatSafe'
    BY <2>2, ConsolidateForTurnStep, MarkForTurnStep, IdlesStep
  <2>3. ASSUME NEW c \in Closers, ConsolidateForCloser(c) \/ MarkForCloser(c) \/ CloserFails(c)
        PROVE  ChatSafe'
    BY <2>3, ConsolidateForCloserStep, MarkForCloserStep, CloserFailsStep
  <2>4. CASE UNCHANGED chatVars
    <3>1. /\ tsession' = tsession /\ turn' = turn /\ closer' = closer /\ chatFaults' = chatFaults
          /\ memory' = memory /\ lost' = lost /\ mixed' = mixed
      BY <2>4 DEF chatVars
    <3>2. ChatShape' /\ ReadersOK' /\ AloneOK' /\ ConversationOK'
      BY <3>1 DEF ChatSafe, ChatShape, ReadersOK, AloneOK, ConversationOK
    <3>3. \A s \in Turns : \A e : Keeps(s, e) => Keeps(s, e)'
      BY <3>1 DEF Keeps
    <3>4. KeptOK'
      BY <3>1, <3>3 DEF ChatSafe, KeptOK
    <3> QED
      BY <3>2, <3>4 DEF ChatSafe
  <2> QED
    BY <2>1, <2>2, <2>3, <2>4, CloserStartsStep DEF ChatNext
<1> QED
  BY <1>1, <1>2, PTL DEF ChatSpec

\* A run of numbers has as many members as it is long.
LEMMA RunSize ==
  ASSUME NEW a \in Nat, NEW b \in Nat, a <= b + 1
  PROVE  IsFiniteSet(a .. b) /\ Cardinality(a .. b) = b - a + 1
<1>1. a \in Int /\ b \in Int
  OBVIOUS
<1>2. IsFiniteSet(a .. b) /\ Cardinality(a .. b) = IF a > b THEN 0 ELSE b - a + 1
  BY <1>1, FS_Interval, Zenon
<1>3. CASE a > b
  <2>1. b - a + 1 = 0
    BY <1>3
  <2> QED
    BY <1>2, <1>3, <2>1
<1>4. CASE ~ a > b
  BY <1>2, <1>4
<1> QED
  BY <1>3, <1>4

\* The last exchanges of a transcript: as many as there are, up to the window.
LastOf(rest) == SubSeq(rest, IF Len(rest) > MaxWindow THEN Len(rest) - MaxWindow + 1 ELSE 1, Len(rest))

\* The window holds at most MaxWindow exchanges, the newest of the transcript in its order,
\* and is shorter than that only when it holds the whole transcript.
LEMMA LastOfFacts ==
  ASSUME NEW rest \in Seq(Entries)
  PROVE  \E l \in Nat : /\ LastOf(rest) \in Seq(Entries) /\ Len(LastOf(rest)) = l /\ l <= MaxWindow /\ l <= Len(rest)
                        /\ \A i \in 1 .. l : LastOf(rest)[i] = rest[Len(rest) - l + i]
                        /\ l < MaxWindow => l = Len(rest)
<1>1. Len(rest) \in Nat /\ MaxWindow \in Nat /\ MaxWindow > 0 /\ \A i \in 1 .. Len(rest) : rest[i] \in Entries
  BY SessionBoundsAssumption
<1>2. CASE Len(rest) > MaxWindow
  <2> PICK j : j = Len(rest) - MaxWindow + 1
    OBVIOUS
  <2>1. j \in 1 .. Len(rest) /\ Len(rest) - j + 1 = MaxWindow
    BY <1>1, <1>2
  <2>2. LastOf(rest) = SubSeq(rest, j, Len(rest))
    BY <1>2 DEF LastOf
  <2>3. \A i \in j .. Len(rest) : rest[i] \in Entries
    BY <1>1, <2>1
  <2>4. /\ LastOf(rest) \in Seq(Entries) /\ Len(LastOf(rest)) = MaxWindow
        /\ \A i \in 1 .. MaxWindow : LastOf(rest)[i] = rest[j + i - 1]
    BY <1>1, <2>1, <2>2, <2>3
  <2>5. \A i \in 1 .. MaxWindow : j + i - 1 = Len(rest) - MaxWindow + i
    BY <1>1
  <2>6. \A i \in 1 .. MaxWindow : LastOf(rest)[i] = rest[Len(rest) - MaxWindow + i]
    BY <2>4, <2>5
  <2>7. MaxWindow <= MaxWindow /\ MaxWindow <= Len(rest) /\ ~ MaxWindow < MaxWindow
    BY <1>1, <1>2
  <2> WITNESS MaxWindow \in Nat
  <2> QED
    BY <2>4, <2>6, <2>7, Zenon
<1>3. CASE ~ Len(rest) > MaxWindow
  <2>1. LastOf(rest) = SubSeq(rest, 1, Len(rest))
    BY <1>3 DEF LastOf
  <2>2. LastOf(rest) \in Seq(Entries) /\ Len(LastOf(rest)) = Len(rest) /\ \A i \in 1 .. Len(rest) : LastOf(rest)[i] = rest[i]
    BY <1>1, <2>1
  <2>3. \A i \in 1 .. Len(rest) : Len(rest) - Len(rest) + i = i
    BY <1>1
  <2> QED
    BY <1>1, <1>3, <2>2, <2>3
<1> QED
  BY <1>2, <1>3

\* The window of a transcript: what WindowKeepsMemory says of one turn's.
WindowOK(copy) ==
  LET window == Window(copy)
      kept == {i \in DOMAIN window : window[i] # Recalled}
  IN  /\ (copy # <<>> /\ copy[1] = Recalled) => (window # <<>> /\ window[1] = Recalled)
      /\ Cardinality(kept) <= MaxWindow
      /\ \A i \in kept : window[i] = copy[Len(copy) - Len(window) + i]
      /\ Cardinality(kept) < MaxWindow => Exchanges(copy) = Exchanges(window)

\* A transcript with its memories at the head has such a window.
LEMMA WindowFacts ==
  ASSUME NEW copy \in Seq(Entries), TranscriptOK(copy)
  PROVE  WindowOK(copy)
<1> SUFFICES ASSUME NEW window, window = Window(copy), NEW kept, kept = {i \in DOMAIN window : window[i] # Recalled}
             PROVE  /\ (copy # <<>> /\ copy[1] = Recalled) => (window # <<>> /\ window[1] = Recalled)
                    /\ Cardinality(kept) <= MaxWindow
                    /\ \A i \in kept : window[i] = copy[Len(copy) - Len(window) + i]
                    /\ Cardinality(kept) < MaxWindow => Exchanges(copy) = Exchanges(window)
  BY DEF WindowOK
<1>1. /\ Len(copy) \in Nat /\ DOMAIN copy = 1 .. Len(copy) /\ MaxWindow \in Nat /\ Recalled \in Entries
      /\ \A i \in 2 .. Len(copy) : copy[i] # Recalled
  BY SessionBoundsAssumption DEF TranscriptOK, Entries, Recalled
<1>2. CASE copy # <<>> /\ copy[1] = Recalled
  <2> PICK rest : rest = Tail(copy)
    OBVIOUS
  <2> PICK last : last = LastOf(rest)
    OBVIOUS
  <2>1. rest \in Seq(Entries) /\ Len(rest) = Len(copy) - 1 /\ Len(copy) >= 1 /\ \A i \in 1 .. Len(rest) : rest[i] = copy[i + 1]
    BY <1>1, <1>2
  <2>2. PICK l \in Nat : /\ last \in Seq(Entries) /\ Len(last) = l /\ l <= MaxWindow /\ l <= Len(rest)
                         /\ \A i \in 1 .. l : last[i] = rest[Len(rest) - l + i]
                         /\ l < MaxWindow => l = Len(rest)
    BY <2>1, LastOfFacts
  <2>3. window = <<Recalled>> \o last
    BY <1>2 DEF Window, LastOf
  <2>4. Len(window) = l + 1 /\ DOMAIN window = 1 .. l + 1 /\ window[1] = Recalled /\ \A i \in 2 .. l + 1 : window[i] = last[i - 1]
    <3>1. <<Recalled>> \in Seq(Entries) /\ Len(<<Recalled>>) = 1 /\ <<Recalled>>[1] = Recalled
      BY <1>1
    <3>2. window \in Seq(Entries) /\ Len(window) = 1 + l
      BY <2>2, <2>3, <3>1
    <3>3. DOMAIN window = 1 .. l + 1
      BY <2>2, <3>2
    <3>4. window[1] = Recalled
      BY <2>2, <2>3, <3>1
    <3>5. ASSUME NEW i \in 2 .. l + 1 PROVE window[i] = last[i - 1]
      BY <2>2, <2>3, <3>1
    <3> QED
      BY <2>2, <3>2, <3>3, <3>4, <3>5
  <2> PICK n : n = Len(rest)
    OBVIOUS
  <2>n. n \in Nat /\ l \in Nat /\ l <= n /\ Len(copy) = n + 1 /\ Len(window) = l + 1 /\ (l < MaxWindow => l = n)
    <3>1. n \in Nat /\ Len(copy) = n + 1
      BY <1>1, <2>1
    <3> QED
      BY <2>2, <2>4, <3>1
  <2>5. ASSUME NEW i \in 2 .. l + 1 PROVE window[i] = copy[Len(copy) - Len(window) + i] /\ window[i] # Recalled
    <3>1. i - 1 \in 1 .. l /\ n - l + (i - 1) \in 1 .. n
      BY <2>n
    <3>2. window[i] = rest[n - l + (i - 1)]
      BY <2>2, <2>4, <3>1
    <3>3. rest[n - l + (i - 1)] = copy[n - l + (i - 1) + 1]
      BY <2>1, <3>1
    <3>4. n - l + (i - 1) + 1 = Len(copy) - Len(window) + i /\ Len(copy) - Len(window) + i \in 2 .. Len(copy)
      BY <2>n
    <3> QED
      BY <1>1, <3>2, <3>3, <3>4
  <2>6. kept = 2 .. l + 1
    BY <2>2, <2>4, <2>5
  <2>7. Cardinality(kept) = l
    <3>1. 2 \in Nat /\ l + 1 \in Nat /\ 2 <= (l + 1) + 1 /\ (l + 1) - 2 + 1 = l
      BY <2>2
    <3>2. Cardinality(2 .. l + 1) = (l + 1) - 2 + 1
      BY <3>1, RunSize
    <3> QED
      BY <2>6, <3>1, <3>2
  <2>8. ASSUME l < MaxWindow PROVE Exchanges(copy) = Exchanges(window)
    <3>1. Len(window) = Len(copy) /\ l + 1 = Len(copy)
      BY <2>n, <2>8
    <3>e. DOMAIN window = DOMAIN copy
      BY <1>1, <2>4, <3>1
    <3>2. ASSUME NEW i \in DOMAIN copy PROVE window[i] = copy[i]
      <4>1. CASE i = 1
        BY <1>2, <2>4, <4>1
      <4>2. CASE i # 1
        <5>1. i \in 2 .. l + 1
          BY <2>4, <2>n, <3>e, <4>2
        <5>2. Len(copy) - Len(window) + i = i
          BY <2>n, <3>1, <5>1
        <5> QED
          BY <2>5, <5>1, <5>2
      <4> QED
        BY <4>1, <4>2
    <3> QED
      BY <3>e, <3>2 DEF Exchanges
  <2>9. window # <<>>
    BY <2>2, <2>4
  <2> QED
    BY <2>2, <2>4, <2>5, <2>6, <2>7, <2>8, <2>9
<1>3. CASE ~ (copy # <<>> /\ copy[1] = Recalled)
  <2>1. \A i \in 1 .. Len(copy) : copy[i] # Recalled
    <3> SUFFICES ASSUME NEW i \in 1 .. Len(copy) PROVE copy[i] # Recalled
      OBVIOUS
    <3>1. CASE i = 1
      BY <1>1, <1>3, <3>1
    <3>2. CASE i # 1
      BY <1>1, <3>2
    <3> QED
      BY <3>1, <3>2
  <2>2. window = LastOf(copy)
    BY <1>3 DEF Window, LastOf
  <2>3. PICK l \in Nat : /\ window \in Seq(Entries) /\ Len(window) = l /\ l <= MaxWindow /\ l <= Len(copy)
                         /\ \A i \in 1 .. l : window[i] = copy[Len(copy) - l + i]
                         /\ l < MaxWindow => l = Len(copy)
    BY <2>2, LastOfFacts
  <2>4. DOMAIN window = 1 .. l
    BY <2>3
  <2>n. Len(copy) \in Nat /\ l \in Nat /\ l <= Len(copy) /\ (l < MaxWindow => l = Len(copy))
    BY <1>1, <2>3
  <2>5. ASSUME NEW i \in 1 .. l PROVE window[i] = copy[Len(copy) - Len(window) + i] /\ window[i] # Recalled
    <3>1. Len(copy) - l + i \in 1 .. Len(copy)
      BY <2>n
    <3> QED
      BY <2>1, <2>3, <3>1
  <2>6. kept = 1 .. l
    BY <2>4, <2>5
  <2>7. Cardinality(kept) = l
    <3>1. 1 \in Nat /\ 1 <= l + 1 /\ l - 1 + 1 = l
      BY <2>3
    <3>2. Cardinality(1 .. l) = l - 1 + 1
      BY <2>3, <3>1, RunSize
    <3> QED
      BY <2>6, <3>1, <3>2
  <2>8. ASSUME l < MaxWindow PROVE Exchanges(copy) = Exchanges(window)
    <3>1. l = Len(copy)
      BY <2>n, <2>8
    <3>e. DOMAIN window = DOMAIN copy
      BY <1>1, <2>4, <3>1
    <3>2. ASSUME NEW i \in DOMAIN copy PROVE window[i] = copy[i]
      <4>1. i \in 1 .. l /\ Len(copy) - l + i = i
        BY <1>1, <2>n, <3>1
      <4> QED
        BY <2>3, <4>1
    <3> QED
      BY <3>e, <3>2 DEF Exchanges
  <2> QED
    BY <1>3, <2>3, <2>5, <2>6, <2>7, <2>8
<1> QED
  BY <1>2, <1>3

\* The bot's conversation: an answered exchange that ran alone is in the active session or went to
\* memory, there is one session at a time unless turns overlapped, and the model is shown the
\* recalled memories and the last exchanges (consolidateAndCloseSession and the text handler).
THEOREM ConversationIsKept == ChatSpec => []ChatInv
<1>1. ChatSafe => ChatInv
  <2> SUFFICES ASSUME ChatSafe PROVE ChatInv
    OBVIOUS
  <2>1. tsession \in [Turns -> ChatRows] /\ turn \in [Turns -> TurnRecords] /\ closer \in [Closers -> CloserRecords]
    BY DEF ChatSafe, ChatShape
  <2>2. ChatTypeOK
    <3>1. ASSUME NEW s \in Turns
          PROVE  /\ tsession[s].st \in {"none", "active", "consolidated"} /\ tsession[s].idle \in {"no", "yes"}
                 /\ Len(tsession[s].tr) <= MaxSession /\ Exchanges(tsession[s].tr) \subseteq Turns
      <4>1. tsession[s] \in ChatRows /\ TranscriptOK(tsession[s].tr)
        BY <2>1 DEF ChatSafe, ChatShape
      <4>2. tsession[s].tr \in Seq(Entries)
        BY <4>1 DEF ChatRows
      <4>3. Exchanges(tsession[s].tr) \subseteq Turns
        BY <4>2, ExchangesType
      <4> QED
        BY <4>1, <4>3 DEF ChatRows, TranscriptOK
    <3>2. \A t \in Turns : turn[t].pc \in InFlight \cup {"free", "done", "failed"} /\ turn[t].s \in 0 .. MaxTurns
      BY <2>1 DEF TurnRecords, TurnSteps, Entries
    <3>3. \A c \in Closers : closer[c].pc \in {"free", "consolidate", "mark"}
      BY <2>1 DEF CloserRecords
    <3>4. memory \subseteq Turns /\ lost \subseteq Turns /\ mixed \subseteq Turns
      BY DEF ChatSafe, ChatShape
    <3> QED
      BY <3>1, <3>2, <3>3, <3>4 DEF ChatTypeOK
  <2>3. NothingForgotten
    <3> SUFFICES ASSUME NEW t \in Turns, turn[t].pc = "done", t \notin memory \cup lost \cup mixed
                 PROVE  t \in UNION {Exchanges(tsession[s].tr) : s \in Active}
      BY DEF NothingForgotten
    <3>1. PICK s \in Turns : Keeps(s, t)
      BY DEF ChatSafe, KeptOK
    <3>2. s \in Active /\ t \in Exchanges(tsession[s].tr)
      BY <3>1 DEF Keeps, Active
    <3> QED
      BY <3>2
  <2>4. OneConversation
    <3>1. CASE mixed # {}
      BY <3>1 DEF OneConversation
    <3>2. CASE mixed = {} /\ Active = {}
      <4>1. Cardinality(Active) = 0
        BY <3>2, FS_EmptySet
      <4> QED
        BY <4>1 DEF OneConversation
    <3>3. CASE mixed = {} /\ Active # {}
      <4>1. PICK s : s \in Active
        BY <3>3
      <4>2. Active = {s}
        BY <3>3, <4>1 DEF Active, ChatSafe, ConversationOK
      <4>3. Cardinality(Active) = 1
        BY <4>2, FS_Singleton
      <4> QED
        BY <4>3 DEF OneConversation
    <3> QED
      BY <3>1, <3>2, <3>3
  <2>5. WindowKeepsMemory
    <3>1. ASSUME NEW t \in Turns PROVE WindowOK(turn[t].copy)
      <4>1. turn[t].copy \in Seq(Entries)
        BY <2>1 DEF TurnRecords
      <4>2. TranscriptOK(turn[t].copy)
        BY DEF ChatSafe, ReadersOK, TurnOK
      <4> QED
        BY <4>1, <4>2, WindowFacts
    <3> QED
      BY <3>1 DEF WindowKeepsMemory, WindowOK
  <2> QED
    BY <2>2, <2>3, <2>4, <2>5 DEF ChatInv
<1> QED
  BY <1>1, ChatSafety, PTL
=============================================================================
