--------------------------- MODULE ChatPreference ----------------------------
(***************************************************************************)
(* The owner's choice of a model for the chat (ChatModelPreferenceService): *)
(* a row, and a copy in memory that the router reads in every turn.  Each  *)
(* operation reads or writes the row and, after the await, the copy, so    *)
(* requests that overlap may leave a copy that is not the row.             *)
(***************************************************************************)
EXTENDS Naturals, FiniteSets

CONSTANTS
  Catalog,        \* models of chat_options
  WithEffort,     \* those that take an effort
  Requests,       \* bound: requests at one time
  MaxPrefFaults   \* bound: failed queries and restarts

ASSUME CatalogAssumption == WithEffort \subseteq Catalog /\ MaxPrefFaults \in Nat

VARIABLES
  row,        \* chat_model_preference
  cached,     \* the copy
  asking,     \* request -> what it is about to cache; and whether it writes and met another
  prefFaults,
  \* history
  trusted     \* "yes" if the last request to end met no other and did not fail after a write

prefVars == <<row, cached, asking, prefFaults, trusted>>

NoPreference == [model |-> "default", effort |-> "none"]
Waiting == [pc |-> "free", pref |-> NoPreference, writes |-> "no", met |-> "no"]
PrefFault == prefFaults < MaxPrefFaults /\ prefFaults' = prefFaults + 1
Asking == {q \in Requests : asking[q].pc = "cache"}

\* A request that holds a preference to cache; requests in flight meet it.
Asks(q, pref, writes) ==
  asking' = [o \in Requests |->
    CASE o = q -> [pc |-> "cache", pref |-> pref, writes |-> writes, met |-> IF Asking = {} THEN "no" ELSE "yes"]
      [] o # q /\ o \in Asking -> [asking[o] EXCEPT !.met = "yes"]
      [] OTHER -> asking[o]]

-----------------------------------------------------------------------------
\* An effort the model does not take is dropped.
Suited(model, effort) == [model |-> model, effort |-> IF model \in WithEffort THEN effort ELSE "none"]

\* setPreference writes the row; an unknown model is refused, which changes nothing.
SetPreference(q) ==
  /\ asking[q].pc = "free"
  /\ \E model \in Catalog, effort \in {"none", "high"} :
       row' = Suited(model, effort) /\ Asks(q, Suited(model, effort), "yes")
  /\ UNCHANGED <<cached, prefFaults, trusted>>

ClearPreference(q) ==
  /\ asking[q].pc = "free" /\ row' = NoPreference /\ Asks(q, NoPreference, "yes")
  /\ UNCHANGED <<cached, prefFaults, trusted>>

\* readFromDb, for every GET.
Refresh(q) ==
  /\ asking[q].pc = "free" /\ Asks(q, row, "no")
  /\ UNCHANGED <<row, cached, prefFaults, trusted>>

\* Mutant: only a GET fills the copy.
CacheOnRefresh(q) ==
  /\ asking[q].pc = "cache" /\ asking' = [asking EXCEPT ![q] = Waiting]
  /\ cached' = IF asking[q].writes = "yes" THEN cached ELSE asking[q].pref
  /\ trusted' = IF asking[q].met = "yes" THEN "no" ELSE "yes"
  /\ UNCHANGED <<row, prefFaults>>

\* The copy, after the await.
Cache(q) ==
  /\ asking[q].pc = "cache" /\ asking' = [asking EXCEPT ![q] = Waiting]
  /\ cached' = asking[q].pref
  /\ trusted' = IF asking[q].met = "yes" THEN "no" ELSE "yes"
  /\ UNCHANGED <<row, prefFaults>>

\* The query's answer is lost: the copy stays.
PreferenceFails(q) ==
  /\ asking[q].pc = "cache" /\ PrefFault /\ asking' = [asking EXCEPT ![q] = Waiting]
  /\ trusted' = IF asking[q].writes = "yes" THEN "no" ELSE trusted
  /\ UNCHANGED <<row, cached>>

\* A restart empties the copy, and nothing fills it until the first request.
PreferenceRestart ==
  /\ PrefFault /\ cached' = NoPreference /\ asking' = [q \in Requests |-> Waiting] /\ trusted' = "no"
  /\ UNCHANGED row

-----------------------------------------------------------------------------
PrefInit ==
  /\ row = NoPreference /\ cached = NoPreference /\ asking = [q \in Requests |-> Waiting]
  /\ prefFaults = 0 /\ trusted = "yes"

PrefNext ==
  \/ \E q \in Requests : SetPreference(q) \/ ClearPreference(q) \/ Refresh(q) \/ Cache(q) \/ PreferenceFails(q)
  \/ PreferenceRestart

PrefSpec == PrefInit /\ [][PrefNext]_prefVars

-----------------------------------------------------------------------------
\* The router uses the preference the owner sees stored, however stale restarts, races and
\* lost answers had left the copy, as soon as one request of any kind met no other.
CopyIsStored == trusted = "yes" /\ Asking = {} => cached = row

\* A stored effort is one the model takes, so the app shows what the turns do.
EffortIsTaken ==
  \A p \in {row, cached} : p.effort # "none" => p.model \in WithEffort

\* The copy the router uses is the stored preference, and its effort is one the model takes.
PreferenceInv == CopyIsStored /\ EffortIsTaken
=============================================================================
