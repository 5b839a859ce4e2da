---------------------------- MODULE MCServices -----------------------------
(***************************************************************************)
(* The conversation and the alerts of the Telegram bot, the previews, the  *)
(* nightly report, the chat's model preference, the project snapshots and  *)
(* the live activity of a run share no variables: one of them steps in     *)
(* each behaviour, the others keep their initial state.  The conversation  *)
(* has two parts: overlapping turns without the last text, and all texts   *)
(* one after the other, so that a session grows to its limit; and so has   *)
(* the activity: tokens that rotate, and one token with faults.            *)
(***************************************************************************)
EXTENDS TelegramSessions, TelegramAlerts, Previews, Nightly, ChatPreference, Snapshots, LiveActivity, TLC

VARIABLE part

HandlerSymmetry == Permutations(Handlers)

Init ==
  /\ part \in {"overlap", "chat", "alerts", "previews", "night", "preference", "snapshots", "rotations", "activity"}
  /\ ChatInit /\ AlertInit /\ PreviewInit /\ NightInit /\ PrefInit /\ SnapshotInit /\ ActivityInit

Next ==
  \/ /\ part \in {"overlap", "chat"} /\ ChatNext
     /\ part = "overlap" => turn'[MaxTurns].pc = "free"
     /\ part = "chat" => Cardinality(Busy') + Cardinality(Closing') <= 1
     /\ UNCHANGED <<part, alertVars, previewVars, nightVars, prefVars, snapshotVars, activityVars>>
  \/ part = "alerts" /\ AlertNext /\ UNCHANGED <<part, chatVars, previewVars, nightVars, prefVars, snapshotVars, activityVars>>
  \/ part = "previews" /\ PreviewNext /\ UNCHANGED <<part, chatVars, alertVars, nightVars, prefVars, snapshotVars, activityVars>>
  \/ part = "night" /\ NightNext /\ UNCHANGED <<part, chatVars, alertVars, previewVars, prefVars, snapshotVars, activityVars>>
  \/ part = "preference" /\ PrefNext /\ UNCHANGED <<part, chatVars, alertVars, previewVars, nightVars, snapshotVars, activityVars>>
  \/ part = "snapshots" /\ SnapshotNext /\ UNCHANGED <<part, chatVars, alertVars, previewVars, nightVars, prefVars, activityVars>>
  \/ /\ part \in {"rotations", "activity"} /\ ActivityNext
     /\ part = "rotations" => pushFaults' = 0
     /\ part = "activity" => rotation'.given <= 1
     /\ UNCHANGED <<part, chatVars, alertVars, previewVars, nightVars, prefVars, snapshotVars>>

Spec == Init /\ [][Next]_<<part, chatVars, alertVars, previewVars, nightVars, prefVars, snapshotVars, activityVars>>
=============================================================================
