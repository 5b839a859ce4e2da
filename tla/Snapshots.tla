----------------------------- MODULE Snapshots -------------------------------
(***************************************************************************)
(* The backups of the editor's projects (ProjectSnapshotsService): the     *)
(* number of rows is read before a row is written, each action is audited  *)
(* after it, and calls overlap.                                            *)
(***************************************************************************)
EXTENDS Naturals, FiniteSets

CONSTANTS
  SnapshotCalls,      \* calls of the API, at one time
  MaxSnapshots,       \* SNAPSHOT_MAX_COUNT
  MaxSaved,           \* bound: rows ever written
  MaxSnapshotFaults   \* bound: failed statements and dead calls

ASSUME SnapshotAssumption == /\ {MaxSnapshots, MaxSaved, MaxSnapshotFaults} \subseteq Nat
                             /\ IsFiniteSet(SnapshotCalls) /\ SnapshotCalls # {}

VARIABLES
  saved,            \* rows of project_snapshots, by the order they were written
  written,          \* how many were ever written
  ask,              \* call -> where it is, and its row
  snapshotFaults,
  \* history
  audited,          \* [what, row] -> rows in the audit log
  unlogged,         \* [what, row] whose audit failed, as the owner was told
  restored          \* rows given back to the editor

snapshotVars == <<saved, written, ask, snapshotFaults, audited, unlogged, restored>>

Rows == 1 .. MaxSaved
Deeds == {"save", "restore", "delete"} \X Rows
Resting == [pc |-> "idle", row |-> 0]
SnapshotFault == snapshotFaults < MaxSnapshotFaults /\ snapshotFaults' = snapshotFaults + 1

-----------------------------------------------------------------------------
SnapshotRoom == Cardinality(saved) < MaxSnapshots

\* create, of a body that is valid and holds no file that looks like a secret: count.
CountSnapshots(c) ==
  /\ ask[c].pc = "idle" /\ SnapshotRoom
  /\ ask' = [ask EXCEPT ![c].pc = "insert"]
  /\ UNCHANGED <<saved, written, snapshotFaults, audited, unlogged, restored>>

InsertSnapshot(c) ==
  /\ ask[c].pc = "insert" /\ written < MaxSaved
  /\ written' = written + 1 /\ saved' = saved \cup {written + 1}
  /\ ask' = [ask EXCEPT ![c] = [pc |-> "save", row |-> written + 1]]
  /\ UNCHANGED <<snapshotFaults, audited, unlogged, restored>>

\* get reads the row for the editor.
GetSnapshot(c, r) ==
  /\ ask[c].pc = "idle" /\ r \in saved
  /\ ask' = [ask EXCEPT ![c] = [pc |-> "restore", row |-> r]]
  /\ UNCHANGED <<saved, written, snapshotFaults, audited, unlogged, restored>>

\* delete reads the row for its name.
FindSnapshot(c, r) ==
  /\ ask[c].pc = "idle" /\ r \in saved
  /\ ask' = [ask EXCEPT ![c] = [pc |-> "remove", row |-> r]]
  /\ UNCHANGED <<saved, written, snapshotFaults, audited, unlogged, restored>>

\* Mutant: the answer of the DELETE is not looked at.
DeleteAnyway(c) ==
  /\ ask[c].pc = "remove" /\ saved' = saved \ {ask[c].row}
  /\ ask' = [ask EXCEPT ![c].pc = "delete"]
  /\ UNCHANGED <<written, snapshotFaults, audited, unlogged, restored>>

\* The DELETE says whether there was a row: if not, it was not found.
DeleteSnapshot(c) ==
  /\ ask[c].pc = "remove" /\ saved' = saved \ {ask[c].row}
  /\ ask' = [ask EXCEPT ![c] = IF ask[c].row \in saved THEN [@ EXCEPT !.pc = "delete"] ELSE Resting]
  /\ UNCHANGED <<written, snapshotFaults, audited, unlogged, restored>>

\* recordToolCall, then the answer.
AuditSnapshot(c) ==
  /\ ask[c].pc \in {"save", "restore", "delete"}
  /\ audited' = [audited EXCEPT ![<<ask[c].pc, ask[c].row>>] = IF ask[c].pc = "restore" THEN 1 ELSE @ + 1]
  /\ restored' = IF ask[c].pc = "restore" THEN restored \cup {ask[c].row} ELSE restored
  /\ ask' = [ask EXCEPT ![c] = Resting]
  /\ UNCHANGED <<saved, written, snapshotFaults, unlogged>>

\* A statement fails or the process dies: what was done stays done, the owner is told it failed.
SnapshotFails(c) ==
  /\ ask[c].pc # "idle" /\ SnapshotFault
  /\ unlogged' = IF ask[c].pc \in {"save", "restore", "delete"} THEN unlogged \cup {<<ask[c].pc, ask[c].row>>} ELSE unlogged
  /\ ask' = [ask EXCEPT ![c] = Resting]
  /\ UNCHANGED <<saved, written, audited, restored>>

-----------------------------------------------------------------------------
SnapshotInit ==
  /\ saved = {} /\ written = 0 /\ ask = [c \in SnapshotCalls |-> Resting] /\ snapshotFaults = 0
  /\ audited = [d \in Deeds |-> 0] /\ unlogged = {} /\ restored = {}

SnapshotNext ==
  \E c \in SnapshotCalls :
    \/ CountSnapshots(c) \/ InsertSnapshot(c) \/ DeleteSnapshot(c) \/ AuditSnapshot(c) \/ SnapshotFails(c)
    \/ \E r \in Rows : GetSnapshot(c, r) \/ FindSnapshot(c, r)

SnapshotSpec == SnapshotInit /\ [][SnapshotNext]_snapshotVars

-----------------------------------------------------------------------------
\* The limit may be passed only by calls that counted before the others wrote: by at most
\* one row less than there are calls.
SnapshotsBounded == Cardinality(saved) <= MaxSnapshots + Cardinality(SnapshotCalls) - 1

\* The log tells what happened: a row is saved once and deleted once though deletions of it
\* overlap, and nothing is gone, there or given to the editor without its audit row, unless a call is at
\* it or its audit failed.
LogTellsSnapshots ==
  LET doing(d) == \E c \in SnapshotCalls : <<ask[c].pc, ask[c].row>> = d
      known(d) == audited[d] = 1 \/ doing(d) \/ d \in unlogged
  IN /\ \A d \in Deeds : audited[d] <= 1
     /\ \A r \in 1 .. written : known(<<"save", r>>) /\ (r \notin saved => known(<<"delete", r>>))
     /\ \A r \in restored : audited[<<"restore", r>>] = 1

\* The number of snapshots and the log that tells of them, over overlapping calls and failures.
SnapshotInv == SnapshotsBounded /\ LogTellsSnapshots
=============================================================================
