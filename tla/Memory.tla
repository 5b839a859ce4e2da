------------------------------- MODULE Memory --------------------------------
(***************************************************************************)
(* The long-term memory (MemoryService, MemoryStore, ConsolidationService): *)
(* a session that is closed, or a history that is compacted, is distilled  *)
(* by the model into entries that are embedded and stored one by one; a    *)
(* recall ranks what is stored by its distance to the query.               *)
(*                                                                         *)
(* An embedding is a point of a line: only distances are compared.  What   *)
(* the model remembers is its own conclusion, so nothing is sanitised.     *)
(***************************************************************************)
EXTENDS Naturals, Sequences, FiniteSets, Functions

CONSTANTS
  Consolidations,   \* calls of consolidate, each for a session
  Points,           \* embeddings, a set of naturals
  MaxDistilled      \* bound: entries distilled from a session

ASSUME MemoryAssumption == Points \subseteq Nat /\ MaxDistilled \in Nat

VARIABLES
  entries,    \* memory_entries by id: kind, session, and the point of its content
  vectors,    \* memory_vectors: id -> point
  job         \* call -> where it is, what was distilled, and how many are stored

memoryVars == <<entries, vectors, job>>

MemoryKinds == {"hecho", "leccion"}   \* two of MemoryEntryType
Candidates == [kind : MemoryKinds, point : Points]
NoJob == [pc |-> "idle", list |-> <<>>, done |-> 0]
Distance(p, q) == IF p > q THEN p - q ELSE q - p

-----------------------------------------------------------------------------
\* distill: the model answers with a list, or with what parseResponse refuses.
Distill(j) ==
  /\ job[j].pc = "idle"
  /\ \/ \E n \in 0 .. MaxDistilled : \E list \in [1 .. n -> Candidates] :
          job' = [job EXCEPT ![j] = [pc |-> IF n = 0 THEN "done" ELSE "embed", list |-> list, done |-> 0]]
     \/ job' = [job EXCEPT ![j].pc = "failed"]
  /\ UNCHANGED <<entries, vectors>>

\* consolidate remembers one candidate after the other.
UpNext(j) == {job[j].list[job[j].done + 1]}

\* The meta row and the vector, in one transaction.
Insert(j, c) ==
  /\ entries' = Append(entries, [kind |-> c.kind, session |-> j, point |-> c.point])
  /\ vectors' = Append(vectors, c.point)

\* remember: after the await of the embedding.
Remember(j) ==
  /\ job[j].pc = "embed" /\ \E c \in UpNext(j) : Insert(j, c)
  /\ job' = [job EXCEPT ![j].done = @ + 1, ![j].pc = IF job[j].done + 1 = Len(job[j].list) THEN "done" ELSE "embed"]

\* A transaction that fails leaves nothing.
Rollback(j) == UNCHANGED <<entries, vectors>>

\* The embedding or the transaction fails, or the process dies: the rest of the list is lost.
RememberFails(j) ==
  /\ job[j].pc = "embed" /\ job' = [job EXCEPT ![j].pc = "failed"] /\ Rollback(j)

-----------------------------------------------------------------------------
\* queryKnn's filters by kind and by session, "any" when absent; all entries have one source.
Matches(e, kind, session) == kind \in {"any", e.kind} /\ session \in {"any", e.session}

\* The members of a finite set in order, given those ahead of each.
InOrder(S, ahead) == [m \in 1 .. Cardinality(S) |-> CHOOSE x \in S : Cardinality(ahead[x]) = m - 1]

RowIds == 1 .. Len(vectors)

Nearer(q, a, b) ==
  \/ Distance(q, vectors[a]) < Distance(q, vectors[b])
  \/ Distance(q, vectors[a]) = Distance(q, vectors[b]) /\ a < b

\* All ids by the distance of their vectors, the nearest first.
Ranked(q) == InOrder(RowIds, [b \in RowIds |-> {a \in RowIds : Nearer(q, a, b)}])

\* The rows that match, in the order they have.
Filtered(rows, kind, session) ==
  LET kept == {p \in DOMAIN rows : Matches(entries[rows[p]], kind, session)}
      places == InOrder(kept, [b \in kept |-> {a \in kept : a < b}])
  IN [m \in DOMAIN places |-> rows[places[m]]]

Least(a, b) == IF a < b THEN a ELSE b
Slice(rows, k) == SubSeq(rows, 1, Least(k, Len(rows)))

\* Mutant: the k nearest are filtered.
QueryKnnEarly(q, k, kind, session) == Filtered(Slice(Ranked(q), k), kind, session)

\* Every row is ranked, then filtered, then cut to k.
QueryKnn(q, k, kind, session) == Slice(Filtered(Ranked(q), kind, session), k)

-----------------------------------------------------------------------------
MemoryInit == entries = <<>> /\ vectors = <<>> /\ job = [j \in Consolidations |-> NoJob]
MemoryNext == \E j \in Consolidations : Distill(j) \/ Remember(j) \/ RememberFails(j)
MemorySpec == MemoryInit /\ [][MemoryNext]_memoryVars

-----------------------------------------------------------------------------
\* Every entry has its own vector, whatever fails, so that recall neither misses an entry
\* nor finds one under another's meaning.
EntriesHaveVectors ==
  Len(entries) = Len(vectors) /\ \A i \in 1 .. Len(entries) : vectors[i] = entries[i].point

\* What is stored of a consolidation is a beginning of what was distilled, in its order, each
\* entry once, and all of it when the call returned, though others interleave with it.
StoredInOrder ==
  \A j \in Consolidations :
    LET mine == {i \in 1 .. Len(entries) : entries[i].session = j}
        origin(i) == job[j].list[Cardinality({m \in mine : m <= i})]
    IN /\ Cardinality(mine) = job[j].done /\ job[j].done <= Len(job[j].list)
       /\ \A i \in mine : entries[i].kind = origin(i).kind /\ entries[i].point = origin(i).point
       /\ job[j].pc = "done" => job[j].done = Len(job[j].list)

\* recall gives the k nearest among the entries that match, the nearest first: no entry that
\* matches is left out for a farther one, nor because entries that do not match are near.
NearestFirst(found, q, k, kind, session) ==
  LET matching == {i \in 1 .. Len(entries) : Matches(entries[i], kind, session)}
      far(i) == Distance(q, entries[i].point)
  IN /\ Range(found) \subseteq matching /\ Cardinality(Range(found)) = Len(found)
     /\ Len(found) = Least(k, Cardinality(matching))
     /\ \A i \in Range(found), o \in matching \ Range(found) : far(i) <= far(o)
     /\ \A m \in 1 .. Len(found) - 1 : far(found[m]) <= far(found[m + 1])

RecallIsNearest ==
  \A q \in Points, k \in 1 .. 2, kind \in MemoryKinds \cup {"any"}, session \in Consolidations \cup {"any"} :
    NearestFirst(QueryKnn(q, k, kind, session), q, k, kind, session)

\* The memory that overlapping consolidations leave, whatever fails in them: entries with their
\* vectors, in the order they were distilled, and recalled the nearest first.
MemoryInv == EntriesHaveVectors /\ StoredInOrder /\ RecallIsNearest
=============================================================================
