-------------------------- MODULE ModelCalls_proofs --------------------------
(***************************************************************************)
(* The guarded model calls, proved for any number of calls in flight, any  *)
(* models, prices, limits, day length and time zone: by how much spending  *)
(* can pass its limits, how far the ledgers are behind what was billed,    *)
(* how many attempts a pause still lets through, that a caller hears one   *)
(* attempt, and that a crossed threshold is announced.                     *)
(***************************************************************************)
EXTENDS ModelCalls, TLAPS, FiniteSetTheorems, WellFoundedInduction

-----------------------------------------------------------------------------
(* Arithmetic. *)

\* A product grows with its factor.
LEMMA ProductGrows ==
  ASSUME NEW k \in Nat, NEW a \in Nat, NEW b \in Nat, a <= b
  PROVE  k * a <= k * b /\ k * a \in Nat /\ k * b \in Nat
<1>1. PICK d \in Nat : b = a + d
  <2>1. b - a \in Nat /\ b = a + (b - a)
    OBVIOUS
  <2>2. QED  BY <2>1
<1>2. k * b = k * a + k * d
  BY <1>1
<1>3. k * d \in Nat /\ k * a \in Nat
  BY <1>1
<1>4. QED  BY <1>2, <1>3

\* One factor less.
LEMMA ProductLess ==
  ASSUME NEW k \in Nat, NEW a \in Nat, a >= 1
  PROVE  k * (a - 1) = k * a - k /\ k * a \in Nat /\ k * (a - 1) \in Nat
  OBVIOUS

\* Division by the length of a day: what the quotient is.
LEMMA Quotient ==
  ASSUME NEW x \in Nat, NEW d \in Nat \ {0}
  PROVE  /\ x \div d \in Nat
         /\ d * (x \div d) <= x
         /\ x < d * (x \div d) + d
  OBVIOUS

\* It is the only number between whose multiples x lies.
LEMMA QuotientUnique ==
  ASSUME NEW x \in Nat, NEW d \in Nat \ {0}, NEW q \in Nat, d * q <= x, x < d * q + d
  PROVE  x \div d = q
<1> DEFINE p == x \div d
<1>1. p \in Nat /\ d * p <= x /\ x < d * p + d
  BY Quotient
<1> HIDE DEF p
<1>2. CASE p < q
  <2>1. p + 1 <= q /\ p + 1 \in Nat
    BY <1>1, <1>2
  <2>2. d * (p + 1) <= d * q
    BY <2>1, ProductGrows
  <2>3. d * (p + 1) = d * p + d
    BY <1>1
  <2>4. d * p \in Nat /\ d * q \in Nat
    BY <1>1
  <2>5. QED  BY <1>1, <2>2, <2>3, <2>4
<1>3. CASE q < p
  <2>1. q + 1 <= p /\ q + 1 \in Nat
    BY <1>1, <1>3
  <2>2. d * (q + 1) <= d * p
    BY <1>1, <2>1, ProductGrows
  <2>3. d * (q + 1) = d * q + d
    OBVIOUS
  <2>4. d * p \in Nat /\ d * q \in Nat
    BY <1>1
  <2>5. QED  BY <1>1, <2>2, <2>3, <2>4
<1>4. QED  BY <1>1, <1>2, <1>3 DEF p

\* It does not shrink, and over one hour it grows by at most one.
LEMMA QuotientGrows ==
  ASSUME NEW x \in Nat, NEW y \in Nat, NEW d \in Nat \ {0}, x <= y
  PROVE  x \div d <= y \div d
<1> DEFINE p == x \div d
           q == y \div d
<1>1. p \in Nat /\ d * p <= x /\ x < d * p + d /\ q \in Nat /\ d * q <= y /\ y < d * q + d
  BY Quotient
<1> HIDE DEF p, q
<1>2. ASSUME q < p  PROVE FALSE
  <2>1. q + 1 <= p /\ q + 1 \in Nat
    BY <1>1, <1>2
  <2>2. d * (q + 1) <= d * p
    BY <1>1, <2>1, ProductGrows
  <2>3. d * (q + 1) = d * q + d
    BY <1>1
  <2>4. d * p \in Nat /\ d * q \in Nat
    BY <1>1
  <2>5. QED  BY <1>1, <2>2, <2>3, <2>4
<1>3. p <= q
  BY <1>1, <1>2
<1>4. QED  BY <1>3 DEF p, q

-----------------------------------------------------------------------------
(* The clock and the two calendars. *)

\* The local day of an hour is a day of the ledger, and both dates are numbers.
LEMMA HourTypes ==
  ASSUME NEW h \in Hours
  PROVE  /\ h \div DayHours \in Days /\ h \div DayHours \in Nat /\ (h + UtcShift) \div DayHours \in Nat
         /\ h \in Nat /\ DayHours \in Nat \ {0} /\ UtcShift \in Nat /\ UtcShift < DayHours
<1>1. h \in Nat /\ MaxHour \in Nat /\ h <= MaxHour /\ DayHours \in Nat \ {0}
      /\ UtcShift \in Nat /\ UtcShift < DayHours /\ h + UtcShift \in Nat
  BY BudgetAssumption DEF Hours
<1>2. h \div DayHours \in Nat /\ MaxHour \div DayHours \in Nat
      /\ h \div DayHours <= MaxHour \div DayHours /\ (h + UtcShift) \div DayHours \in Nat
  BY <1>1, Quotient, QuotientGrows
<1>3. QED  BY <1>1, <1>2 DEF Days

\* So are those of the clock.
LEMMA DateTypes ==
  ASSUME now \in Hours
  PROVE  /\ TodayLocalDate \in Days /\ TodayLocalDate \in Nat /\ UtcDate \in Nat
         /\ now \in Nat /\ DayHours \in Nat \ {0} /\ UtcShift \in Nat /\ UtcShift < DayHours
  BY HourTypes DEF TodayLocalDate, UtcDate

\* An hour later: the dates do not go back, and when the local date changes the UTC
\* date is the same as the new local one.
LEMMA NextHour ==
  ASSUME now \in Hours, now' = now + 1
  PROVE  /\ TodayLocalDate <= TodayLocalDate' /\ UtcDate <= UtcDate'
         /\ TodayLocalDate' # TodayLocalDate => UtcDate' = TodayLocalDate'
         /\ UtcShift = 0 => UtcDate = TodayLocalDate
<1> DEFINE d == DayHours
           s == UtcShift
           p == now \div d
           q == (now + 1) \div d
<1>1. now \in Nat /\ now + 1 \in Nat /\ d \in Nat \ {0} /\ s \in Nat /\ s < d
  BY DateTypes
<1>2. p \in Nat /\ d * p <= now /\ now < d * p + d /\ q \in Nat /\ d * q <= now + 1
      /\ now + 1 < d * q + d /\ p <= q
  BY <1>1, Quotient, QuotientGrows
<1>3. (now + s) \div d <= (now + 1 + s) \div d
  <2>1. now + s \in Nat /\ now + 1 + s \in Nat /\ now + s <= now + 1 + s
    BY <1>1
  <2>2. QED  BY <1>1, <2>1, QuotientGrows
<1>4. ASSUME q # p  PROVE (now + 1 + s) \div d = q
  <2> HIDE DEF p, q
  <2>1. p + 1 <= q /\ p + 1 \in Nat
    BY <1>2, <1>4
  <2>2. d * (p + 1) <= d * q /\ d * (p + 1) = d * p + d /\ d * q \in Nat /\ d * p \in Nat
    BY <1>1, <1>2, <2>1, ProductGrows
  <2>3. now + 1 = d * q
    BY <1>1, <1>2, <2>2
  <2>4. d * q <= now + 1 + s /\ now + 1 + s < d * q + d /\ now + 1 + s \in Nat
    BY <1>1, <2>2, <2>3
  <2>5. QED  BY <1>1, <1>2, <2>4, QuotientUnique
<1>5. UtcShift = 0 => now + UtcShift = now
  BY <1>1
<1>6. QED  BY <1>2, <1>3, <1>4, <1>5 DEF TodayLocalDate, UtcDate

-----------------------------------------------------------------------------
(* What one call may spend. *)

\* The caps a provider sends are one of two.
LEMMA CapType ==
  /\ Requested \in Nat \ {0} /\ Max({Requested, ThinkingMin}) \in Nat
  /\ Max({Requested, ThinkingMin}) >= Requested
<1>1. Requested \in Nat \ {0} /\ ThinkingMin \in Nat \ {0}
  BY ModelCallsAssumption
<1>2. \E x \in {Requested, ThinkingMin} : \A y \in {Requested, ThinkingMin} : x >= y
  BY <1>1
<1>3. Max({Requested, ThinkingMin}) \in {Requested, ThinkingMin}
      /\ \A y \in {Requested, ThinkingMin} : Max({Requested, ThinkingMin}) >= y
  BY <1>2 DEF Max
<1>4. QED  BY <1>1, <1>3

\* No model is given more than CallMax, which is at least what a request asks for.
LEMMA CallMaxBounds ==
  /\ CallMax \in Nat /\ CallMax >= Requested
  /\ \A m \in Models : AnthropicMaxTokens(m) \in Nat /\ AnthropicMaxTokens(m) <= CallMax
<1> DEFINE top == Max({Requested, ThinkingMin})
           caps == {AnthropicMaxTokens(m) : m \in Models}
<1>1. Requested \in Nat /\ top \in Nat /\ top >= Requested
  BY CapType
<1> HIDE DEF top
<1>2. \A m \in Models : AnthropicMaxTokens(m) \in {Requested, top}
  BY DEF AnthropicMaxTokens, top
<1>3. caps \subseteq {Requested, top} /\ caps # {}
  BY <1>2, ModelCallsAssumption
<1> HIDE DEF caps
<1>4. \E x \in caps : \A y \in caps : x >= y
  <2>1. CASE top \in caps
    <3>1. \A y \in caps : top >= y
      BY <1>1, <1>3
    <3>2. QED  BY <2>1, <3>1
  <2>2. CASE top \notin caps
    <3>1. \A y \in caps : Requested >= y
      BY <1>1, <1>3, <2>2
    <3>2. Requested \in caps
      BY <1>3, <2>2
    <3>3. QED  BY <3>1, <3>2
  <2>3. QED  BY <2>1, <2>2
<1>5. Max(caps) \in caps /\ \A y \in caps : Max(caps) >= y
  BY <1>4 DEF Max
<1>6. CallMax = Max(caps)
  BY DEF CallMax, caps
<1>7. \A m \in Models : AnthropicMaxTokens(m) \in caps
  BY DEF caps
<1>8. QED  BY <1>1, <1>2, <1>3, <1>5, <1>6, <1>7

\* The number of calls.
N == Cardinality(Calls)

\* There is at least one.
LEMMA CallsCount == N \in Nat /\ N >= 1
  BY CallsAssumption, FS_CardinalityType, FS_EmptySet DEF N

-----------------------------------------------------------------------------
(* The inductive invariant. *)

CallType == [pc : {"idle", "daily", "attempt", "upsertDaily", "upsertHourly"},
             session : Sessions \cup {None}, model : Models \cup {None},
             other : Models \cup {None}, n : 0..3, tokens : Nat]

\* What a call holds at each of its steps.
Holds(w) ==
  /\ w.pc \in {"daily", "attempt"} => w.session \in Sessions
  /\ w.pc = "attempt" => w.model \in Models /\ w.other \in Models /\ w.n \in 1..3
  /\ w.pc \in {"upsertDaily", "upsertHourly"} => w.model \in Models
  /\ w.pc = "upsertDaily" => w.tokens <= CallMax

CallsHold == \A c \in Calls : Holds(call[c])

\* Only the attempt under way has been heard, and nothing before the first one.
VoicesOK ==
  \A c \in Calls :
    /\ call[c].pc \in {"idle", "daily"} => voices[c] = {}
    /\ call[c].pc = "attempt" => voices[c] \subseteq {call[c].n}
    /\ \E k \in 1..3 : voices[c] \subseteq {k}

\* The attempts that calls past the kill switch may still begin.
AttemptsLeft ==
  {a \in Calls \X (1..3) : \/ call[a[1]].pc = "daily"
                           \/ call[a[1]].pc = "attempt" /\ a[2] > call[a[1]].n}

\* During a pause every attempt that begins uses up one of those.
PauseCounts ==
  /\ active => late + Cardinality(AttemptsLeft) <= 3 * N
  /\ ~active => late = 0

\* Calls past the check of the day whose usage is not in its row yet.
Spending == {c \in Calls : call[c].pc \in {"attempt", "upsertDaily"}}

\* The row of today leaves room for what they may add; later rows are empty.
DayHasRoom ==
  /\ daily[TodayLocalDate].tokens + CallMax * Cardinality(Spending)
       <= DailyMaxTokens - 1 + CallMax * N
  /\ \A d \in Days : d > TodayLocalDate => daily[d].tokens = 0

\* Calls of a session past its check that have not been added to it.
InSession(s) == {c \in Calls : call[c].session = s /\ call[c].pc \in {"daily", "attempt"}}

SessionsHaveRoom ==
  \A s \in Sessions : sessionUsage[s] + CallMax * Cardinality(InSession(s))
                        <= SessionMax - Requested + CallMax * N

\* While UTC is a day ahead what counts as announced was announced this local day.
AnnouncedToday ==
  /\ lastResetDate <= UtcDate
  /\ lastResetDate = UtcDate /\ (UtcShift = 0 \/ UtcDate # TodayLocalDate) => notified \subseteq told

CallsInv ==
  /\ TypeOK /\ CallsHold /\ VoicesOK /\ PauseCounts /\ DayHasRoom /\ DailyOvershootBounded
  /\ SessionsHaveRoom /\ AnnouncedToday


-----------------------------------------------------------------------------
(* The counted sets. *)

\* Every set of calls is finite and no larger than N.
LEMMA CallSets ==
  ASSUME NEW S, S \subseteq Calls
  PROVE  IsFiniteSet(S) /\ Cardinality(S) \in Nat /\ Cardinality(S) <= N
  BY CallsAssumption, FS_Subset, FS_CardinalityType DEF N

\* So a set of calls that shrinks has room for no more than before.
LEMMA FewerCalls ==
  ASSUME NEW S, NEW T, S \subseteq T, T \subseteq Calls
  PROVE  /\ Cardinality(S) \in Nat /\ Cardinality(T) \in Nat /\ Cardinality(S) <= Cardinality(T)
         /\ Cardinality(T) <= N
         /\ CallMax * Cardinality(S) <= CallMax * Cardinality(T)
         /\ CallMax * Cardinality(T) <= CallMax * N
         /\ CallMax * Cardinality(S) \in Nat /\ CallMax * Cardinality(T) \in Nat /\ CallMax * N \in Nat
<1>1. IsFiniteSet(T) /\ Cardinality(T) \in Nat /\ Cardinality(T) <= N /\ N \in Nat
  BY CallSets, CallsCount
<1>2. Cardinality(S) \in Nat /\ Cardinality(S) <= Cardinality(T)
  BY <1>1, FS_Subset, FS_CardinalityType
<1>3. CallMax \in Nat
  BY CallMaxBounds
<1>4. QED  BY <1>1, <1>2, <1>3, ProductGrows

\* And one that loses a call has room for what that call may spend.
LEMMA OneCallLess ==
  ASSUME NEW T, T \subseteq Calls, NEW c \in T
  PROVE  CallMax * Cardinality(T \ {c}) = CallMax * Cardinality(T) - CallMax
<1>1. IsFiniteSet(T) /\ Cardinality(T) \in Nat
  BY CallSets
<1>2. Cardinality(T \ {c}) = Cardinality(T) - 1
  BY <1>1, FS_RemoveElement
<1>3. Cardinality(T \ {c}) \in Nat
  BY <1>1, FS_RemoveElement, FS_CardinalityType
<1>4. Cardinality(T) >= 1
  BY <1>1, <1>2, <1>3
<1>5. CallMax \in Nat
  BY CallMaxBounds
<1>6. CallMax * (Cardinality(T) - 1) = CallMax * Cardinality(T) - CallMax
  BY <1>1, <1>4, <1>5, ProductLess
<1>7. QED  BY <1>2, <1>6

\* The attempts of all calls are three times N.
LEMMA AttemptSets ==
  ASSUME NEW S, S \subseteq Calls \X (1..3)
  PROVE  IsFiniteSet(S) /\ Cardinality(S) \in Nat /\ Cardinality(S) <= 3 * N
<1>1. IsFiniteSet(1..3) /\ Cardinality(1..3) = 3
  <2>1. 1 \in Int /\ 3 \in Int
    OBVIOUS
  <2>2. IsFiniteSet(1..3) /\ Cardinality(1..3) = IF 1 > 3 THEN 0 ELSE 3 - 1 + 1
    BY <2>1, FS_Interval, Zenon
  <2>3. QED  BY <2>2
<1>2. IsFiniteSet(Calls \X (1..3)) /\ Cardinality(Calls \X (1..3)) = N * 3
  BY <1>1, CallsAssumption, FS_Product DEF N
<1>3. IsFiniteSet(S) /\ Cardinality(S) \in Nat /\ Cardinality(S) <= N * 3
  BY <1>2, FS_Subset, FS_CardinalityType
<1>4. N * 3 = 3 * N
  BY CallsCount
<1>5. QED  BY <1>3, <1>4

\* A set of attempts that shrinks, and one that loses an attempt.
LEMMA FewerAttempts ==
  ASSUME NEW S, NEW T, S \subseteq T, T \subseteq Calls \X (1..3)
  PROVE  /\ Cardinality(S) \in Nat /\ Cardinality(T) \in Nat /\ Cardinality(S) <= Cardinality(T)
         /\ \A a \in T \ S : Cardinality(S) + 1 <= Cardinality(T)
<1>1. IsFiniteSet(T) /\ Cardinality(T) \in Nat /\ IsFiniteSet(S) /\ Cardinality(S) \in Nat
  BY AttemptSets
<1>2. Cardinality(S) <= Cardinality(T)
  BY <1>1, FS_Subset
<1>3. ASSUME NEW a \in T \ S  PROVE Cardinality(S) + 1 <= Cardinality(T)
  <2>1. S \subseteq T \ {a} /\ IsFiniteSet(T \ {a}) /\ Cardinality(T \ {a}) = Cardinality(T) - 1
    BY <1>1, <1>3, FS_RemoveElement
  <2>2. Cardinality(S) <= Cardinality(T \ {a})
    BY <2>1, FS_Subset
  <2>3. QED  BY <1>1, <2>1, <2>2
<1>4. QED  BY <1>1, <1>2, <1>3

-----------------------------------------------------------------------------
(* What a step that moves one call leaves alone. *)

\* Only the call c changes.
Moves(c) == call' \in [Calls -> CallType] /\ \A x \in Calls \ {c} : call'[x] = call[x]

\* The calls are records of CallType.
LEMMA CallsTyped == ASSUME TypeOK  PROVE call \in [Calls -> CallType] /\ \A c \in Calls : call[c] \in CallType
  BY DEF TypeOK, CallType

\* The idle record.
LEMMA IdleType == Idle \in CallType /\ Idle.pc = "idle" /\ Holds(Idle)
  BY DEF Idle, CallType, Holds

\* A call that settles, or goes on to another record.
LEMMA MovesTo ==
  ASSUME TypeOK, NEW c \in Calls, NEW w \in CallType, call' = [call EXCEPT ![c] = w]
  PROVE  Moves(c) /\ call'[c] = w
<1>1. call \in [Calls -> CallType]
  BY CallsTyped
<1>2. QED  BY <1>1 DEF Moves

\* The other calls hold what they held.
LEMMA HoldsStep ==
  ASSUME CallsHold, NEW c \in Calls, Moves(c), Holds(call'[c])
  PROVE  CallsHold'
<1> SUFFICES ASSUME NEW x \in Calls  PROVE Holds(call'[x])
  BY DEF CallsHold, Holds
<1>1. CASE x = c  BY <1>1
<1>2. CASE x # c  BY <1>2 DEF Moves, CallsHold
<1>3. QED  BY <1>1, <1>2

\* The voices of one call.
VoiceOK(w, v) ==
  /\ w.pc \in {"idle", "daily"} => v = {}
  /\ w.pc = "attempt" => v \subseteq {w.n}
  /\ \E k \in 1..3 : v \subseteq {k}

\* VoicesOK is that of every call.
LEMMA VoicesStep ==
  ASSUME VoicesOK, NEW c \in Calls, Moves(c), VoiceOK(call'[c], voices'[c]),
         \A x \in Calls \ {c} : voices'[x] = voices[x]
  PROVE  VoicesOK'
<1>1. ASSUME NEW x \in Calls  PROVE VoiceOK(call'[x], voices'[x])
  <2>1. CASE x = c  BY <2>1
  <2>2. CASE x # c
    <3>1. VoiceOK(call[x], voices[x])
      BY DEF VoicesOK, VoiceOK
    <3>2. call'[x] = call[x] /\ voices'[x] = voices[x]
      BY <2>2 DEF Moves
    <3>3. QED  BY <3>1, <3>2
  <2>3. QED  BY <2>1, <2>2
<1>2. QED  BY <1>1 DEF VoicesOK, VoiceOK

\* A pause counts on when no attempt was begun and none was added.
LEMMA PauseShrinks ==
  ASSUME PauseCounts, late \in Nat, active' = active, late' = late, AttemptsLeft' \subseteq AttemptsLeft
  PROVE  PauseCounts'
<1>1. AttemptsLeft \subseteq Calls \X (1..3)
  BY DEF AttemptsLeft
<1>2. Cardinality(AttemptsLeft') \in Nat /\ Cardinality(AttemptsLeft) \in Nat
      /\ Cardinality(AttemptsLeft') <= Cardinality(AttemptsLeft) /\ N \in Nat
  BY <1>1, FewerAttempts, CallsCount
<1>3. active => late + Cardinality(AttemptsLeft') <= 3 * N
  BY <1>2 DEF PauseCounts
<1>4. QED  BY <1>3 DEF PauseCounts, N

\* And when one was begun that was still to begin.
LEMMA PauseSpends ==
  ASSUME PauseCounts, late \in Nat, active' = active, CountLate, AttemptsLeft' \subseteq AttemptsLeft,
         NEW a \in AttemptsLeft, a \notin AttemptsLeft'
  PROVE  PauseCounts' /\ late' \in Nat
<1>1. AttemptsLeft \subseteq Calls \X (1..3)
  BY DEF AttemptsLeft
<1>2. Cardinality(AttemptsLeft') \in Nat /\ Cardinality(AttemptsLeft) \in Nat
      /\ Cardinality(AttemptsLeft') + 1 <= Cardinality(AttemptsLeft) /\ N \in Nat
  BY <1>1, FewerAttempts, CallsCount
<1>3. late' = IF active THEN late + 1 ELSE late
  BY DEF CountLate
<1>4. active => late' + Cardinality(AttemptsLeft') <= 3 * N
  BY <1>2, <1>3 DEF PauseCounts
<1>5. ~active => late' = 0
  BY <1>3 DEF PauseCounts
<1>6. QED  BY <1>3, <1>4, <1>5 DEF PauseCounts, N

\* The types the room of a day is computed with.
LEMMA DayTypes ==
  ASSUME TypeOK
  PROVE  /\ now \in Hours /\ TodayLocalDate \in Days /\ TodayLocalDate \in Nat
         /\ daily \in [Days -> [tokens : Nat, cost : Nat]]
         /\ \A d \in Days : d \in Nat /\ daily[d] \in [tokens : Nat, cost : Nat]
                            /\ daily[d].tokens \in Nat /\ daily[d].cost \in Nat
         /\ DailyMaxTokens \in Nat \ {0} /\ DailyMaxUsd \in Nat \ {0}
<1>1. now \in Hours /\ daily \in [Days -> [tokens : Nat, cost : Nat]]
  BY DEF TypeOK, BudgetTypeOK
<1>2. Days \subseteq Nat
  BY DEF Days
<1>3. QED  BY <1>1, <1>2, DateTypes, BudgetAssumption

\* The rows are the same and no call was let through.
LEMMA DayShrinks ==
  ASSUME TypeOK, DayHasRoom, DailyOvershootBounded, now' = now, daily' = daily, Spending' \subseteq Spending
  PROVE  DayHasRoom' /\ DailyOvershootBounded'
<1>1. TodayLocalDate' = TodayLocalDate
  BY DEF TodayLocalDate
<1>2. Spending \subseteq Calls
  BY DEF Spending
<1>3. CallMax * Cardinality(Spending') <= CallMax * Cardinality(Spending)
      /\ CallMax * Cardinality(Spending') \in Nat /\ CallMax * Cardinality(Spending) \in Nat
      /\ CallMax * N \in Nat
  BY <1>2, FewerCalls
<1> DEFINE x == CallMax * Cardinality(Spending)
           y == CallMax * Cardinality(Spending')
           z == CallMax * N
           t == daily[TodayLocalDate].tokens
<1>4. t \in Nat /\ DailyMaxTokens \in Nat
  BY DayTypes
<1>5. t + x <= DailyMaxTokens - 1 + z
  BY DEF DayHasRoom
<1>6. t + y <= DailyMaxTokens - 1 + z
  <2> HIDE DEF x, y, z, t
  <2>1. x \in Nat /\ y \in Nat /\ z \in Nat /\ y <= x
    BY <1>3 DEF x, y, z
  <2>2. QED  BY <1>4, <1>5, <2>1
<1>7. \A d \in Days : d > TodayLocalDate => daily[d].tokens = 0
  BY DEF DayHasRoom
<1>8. DayHasRoom'
  BY <1>1, <1>6, <1>7 DEF DayHasRoom, N
<1>9. DailyOvershootBounded'
  BY DEF DailyOvershootBounded
<1>10. QED  BY <1>8, <1>9

\* No usage was added and no call was let through.
LEMMA SessionsShrink ==
  ASSUME TypeOK, SessionsHaveRoom, sessionUsage' = sessionUsage,
         \A s \in Sessions : InSession(s)' \subseteq InSession(s)
  PROVE  SessionsHaveRoom'
<1> SUFFICES ASSUME NEW s \in Sessions
             PROVE  sessionUsage[s] + CallMax * Cardinality(InSession(s)')
                      <= SessionMax - Requested + CallMax * N
  BY DEF SessionsHaveRoom, N
<1>1. InSession(s) \subseteq Calls
  BY DEF InSession
<1>2. CallMax * Cardinality(InSession(s)') <= CallMax * Cardinality(InSession(s))
      /\ CallMax * Cardinality(InSession(s)') \in Nat /\ CallMax * Cardinality(InSession(s)) \in Nat
      /\ CallMax * N \in Nat
  BY <1>1, FewerCalls
<1>3. sessionUsage[s] \in Nat /\ SessionMax \in Nat /\ Requested \in Nat
  BY BudgetAssumption, ModelCallsAssumption DEF TypeOK, BudgetTypeOK
<1>4. sessionUsage[s] + CallMax * Cardinality(InSession(s)) <= SessionMax - Requested + CallMax * N
  BY DEF SessionsHaveRoom
<1>5. QED  BY <1>2, <1>3, <1>4

\* The clock and the monitor's memory are the same.
LEMMA AnnouncedSame ==
  ASSUME AnnouncedToday, now' = now, lastResetDate' = lastResetDate, notified' = notified, told' = told
  PROVE  AnnouncedToday'
  BY DEF AnnouncedToday, UtcDate, TodayLocalDate

-----------------------------------------------------------------------------
(* The steps of a call. *)

\* Moving one call can only take it out of a counted set, if it was in it or is not in it after.
LEMMA SetsShrink ==
  ASSUME TypeOK, NEW c \in Calls, Moves(c)
  PROVE  /\ (call'[c].pc \in {"attempt", "upsertDaily"} => call[c].pc \in {"attempt", "upsertDaily"})
              => Spending' \subseteq Spending
         /\ (call'[c].pc \in {"daily", "attempt"} =>
               call[c].pc \in {"daily", "attempt"} /\ call'[c].session = call[c].session)
              => \A s \in Sessions : InSession(s)' \subseteq InSession(s)
         /\ (call'[c].pc \notin {"daily", "attempt"}) => AttemptsLeft' \subseteq AttemptsLeft
<1>1. ASSUME call'[c].pc \in {"attempt", "upsertDaily"} => call[c].pc \in {"attempt", "upsertDaily"},
             NEW x \in Spending'
      PROVE  x \in Spending
  BY <1>1 DEF Spending, Moves
<1>2. ASSUME call'[c].pc \in {"daily", "attempt"} =>
               call[c].pc \in {"daily", "attempt"} /\ call'[c].session = call[c].session,
             NEW s \in Sessions, NEW x \in InSession(s)'
      PROVE  x \in InSession(s)
  BY <1>2 DEF InSession, Moves
<1>3. ASSUME call'[c].pc \notin {"daily", "attempt"}, NEW a \in AttemptsLeft'
      PROVE  a \in AttemptsLeft
  <2>1. a \in Calls \X (1..3) /\ a[1] \in Calls
    BY DEF AttemptsLeft
  <2>2. a[1] # c
    BY <1>3 DEF AttemptsLeft
  <2>3. call'[a[1]] = call[a[1]]
    BY <2>1, <2>2 DEF Moves
  <2>4. QED  BY <2>1, <2>3 DEF AttemptsLeft
<1>4. QED  BY <1>1, <1>2, <1>3

\* The end of a call, whatever the reason, gives back the room it took.
LEMMA SettleStep ==
  ASSUME CallsInv, NEW c \in Calls, Settle(c), faults' \in 0..MaxFaults, hourly' \in [Hours -> Nat],
         UNCHANGED <<now, sessionUsage, daily, active, notified, lastResetDate, lastKill, told, late, spent>>
  PROVE  CallsInv'
<1> USE DEF CallsInv
<1>1. Moves(c) /\ call'[c] = Idle /\ voices' = [voices EXCEPT ![c] = {}]
  BY IdleType, MovesTo DEF Settle
<1>2. call'[c].pc = "idle"
  BY <1>1, IdleType
<1>3. TypeOK'
  BY <1>1 DEF TypeOK, BudgetTypeOK, Moves, CallType, Hours, Days, Thresholds
<1>4. CallsHold'
  BY <1>1, IdleType, HoldsStep
<1>5. voices'[c] = {} /\ \A x \in Calls \ {c} : voices'[x] = voices[x]
  BY <1>1 DEF TypeOK
<1>6. VoiceOK(call'[c], voices'[c])
  BY <1>2, <1>5 DEF VoiceOK
<1>7. VoicesOK'
  BY <1>1, <1>5, <1>6, VoicesStep
<1>8. AttemptsLeft' \subseteq AttemptsLeft /\ Spending' \subseteq Spending
      /\ \A s \in Sessions : InSession(s)' \subseteq InSession(s)
  BY <1>1, <1>2, SetsShrink
<1>9. now' = now /\ daily' = daily /\ sessionUsage' = sessionUsage /\ active' = active
      /\ lastResetDate' = lastResetDate /\ notified' = notified /\ told' = told /\ late' = late
  OBVIOUS
<1>10. PauseCounts'
  BY <1>8, <1>9, PauseShrinks DEF TypeOK
<1>11. DayHasRoom' /\ DailyOvershootBounded' /\ SessionsHaveRoom' /\ AnnouncedToday'
  BY <1>8, <1>9, DayShrinks, SessionsShrink, AnnouncedSame
<1>12. QED  BY <1>3, <1>4, <1>7, <1>10, <1>11

\* A call lets itself in only when its session has room for what it asks for.
LEMMA CheckKillStep ==
  ASSUME CallsInv, NEW c \in Calls, CheckKill(c)
  PROVE  CallsInv'
<1> USE DEF CallsInv
<1>1. PICK s \in Sessions : /\ ~WouldExceedSessionBudget(s, Requested)
                            /\ call' = [call EXCEPT ![c].pc = "daily", ![c].session = s]
  BY DEF CheckKill
<1>2. call \in [Calls -> CallType] /\ call[c] \in CallType /\ call[c].pc = "idle" /\ ~active
      /\ UNCHANGED <<budgetVars, voices, late, spent, faults>>
  BY CallsTyped DEF CheckKill
<1>3. call'[c] = [call[c] EXCEPT !.pc = "daily", !.session = s]
  BY <1>1, <1>2
<1>4. call'[c] \in CallType /\ call'[c].pc = "daily" /\ call'[c].session = s
  BY <1>2, <1>3 DEF CallType
<1>5. Moves(c)
  BY <1>1, <1>2, <1>4 DEF Moves
<1>6. TypeOK'
  BY <1>2, <1>5 DEF TypeOK, BudgetTypeOK, budgetVars, Moves, CallType, Hours, Days, Thresholds
<1>7. CallsHold'
  <2>1. Holds(call'[c])
    BY <1>4 DEF Holds
  <2>2. QED  BY <1>5, <2>1, HoldsStep
<1>8. VoicesOK'
  <2>1. voices[c] = {}
    BY <1>2 DEF VoicesOK
  <2>2. VoiceOK(call'[c], voices'[c])
    BY <1>2, <1>4, <2>1 DEF VoiceOK
  <2>3. QED  BY <1>2, <1>5, <2>2, VoicesStep
<1>9. now' = now /\ daily' = daily /\ sessionUsage' = sessionUsage /\ active' = active
      /\ lastResetDate' = lastResetDate /\ notified' = notified /\ told' = told /\ late' = late
  BY <1>2 DEF budgetVars
<1>10. PauseCounts'
  BY <1>2, <1>9 DEF PauseCounts
<1>11. Spending' \subseteq Spending
  BY <1>4, <1>5, SetsShrink
<1>12. DayHasRoom' /\ DailyOvershootBounded' /\ AnnouncedToday'
  BY <1>9, <1>11, DayShrinks, AnnouncedSame
<1>13. SessionsHaveRoom'
  <2> SUFFICES ASSUME NEW t \in Sessions
               PROVE  sessionUsage[t] + CallMax * Cardinality(InSession(t)')
                        <= SessionMax - Requested + CallMax * N
    BY <1>9 DEF SessionsHaveRoom, N
  <2>1. sessionUsage[t] \in Nat /\ SessionMax \in Nat /\ Requested \in Nat
    BY BudgetAssumption, ModelCallsAssumption DEF TypeOK, BudgetTypeOK
  <2>2. CASE t = s
    <3>1. sessionUsage[t] <= SessionMax - Requested
      BY <1>1, <2>1, <2>2 DEF WouldExceedSessionBudget
    <3>2. InSession(t)' \subseteq Calls
      BY DEF InSession
    <3>3. CallMax * Cardinality(InSession(t)') <= CallMax * N
          /\ CallMax * Cardinality(InSession(t)') \in Nat /\ CallMax * N \in Nat
      BY <3>2, FewerCalls
    <3>4. QED  BY <2>1, <3>1, <3>3
  <2>3. CASE t # s
    <3>1. InSession(t)' = InSession(t)
      BY <1>2, <1>4, <1>5, <2>3 DEF InSession, Moves
    <3>2. QED  BY <3>1 DEF SessionsHaveRoom
  <2>4. QED  BY <2>2, <2>3
<1>14. QED  BY <1>6, <1>7, <1>8, <1>10, <1>12, <1>13

\* Ten tenths of a limit are the limit: a day that is not exhausted is below it.
LEMMA BelowLimit ==
  ASSUME TypeOK, ~Exhausted
  PROVE  daily[TodayLocalDate].tokens <= DailyMaxTokens - 1
<1> DEFINE t == daily[TodayLocalDate].tokens
<1>1. DailyMaxTokens \in Nat /\ t \in Nat
  BY DayTypes
<1>2. Least(10, DailyMaxTokens) = DailyMaxTokens
  BY <1>1 DEF Least
<1>3. ~(t >= Least(10, DailyMaxTokens))
  BY DEF Exhausted, AtRatio, GetDailyUsage
<1>4. QED  BY <1>1, <1>2, <1>3

\* The models a call is routed to are models.
LEMMA RoutedToModels ==
  ASSUME NEW preference \in Models \cup {None}, NEW override \in Models \cup {None}, NEW degrade
  PROVE  /\ EffectivePrimary(preference, override) \in Models
         /\ SelectModel(EffectivePrimary(preference, override), degrade) \in Models
         /\ Fallback \in Models
  BY ModelCallsAssumption DEF EffectivePrimary, SelectModel

\* A call that begins its first attempt.
LEMMA FirstAttempt ==
  ASSUME TypeOK, NEW c \in Calls, NEW m \in Models, NEW o \in Models,
         call' = [call EXCEPT ![c].pc = "attempt", ![c].n = 1, ![c].model = m, ![c].other = o]
  PROVE  /\ Moves(c) /\ call'[c].pc = "attempt" /\ call'[c].n = 1 /\ call'[c].model = m
         /\ call'[c].other = o /\ call'[c].session = call[c].session
<1>1. call \in [Calls -> CallType] /\ call[c] \in CallType
  BY CallsTyped
<1>2. call[c].session \in Sessions \cup {None} /\ call[c].tokens \in Nat
  BY <1>1 DEF CallType
<1> DEFINE v == [pc |-> "attempt", session |-> call[c].session, model |-> m, other |-> o,
                 n |-> 1, tokens |-> call[c].tokens]
<1>4. call'[c] = v
  BY <1>1 DEF CallType
<1>5. v \in CallType
  BY <1>2 DEF CallType
<1>6. call' \in [Calls -> CallType]
  BY <1>1, <1>4, <1>5
<1>7. QED  BY <1>1, <1>4, <1>6 DEF Moves

\* A call gets past the daily check only below the limit, which leaves room for N calls.
LEMMA CheckDailyStep ==
  ASSUME CallsInv, NEW c \in Calls, CheckDaily(c)
  PROVE  CallsInv'
<1> USE DEF CallsInv
<1>1. CASE Settle(c) /\ UNCHANGED late
  <2>1. faults' \in 0..MaxFaults /\ hourly' \in [Hours -> Nat]
    BY DEF CheckDaily, TypeOK, BudgetTypeOK, budgetVars, Hours
  <2>2. QED  BY <1>1, <2>1, SettleStep DEF CheckDaily, budgetVars
<1>2. CASE /\ ~Exhausted /\ CountLate /\ UNCHANGED voices
           /\ \E m, o \in Models : call' = [call EXCEPT ![c].pc = "attempt", ![c].n = 1,
                                             ![c].model = m, ![c].other = o]
  <2>1. PICK m \in Models, o \in Models :
          call' = [call EXCEPT ![c].pc = "attempt", ![c].n = 1, ![c].model = m, ![c].other = o]
    BY <1>2
  <2>2. call \in [Calls -> CallType] /\ call[c] \in CallType /\ call[c].pc = "daily"
        /\ UNCHANGED <<budgetVars, spent, faults>>
    BY CallsTyped DEF CheckDaily
  <2>4. /\ call'[c].pc = "attempt" /\ call'[c].n = 1 /\ call'[c].model = m
        /\ call'[c].other = o /\ call'[c].session = call[c].session
    BY <2>1, FirstAttempt
  <2>5. Moves(c)
    BY <2>1, FirstAttempt
  <2>6. now' = now /\ daily' = daily /\ sessionUsage' = sessionUsage /\ active' = active
        /\ lastResetDate' = lastResetDate /\ notified' = notified /\ told' = told
    BY <2>2 DEF budgetVars
  <2>7. AttemptsLeft' \subseteq AttemptsLeft
    <3> SUFFICES ASSUME NEW a \in AttemptsLeft'  PROVE a \in AttemptsLeft
      OBVIOUS
    <3>1. a \in Calls \X (1..3) /\ a[1] \in Calls
      BY DEF AttemptsLeft
    <3>2. CASE a[1] = c
      BY <2>2, <3>1, <3>2 DEF AttemptsLeft
    <3>3. CASE a[1] # c
      <4>1. call'[a[1]] = call[a[1]]
        BY <2>5, <3>1, <3>3 DEF Moves
      <4>2. QED  BY <3>1, <4>1 DEF AttemptsLeft
    <3>4. QED  BY <3>2, <3>3
  <2>8. <<c, 1>> \in AttemptsLeft /\ <<c, 1>> \notin AttemptsLeft'
    BY <2>2, <2>4 DEF AttemptsLeft
  <2>9. PauseCounts' /\ late' \in Nat
    BY <1>2, <2>6, <2>7, <2>8, PauseSpends DEF TypeOK
  <2>10. TypeOK'
    BY <1>2, <2>2, <2>5, <2>9 DEF TypeOK, BudgetTypeOK, budgetVars, Moves, CallType, Hours, Days, Thresholds
  <2>11. CallsHold'
    <3>1. Holds(call'[c])
      BY <2>2, <2>4 DEF Holds, CallsHold
    <3>2. QED  BY <2>5, <3>1, HoldsStep
  <2>12. VoicesOK'
    <3>1. voices'[c] = {}
      BY <1>2, <2>2 DEF VoicesOK
    <3>2. VoiceOK(call'[c], voices'[c])
      BY <2>4, <3>1 DEF VoiceOK
    <3>3. QED  BY <1>2, <2>5, <3>2, VoicesStep
  <2>13. DayHasRoom' /\ DailyOvershootBounded'
    <3>1. Spending' \subseteq Calls
      BY DEF Spending
    <3>2. CallMax * Cardinality(Spending') <= CallMax * N
          /\ CallMax * Cardinality(Spending') \in Nat /\ CallMax * N \in Nat
      BY <3>1, FewerCalls
    <3>3. daily[TodayLocalDate].tokens <= DailyMaxTokens - 1 /\ daily[TodayLocalDate].tokens \in Nat
          /\ DailyMaxTokens \in Nat
      BY <1>2, BelowLimit, DayTypes
    <3>4. daily[TodayLocalDate].tokens + CallMax * Cardinality(Spending') <= DailyMaxTokens - 1 + CallMax * N
      BY <3>2, <3>3
    <3>5. TodayLocalDate' = TodayLocalDate
      BY <2>6 DEF TodayLocalDate
    <3>6. QED  BY <2>6, <3>4, <3>5 DEF DayHasRoom, DailyOvershootBounded, N
  <2>14. \A s \in Sessions : InSession(s)' \subseteq InSession(s)
    BY <2>2, <2>4, <2>5, SetsShrink
  <2>15. SessionsHaveRoom' /\ AnnouncedToday'
    BY <2>6, <2>14, SessionsShrink, AnnouncedSame
  <2>16. QED  BY <2>9, <2>10, <2>11, <2>12, <2>13, <2>15
<1>3. ASSUME ~Exhausted, CountLate, UNCHANGED voices,
             NEW preference \in Models \cup {None}, NEW override \in Models \cup {None}, NEW degrade \in BOOLEAN,
             LET primary == EffectivePrimary(preference, override)
                 selected == SelectModel(primary, degrade)
                 secondary == IF selected = primary THEN Fallback ELSE primary
             IN  call' = [call EXCEPT ![c].pc = "attempt", ![c].n = 1,
                            ![c].model = selected, ![c].other = secondary]
      PROVE  CallsInv'
  <2> DEFINE primary == EffectivePrimary(preference, override)
             selected == SelectModel(primary, degrade)
             secondary == IF selected = primary THEN Fallback ELSE primary
  <2>1. selected \in Models /\ secondary \in Models
    BY RoutedToModels
  <2>2. call' = [call EXCEPT ![c].pc = "attempt", ![c].n = 1, ![c].model = selected, ![c].other = secondary]
    BY <1>3
  <2> HIDE DEF primary, selected, secondary
  <2>3. QED  BY <1>2, <1>3, <2>1, <2>2
<1>4. QED  BY <1>1, <1>3 DEF CheckDaily

\* A delta is of the attempt under way.
LEMMA DeltaStep ==
  ASSUME CallsInv, NEW c \in Calls, Delta(c)
  PROVE  CallsInv'
<1> USE DEF CallsInv
<1>1. call' = call /\ call[c].pc = "attempt" /\ UNCHANGED <<budgetVars, late, spent, faults>>
      /\ voices' = [voices EXCEPT ![c] = @ \cup {call[c].n}]
  BY DEF Delta
<1>2. voices \in [Calls -> SUBSET (1..3)] /\ call \in [Calls -> CallType] /\ call[c].n \in 1..3
  BY <1>1, CallsTyped DEF TypeOK, CallsHold, Holds
<1>3. voices'[c] = voices[c] \cup {call[c].n} /\ \A x \in Calls \ {c} : voices'[x] = voices[x]
  BY <1>1, <1>2
<1>4. voices[c] \subseteq {call[c].n}
  BY <1>1 DEF VoicesOK
<1>5. VoiceOK(call'[c], voices'[c])
  BY <1>1, <1>2, <1>3, <1>4 DEF VoiceOK
<1>6. Moves(c)
  BY <1>1, <1>2 DEF Moves
<1>7. VoicesOK'
  BY <1>3, <1>5, <1>6, VoicesStep
<1>8. TypeOK'
  BY <1>1, <1>2 DEF TypeOK, BudgetTypeOK, budgetVars, Hours, Days, Thresholds
<1>9. CallsHold'
  BY <1>1 DEF CallsHold, Holds
<1>10. AttemptsLeft' = AttemptsLeft /\ Spending' = Spending
       /\ \A s \in Sessions : InSession(s)' = InSession(s)
  BY <1>1 DEF AttemptsLeft, Spending, InSession
<1>11. now' = now /\ daily' = daily /\ sessionUsage' = sessionUsage /\ active' = active
      /\ lastResetDate' = lastResetDate /\ notified' = notified /\ told' = told /\ late' = late
  BY <1>1 DEF budgetVars
<1>12. PauseCounts'
  BY <1>10, <1>11, PauseShrinks DEF TypeOK
<1>13. DayHasRoom' /\ DailyOvershootBounded' /\ SessionsHaveRoom' /\ AnnouncedToday'
  BY <1>10, <1>11, DayShrinks, SessionsShrink, AnnouncedSame
<1>14. QED  BY <1>7, <1>8, <1>9, <1>12, <1>13

\* The record of a call whose attempt resolved.
LEMMA ResolvedCall ==
  ASSUME TypeOK, NEW c \in Calls, NEW tokens \in Nat,
         call' = [call EXCEPT ![c].pc = "upsertDaily", ![c].tokens = tokens, ![c].other = None, ![c].n = 0]
  PROVE  /\ Moves(c) /\ call'[c].pc = "upsertDaily" /\ call'[c].tokens = tokens
         /\ call'[c].model = call[c].model
<1>1. call \in [Calls -> CallType] /\ call[c] \in CallType
  BY CallsTyped
<1>2. call[c].session \in Sessions \cup {None} /\ call[c].model \in Models \cup {None}
  BY <1>1 DEF CallType
<1> DEFINE v == [pc |-> "upsertDaily", session |-> call[c].session, model |-> call[c].model,
                 other |-> None, n |-> 0, tokens |-> tokens]
<1>4. call'[c] = v
  BY <1>1 DEF CallType
<1>5. v \in CallType
  BY <1>2 DEF CallType
<1>6. call' \in [Calls -> CallType]
  BY <1>1, <1>4, <1>5
<1>7. QED  BY <1>1, <1>4, <1>6 DEF Moves

\* What a call adds to its session is within the room it was counted with.
LEMMA AttemptSucceedsStep ==
  ASSUME CallsInv, NEW c \in Calls, AttemptSucceeds(c)
  PROVE  CallsInv'
<1> USE DEF CallsInv
<1>1. PICK tokens \in 1..AnthropicMaxTokens(call[c].model) :
        /\ call' = [call EXCEPT ![c].pc = "upsertDaily", ![c].tokens = tokens,
                                ![c].other = None, ![c].n = 0]
        /\ AddToSession(call[c].session, tokens)
        /\ spent' = spent + tokens
  BY DEF AttemptSucceeds
<1> DEFINE s == call[c].session
<1>2. call[c].pc = "attempt" /\ call[c].model \in Models /\ s \in Sessions /\ call[c].n \in 1..3
  BY DEF AttemptSucceeds, CallsHold, Holds
<1>3. tokens \in Nat /\ tokens <= CallMax /\ CallMax \in Nat
  BY <1>1, <1>2, CallMaxBounds
<1>4. Moves(c) /\ call'[c].pc = "upsertDaily" /\ call'[c].tokens = tokens
      /\ call'[c].model = call[c].model
  BY <1>1, <1>3, ResolvedCall
<1>5. sessionUsage \in [Sessions -> Nat] /\ sessionUsage' = [sessionUsage EXCEPT ![s] = @ + tokens]
  BY <1>1 DEF AddToSession, TypeOK, BudgetTypeOK
<1>6. now' = now /\ daily' = daily /\ active' = active /\ hourly' = hourly /\ lastKill' = lastKill
      /\ lastResetDate' = lastResetDate /\ notified' = notified /\ told' = told /\ late' = late
      /\ faults' = faults
  BY DEF AttemptSucceeds
<1>7. voices \in [Calls -> SUBSET (1..3)]
  BY DEF TypeOK
<1>8. /\ voices' = IF call[c].model \in Streaming THEN voices
                   ELSE [voices EXCEPT ![c] = @ \cup {call[c].n}]
  BY DEF AttemptSucceeds
<1>9. voices' \in [Calls -> SUBSET (1..3)] /\ voices'[c] \subseteq {call[c].n}
      /\ \A x \in Calls \ {c} : voices'[x] = voices[x]
  <2>1. voices[c] \subseteq {call[c].n}
    BY <1>2 DEF VoicesOK
  <2>2. QED  BY <1>2, <1>7, <1>8, <2>1
<1>10. TypeOK'
  <2>1. sessionUsage' \in [Sessions -> Nat]
    BY <1>2, <1>3, <1>5
  <2>2. spent' \in Nat
    BY <1>1, <1>3 DEF TypeOK
  <2>3. QED  BY <1>4, <1>6, <1>9, <2>1, <2>2
             DEF TypeOK, BudgetTypeOK, Moves, CallType, Hours, Days, Thresholds
<1>11. CallsHold'
  <2>1. Holds(call'[c])
    BY <1>2, <1>3, <1>4 DEF Holds
  <2>2. QED  BY <1>4, <2>1, HoldsStep
<1>12. VoicesOK'
  <2>1. VoiceOK(call'[c], voices'[c])
    BY <1>2, <1>4, <1>9 DEF VoiceOK
  <2>2. QED  BY <1>4, <1>9, <2>1, VoicesStep
<1>13. AttemptsLeft' \subseteq AttemptsLeft /\ Spending' \subseteq Spending
  BY <1>2, <1>4, SetsShrink
<1>14. PauseCounts' /\ DayHasRoom' /\ DailyOvershootBounded' /\ AnnouncedToday'
  BY <1>6, <1>13, PauseShrinks, DayShrinks, AnnouncedSame DEF TypeOK
<1>15. SessionsHaveRoom'
  <2> SUFFICES ASSUME NEW t \in Sessions
               PROVE  sessionUsage'[t] + CallMax * Cardinality(InSession(t)')
                        <= SessionMax - Requested + CallMax * N
    BY DEF SessionsHaveRoom, N
  <2>1. sessionUsage[t] + CallMax * Cardinality(InSession(t)) <= SessionMax - Requested + CallMax * N
    BY DEF SessionsHaveRoom
  <2>2. InSession(t) \subseteq Calls /\ sessionUsage[t] \in Nat /\ SessionMax \in Nat /\ Requested \in Nat
    BY <1>5, BudgetAssumption, ModelCallsAssumption DEF InSession
  <2>3. CallMax * Cardinality(InSession(t)) \in Nat /\ CallMax * N \in Nat
    BY <2>2, FewerCalls
  <2>4. CASE t = s
    <3>1. c \in InSession(t)
      BY <1>2, <2>4 DEF InSession
    <3>2. InSession(t)' = InSession(t) \ {c}
      BY <1>4, <2>4 DEF InSession, Moves
    <3>3. CallMax * Cardinality(InSession(t)') = CallMax * Cardinality(InSession(t)) - CallMax
      BY <2>2, <3>1, <3>2, OneCallLess
    <3>4. sessionUsage'[t] = sessionUsage[t] + tokens
      BY <1>5, <2>4
    <3>5. QED  BY <1>3, <2>1, <2>2, <2>3, <3>3, <3>4
  <2>5. CASE t # s
    <3>1. sessionUsage'[t] = sessionUsage[t]
      BY <1>5, <2>5
    <3>2. InSession(t)' = InSession(t)
      BY <1>2, <1>4, <2>5 DEF InSession, Moves
    <3>3. QED  BY <2>1, <3>1, <3>2
  <2>6. QED  BY <2>4, <2>5
<1>16. QED  BY <1>10, <1>11, <1>12, <1>14, <1>15

\* The record of a call whose attempt is tried again.
LEMMA RetriedCall ==
  ASSUME TypeOK, NEW c \in Calls, call[c].n \in 1..2, call[c].model \in Models, call[c].other \in Models,
         call[c].pc = "attempt",
         call' = [call EXCEPT ![c].n = @ + 1,
                              ![c].model = IF call[c].n = 2 THEN call[c].other ELSE @]
  PROVE  /\ Moves(c) /\ call'[c].pc = "attempt" /\ call'[c].n = call[c].n + 1
         /\ call'[c].model \in Models /\ call'[c].other = call[c].other
         /\ call'[c].session = call[c].session
<1>1. call \in [Calls -> CallType] /\ call[c] \in CallType
  BY CallsTyped
<1>2. call[c].session \in Sessions \cup {None} /\ call[c].tokens \in Nat
  BY <1>1 DEF CallType
<1>3. PICK m \in Models : m = IF call[c].n = 2 THEN call[c].other ELSE call[c].model
  OBVIOUS
<1> DEFINE v == [pc |-> "attempt", session |-> call[c].session, model |-> m,
                 other |-> call[c].other, n |-> call[c].n + 1, tokens |-> call[c].tokens]
<1>4. call'[c] = v
  BY <1>1, <1>3 DEF CallType
<1>5. v \in CallType
  BY <1>2 DEF CallType
<1>6. call' \in [Calls -> CallType]
  BY <1>1, <1>4, <1>5
<1>7. QED  BY <1>1, <1>4, <1>6 DEF Moves

\* A retry uses up an attempt, and follows only an attempt that was not heard.
LEMMA AttemptFailsStep ==
  ASSUME CallsInv, NEW c \in Calls, AttemptFails(c)
  PROVE  CallsInv'
<1> USE DEF CallsInv
<1>1. CASE Settle(c) /\ UNCHANGED late
  <2>1. faults' \in 0..MaxFaults /\ hourly' \in [Hours -> Nat]
    BY DEF AttemptFails, TypeOK, BudgetTypeOK, budgetVars, Hours
  <2>2. QED  BY <1>1, <2>1, SettleStep DEF AttemptFails, budgetVars
<1>2. CASE /\ ~Emitted(c) /\ call[c].n # 3 /\ CountLate /\ UNCHANGED voices
           /\ call' = [call EXCEPT ![c].n = @ + 1,
                                   ![c].model = IF call[c].n = 2 THEN call[c].other ELSE @]
  <2>1. call[c].pc = "attempt" /\ UNCHANGED <<budgetVars, spent, faults>>
    BY DEF AttemptFails
  <2>2. call[c].n \in 1..2 /\ call[c].model \in Models /\ call[c].other \in Models
        /\ call[c].session \in Sessions
    BY <1>2, <2>1 DEF CallsHold, Holds
  <2>3. /\ Moves(c) /\ call'[c].pc = "attempt" /\ call'[c].n = call[c].n + 1
        /\ call'[c].model \in Models /\ call'[c].other = call[c].other
        /\ call'[c].session = call[c].session
    BY <1>2, <2>1, <2>2, RetriedCall
  <2>4. now' = now /\ daily' = daily /\ sessionUsage' = sessionUsage /\ active' = active
        /\ lastResetDate' = lastResetDate /\ notified' = notified /\ told' = told
    BY <2>1 DEF budgetVars
  <2>5. AttemptsLeft' \subseteq AttemptsLeft
    <3> SUFFICES ASSUME NEW a \in AttemptsLeft'  PROVE a \in AttemptsLeft
      OBVIOUS
    <3>1. a \in Calls \X (1..3) /\ a[1] \in Calls /\ a[2] \in 1..3
      BY DEF AttemptsLeft
    <3>2. CASE a[1] = c
      <4>1. a[2] > call'[c].n
        BY <2>3, <3>2 DEF AttemptsLeft
      <4>2. a[2] > call[c].n
        BY <2>2, <2>3, <3>1, <4>1
      <4>3. QED  BY <2>1, <3>1, <3>2, <4>2 DEF AttemptsLeft
    <3>3. CASE a[1] # c
      <4>1. call'[a[1]] = call[a[1]]
        BY <2>3, <3>1, <3>3 DEF Moves
      <4>2. QED  BY <3>1, <4>1 DEF AttemptsLeft
    <3>4. QED  BY <3>2, <3>3
  <2>6. <<c, call[c].n + 1>> \in AttemptsLeft /\ <<c, call[c].n + 1>> \notin AttemptsLeft'
    BY <2>1, <2>2, <2>3 DEF AttemptsLeft
  <2>7. PauseCounts' /\ late' \in Nat
    BY <1>2, <2>4, <2>5, <2>6, PauseSpends DEF TypeOK
  <2>8. TypeOK'
    BY <1>2, <2>1, <2>3, <2>7 DEF TypeOK, BudgetTypeOK, budgetVars, Moves, CallType, Hours, Days, Thresholds
  <2>9. CallsHold'
    <3>1. Holds(call'[c])
      BY <2>2, <2>3 DEF Holds
    <3>2. QED  BY <2>3, <3>1, HoldsStep
  <2>10. VoicesOK'
    <3>1. voices'[c] = {}
      BY <1>2 DEF Emitted
    <3>2. VoiceOK(call'[c], voices'[c])
      BY <2>3, <3>1 DEF VoiceOK
    <3>3. QED  BY <1>2, <2>3, <3>2, VoicesStep
  <2>11. Spending' \subseteq Spending /\ \A s \in Sessions : InSession(s)' \subseteq InSession(s)
    BY <2>1, <2>3, SetsShrink
  <2>12. DayHasRoom' /\ DailyOvershootBounded' /\ SessionsHaveRoom' /\ AnnouncedToday'
    BY <2>4, <2>11, DayShrinks, SessionsShrink, AnnouncedSame
  <2>13. QED  BY <2>7, <2>8, <2>9, <2>10, <2>12
<1>3. QED  BY <1>1, <1>2 DEF AttemptFails

\* What a call adds to the row of the day is within the room it was counted with.
LEMMA RecordDailyStep ==
  ASSUME CallsInv, NEW c \in Calls, RecordDaily(c)
  PROVE  CallsInv'
<1> USE DEF CallsInv
<1> DEFINE tokens == call[c].tokens
           cost == call[c].tokens * Price[call[c].model]
           today == TodayLocalDate
<1>1. call \in [Calls -> CallType] /\ call[c] \in CallType /\ call[c].pc = "upsertDaily"
      /\ call' = [call EXCEPT ![c].pc = "upsertHourly"]
  BY CallsTyped DEF RecordDaily, Goto
<1>2. tokens \in Nat /\ tokens <= CallMax /\ CallMax \in Nat /\ call[c].model \in Models
  BY <1>1, CallMaxBounds DEF CallsHold, Holds, CallType
<1>3. cost \in Nat
  BY <1>2, ModelCallsAssumption
<1>4. today \in Days /\ daily \in [Days -> [tokens : Nat, cost : Nat]] /\ DailyMaxTokens \in Nat
      /\ daily[today].tokens \in Nat /\ daily[today].cost \in Nat
  BY DayTypes
<1>5. daily' = [daily EXCEPT ![today] = [tokens |-> daily[today].tokens + tokens,
                                         cost |-> daily[today].cost + cost]]
  BY <1>4 DEF RecordDaily, UpsertDaily
<1> HIDE DEF cost
<1>6. daily' \in [Days -> [tokens : Nat, cost : Nat]]
      /\ daily'[today].tokens = daily[today].tokens + tokens
      /\ \A d \in Days \ {today} : daily'[d] = daily[d]
  BY <1>2, <1>3, <1>4, <1>5
<1>7. Moves(c) /\ call'[c].pc = "upsertHourly" /\ call'[c].model = call[c].model
  <2>1. call'[c] = [call[c] EXCEPT !.pc = "upsertHourly"]
    BY <1>1
  <2>2. call'[c] \in CallType /\ call'[c].pc = "upsertHourly" /\ call'[c].model = call[c].model
    BY <1>1, <2>1 DEF CallType
  <2>3. QED  BY <1>1, <2>2 DEF Moves
<1>8. now' = now /\ sessionUsage' = sessionUsage /\ active' = active /\ hourly' = hourly
      /\ lastKill' = lastKill /\ lastResetDate' = lastResetDate /\ notified' = notified
      /\ told' = told /\ late' = late /\ faults' = faults /\ spent' = spent /\ voices' = voices
  BY DEF RecordDaily
<1>9. TypeOK'
  BY <1>6, <1>7, <1>8 DEF TypeOK, BudgetTypeOK, Moves, CallType, Hours, Days, Thresholds
<1>10. CallsHold'
  <2>1. Holds(call'[c])
    BY <1>2, <1>7 DEF Holds
  <2>2. QED  BY <1>7, <2>1, HoldsStep
<1>11. VoicesOK'
  <2>1. VoiceOK(call'[c], voices'[c])
    BY <1>7, <1>8 DEF VoiceOK, VoicesOK
  <2>2. QED  BY <1>7, <1>8, <2>1, VoicesStep
<1>12. AttemptsLeft' \subseteq AttemptsLeft /\ \A s \in Sessions : InSession(s)' \subseteq InSession(s)
  BY <1>7, SetsShrink
<1>13. PauseCounts' /\ SessionsHaveRoom' /\ AnnouncedToday'
  BY <1>8, <1>12, PauseShrinks, SessionsShrink, AnnouncedSame DEF TypeOK
<1>14. TodayLocalDate' = today
  BY <1>8 DEF TodayLocalDate
<1>15. CallMax * Cardinality(Spending') = CallMax * Cardinality(Spending) - CallMax
       /\ CallMax * Cardinality(Spending) \in Nat /\ CallMax * N \in Nat
       /\ CallMax * Cardinality(Spending') \in Nat
  <2>1. c \in Spending /\ Spending \subseteq Calls
    BY <1>1 DEF Spending
  <2>2. Spending' = Spending \ {c}
    BY <1>7 DEF Spending, Moves
  <2>3. QED  BY <2>1, <2>2, OneCallLess, FewerCalls
<1>16. daily[today].tokens + CallMax * Cardinality(Spending) <= DailyMaxTokens - 1 + CallMax * N
  BY DEF DayHasRoom
<1>17. daily'[today].tokens + CallMax * Cardinality(Spending') <= DailyMaxTokens - 1 + CallMax * N
  BY <1>2, <1>4, <1>6, <1>15, <1>16
<1>18. \A d \in Days : d > today => daily'[d].tokens = 0
  <2> SUFFICES ASSUME NEW d \in Days, d > today  PROVE daily'[d].tokens = 0
    OBVIOUS
  <2>1. d # today
    BY DayTypes
  <2>2. QED  BY <1>6, <2>1 DEF DayHasRoom
<1>19. DayHasRoom'
  BY <1>14, <1>17, <1>18 DEF DayHasRoom, N
<1>20. DailyOvershootBounded'
  <2> SUFFICES ASSUME NEW d \in Days
               PROVE  daily'[d].tokens <= DailyMaxTokens - 1 + CallMax * N
    BY DEF DailyOvershootBounded, N
  <2>1. CASE d = today
    <3>1. daily'[today].tokens \in Nat
      BY <1>2, <1>4, <1>6
    <3>2. QED  BY <1>4, <1>15, <1>17, <2>1, <3>1
  <2>2. CASE d # today
    BY <1>6, <2>2 DEF DailyOvershootBounded, N
  <2>3. QED  BY <2>1, <2>2
<1>21. QED  BY <1>9, <1>10, <1>11, <1>13, <1>19, <1>20

\* The last upsert ends the call.
LEMMA RecordHourlyStep ==
  ASSUME CallsInv, NEW c \in Calls, RecordHourly(c)
  PROVE  CallsInv'
<1> USE DEF CallsInv
<1>1. call[c].tokens \in Nat
  BY CallsTyped DEF CallType
<1>2. hourly \in [Hours -> Nat] /\ now \in Hours
  BY DEF TypeOK, BudgetTypeOK
<1>3. hourly' = [hourly EXCEPT ![now] = @ + call[c].tokens]
  BY DEF RecordHourly, UpsertHourly, CurrentHourBucket
<1>4. hourly' \in [Hours -> Nat]
  BY <1>1, <1>2, <1>3
<1>5. faults' \in 0..MaxFaults
  BY DEF RecordHourly, TypeOK
<1>6. QED  BY <1>4, <1>5, SettleStep DEF RecordHourly

\* A query that fails ends it too.
LEMMA QueryFailsStep ==
  ASSUME CallsInv, NEW c \in Calls, QueryFails(c)
  PROVE  CallsInv'
<1> USE DEF CallsInv
<1>1. faults' \in 0..MaxFaults
  BY ModelCallsAssumption DEF QueryFails, TypeOK
<1>2. hourly' \in [Hours -> Nat]
  BY DEF QueryFails, TypeOK, BudgetTypeOK, budgetVars, Hours
<1>3. QED  BY <1>1, <1>2, SettleStep DEF QueryFails, budgetVars

-----------------------------------------------------------------------------
(* The rest of the process. *)

\* The calls, their voices and the ledgers stay as they are.
LEMMA CallsStay ==
  ASSUME CallsInv, UNCHANGED <<call, voices, sessionUsage, daily, now>>
  PROVE  /\ CallsHold' /\ VoicesOK' /\ DayHasRoom' /\ DailyOvershootBounded' /\ SessionsHaveRoom'
         /\ AttemptsLeft' = AttemptsLeft
<1> USE DEF CallsInv
<1>1. CallsHold' /\ VoicesOK' /\ AttemptsLeft' = AttemptsLeft
  BY DEF CallsHold, Holds, VoicesOK, AttemptsLeft
<1>2. Spending' = Spending /\ \A s \in Sessions : InSession(s)' = InSession(s)
  BY DEF Spending, InSession
<1>3. QED  BY <1>1, <1>2, DayShrinks, SessionsShrink

\* A pause begins with no attempt counted and at most three of each call to come.
LEMMA SweepStep ==
  ASSUME CallsInv, Sweep
  PROVE  CallsInv'
<1> USE DEF CallsInv
<1>1. ~active /\ active' = TRUE
      /\ UNCHANGED <<now, sessionUsage, daily, hourly, notified, lastResetDate, lastKill, told, callVars>>
  BY DEF Sweep, CheckRunaway
<1>2. CallsHold' /\ VoicesOK' /\ DayHasRoom' /\ DailyOvershootBounded' /\ SessionsHaveRoom'
      /\ AttemptsLeft' = AttemptsLeft
  BY <1>1, CallsStay DEF callVars
<1>3. AnnouncedToday'
  BY <1>1, AnnouncedSame
<1>4. TypeOK'
  BY <1>1 DEF TypeOK, BudgetTypeOK, callVars, Hours, Days, Thresholds
<1>5. AttemptsLeft \subseteq Calls \X (1..3)
  BY DEF AttemptsLeft
<1>6. Cardinality(AttemptsLeft) \in Nat /\ Cardinality(AttemptsLeft) <= 3 * N
  BY <1>5, AttemptSets
<1>7. late' = 0
  BY <1>1 DEF PauseCounts, callVars
<1>8. PauseCounts'
  BY <1>1, <1>2, <1>6, <1>7 DEF PauseCounts, N
<1>9. QED  BY <1>2, <1>3, <1>4, <1>8

\* The owner ends the pause.
LEMMA OwnerStep ==
  ASSUME CallsInv, Owner
  PROVE  CallsInv'
<1> USE DEF CallsInv
<1>1. active' = FALSE /\ late' = 0
      /\ UNCHANGED <<now, sessionUsage, daily, hourly, notified, lastResetDate, lastKill, told,
                     call, voices, spent, faults>>
  BY DEF Owner, Unpause
<1>2. CallsHold' /\ VoicesOK' /\ DayHasRoom' /\ DailyOvershootBounded' /\ SessionsHaveRoom'
  BY <1>1, CallsStay
<1>3. AnnouncedToday'
  BY <1>1, AnnouncedSame
<1>4. TypeOK'
  BY <1>1 DEF TypeOK, BudgetTypeOK, Hours, Days, Thresholds
<1>5. PauseCounts'
  BY <1>1 DEF PauseCounts
<1>6. QED  BY <1>2, <1>3, <1>4, <1>5

\* What the monitor keeps, in the hours that matter, it announced during this local day.
LEMMA KeptWasTold ==
  ASSUME AnnouncedToday, UtcShift = 0 \/ UtcDate # TodayLocalDate
  PROVE  (IF UtcDate # lastResetDate THEN {} ELSE notified) \subseteq told
  BY DEF AnnouncedToday

\* A check of the monitor.
LEMMA MonitorStep ==
  ASSUME CallsInv, Monitor
  PROVE  CallsInv'
<1> USE DEF CallsInv
<1> DEFINE kept == IF UtcDate # lastResetDate THEN {} ELSE notified
           crossed == CrossedToday \ kept
<1>1. /\ lastKill' = active /\ notified' = kept \cup crossed /\ lastResetDate' = UtcDate
      /\ told' = told \cup crossed
      /\ UNCHANGED <<now, sessionUsage, daily, hourly, active, callVars>>
  BY DEF Monitor, MonitorCheck, CheckKillSwitch, CheckDailyThresholds
<1>2. CallsHold' /\ VoicesOK' /\ DayHasRoom' /\ DailyOvershootBounded' /\ SessionsHaveRoom'
      /\ AttemptsLeft' = AttemptsLeft
  BY <1>1, CallsStay DEF callVars
<1>3. kept \subseteq Thresholds /\ crossed \subseteq Thresholds /\ UtcDate \in Nat
  BY DayTypes, DateTypes DEF CrossedToday, TypeOK, BudgetTypeOK
<1>4. UtcDate' = UtcDate /\ TodayLocalDate' = TodayLocalDate
  BY <1>1 DEF UtcDate, TodayLocalDate
<1>5. UtcShift = 0 \/ UtcDate # TodayLocalDate => kept \subseteq told
  BY KeptWasTold
<1> HIDE DEF kept, crossed
<1>6. AnnouncedToday'
  <2>1. lastResetDate' <= UtcDate'
    BY <1>1, <1>3, <1>4
  <2>2. UtcShift = 0 \/ UtcDate # TodayLocalDate => notified' \subseteq told'
    BY <1>1, <1>5
  <2>3. QED  BY <1>4, <2>1, <2>2 DEF AnnouncedToday
<1>7. TypeOK'
  <2>1. notified' \subseteq Thresholds /\ told' \subseteq Thresholds
    BY <1>1, <1>3 DEF TypeOK, BudgetTypeOK
  <2>2. lastKill' \in BOOLEAN /\ lastResetDate' \in Nat
    BY <1>1, <1>3 DEF TypeOK, BudgetTypeOK
  <2>3. QED  BY <1>1, <2>1, <2>2 DEF TypeOK, BudgetTypeOK, callVars, Hours, Days, Thresholds
<1>8. PauseCounts'
  BY <1>1, <1>2, PauseShrinks DEF TypeOK, callVars
<1>9. QED  BY <1>2, <1>6, <1>7, <1>8

\* An hour passes: a new day begins with an empty row, and with nothing announced.
LEMMA ClockStep ==
  ASSUME CallsInv, Clock
  PROVE  CallsInv'
<1> USE DEF CallsInv
<1>1. now < MaxHour /\ now' = now + 1
      /\ told' = (IF TodayLocalDate' # TodayLocalDate THEN {} ELSE told)
      /\ UNCHANGED <<sessionUsage, daily, hourly, active, notified, lastResetDate, lastKill, callVars>>
  BY DEF Clock, Tick
<1>2. now \in Hours /\ TodayLocalDate \in Days /\ TodayLocalDate \in Nat /\ UtcDate \in Nat
  BY DayTypes, DateTypes
<1>3. now' \in Hours
  BY <1>1, <1>2, BudgetAssumption DEF Hours
<1>4. TodayLocalDate' \in Days /\ TodayLocalDate' \in Nat /\ UtcDate' \in Nat
  BY <1>3, HourTypes DEF TodayLocalDate, UtcDate
<1>5. TodayLocalDate <= TodayLocalDate' /\ UtcDate <= UtcDate'
      /\ (TodayLocalDate' # TodayLocalDate => UtcDate' = TodayLocalDate')
      /\ (UtcShift = 0 => UtcDate = TodayLocalDate)
  BY <1>1, <1>2, NextHour
<1>6. CallsHold' /\ VoicesOK' /\ AttemptsLeft' = AttemptsLeft /\ Spending' = Spending
      /\ DailyOvershootBounded' /\ \A s \in Sessions : InSession(s)' = InSession(s)
  BY <1>1 DEF callVars, CallsHold, Holds, VoicesOK, AttemptsLeft, Spending, InSession, DailyOvershootBounded
<1>7. SessionsHaveRoom' /\ PauseCounts'
  BY <1>1, <1>6, SessionsShrink, PauseShrinks DEF TypeOK, callVars
<1>8. TypeOK'
  BY <1>1, <1>3 DEF TypeOK, BudgetTypeOK, callVars, Hours, Days, Thresholds
<1>9. DayHasRoom'
  <2>1. \A d \in Days : d > TodayLocalDate' => daily[d].tokens = 0
    BY <1>2, <1>4, <1>5, DayTypes DEF DayHasRoom
  <2>2. daily[TodayLocalDate'].tokens + CallMax * Cardinality(Spending) <= DailyMaxTokens - 1 + CallMax * N
    <3>1. CASE TodayLocalDate' = TodayLocalDate
      BY <3>1 DEF DayHasRoom
    <3>2. CASE TodayLocalDate' # TodayLocalDate
      <4>1. daily[TodayLocalDate'].tokens = 0
        BY <1>2, <1>4, <1>5, <3>2 DEF DayHasRoom
      <4>2. Spending \subseteq Calls
        BY DEF Spending
      <4>3. CallMax * Cardinality(Spending) <= CallMax * N /\ CallMax * Cardinality(Spending) \in Nat
            /\ CallMax * N \in Nat
        BY <4>2, FewerCalls
      <4>4. DailyMaxTokens \in Nat \ {0}
        BY BudgetAssumption
      <4>5. QED  BY <4>1, <4>3, <4>4
    <3>3. QED  BY <3>1, <3>2
  <2>3. daily' = daily
    BY <1>1
  <2>4. QED  BY <1>6, <2>1, <2>2, <2>3 DEF DayHasRoom, N
<1>10. AnnouncedToday'
  <2>1. lastResetDate \in Int /\ lastResetDate <= UtcDate
    BY DEF AnnouncedToday, TypeOK, BudgetTypeOK, NoDate
  <2>2. lastResetDate' <= UtcDate'
    BY <1>1, <1>2, <1>4, <1>5, <2>1
  <2>3. ASSUME lastResetDate = UtcDate', UtcShift = 0 \/ UtcDate' # TodayLocalDate'
        PROVE  notified' \subseteq told'
    <3>1. UtcDate' = UtcDate /\ lastResetDate = UtcDate
      BY <1>2, <1>4, <1>5, <2>1, <2>3
    <3>2. TodayLocalDate' = TodayLocalDate
      BY <1>2, <1>4, <1>5, <2>3, <3>1
    <3>3. QED  BY <1>1, <2>3, <3>1, <3>2 DEF AnnouncedToday
  <2>4. QED  BY <1>1, <2>2, <2>3 DEF AnnouncedToday
<1>11. QED  BY <1>6, <1>7, <1>8, <1>9, <1>10

\* A restart ends every call and forgets the sessions and what was announced.
LEMMA RestartStep ==
  ASSUME CallsInv, Restart
  PROVE  CallsInv'
<1> USE DEF CallsInv
<1>1. /\ faults < MaxFaults /\ faults' = faults + 1
      /\ sessionUsage' = [s \in Sessions |-> 0] /\ notified' = {} /\ lastResetDate' = NoDate
      /\ lastKill' = FALSE /\ UNCHANGED <<now, daily, hourly, active, told, late, spent>>
      /\ call' = [c \in Calls |-> Idle] /\ voices' = [c \in Calls |-> {}]
  BY DEF Restart, BudgetRestart
<1>2. call' \in [Calls -> CallType] /\ \A c \in Calls : call'[c] = Idle /\ call'[c].pc = "idle"
      /\ Holds(call'[c]) /\ voices'[c] = {}
  BY <1>1, IdleType
<1>3. CallsHold' /\ VoicesOK'
  BY <1>2 DEF CallsHold, Holds, VoicesOK
<1>4. AttemptsLeft' \subseteq AttemptsLeft /\ Spending' \subseteq Spending
      /\ \A s \in Sessions : InSession(s)' = {}
  BY <1>2 DEF AttemptsLeft, Spending, InSession
<1>5. PauseCounts' /\ DayHasRoom' /\ DailyOvershootBounded'
  BY <1>1, <1>4, PauseShrinks, DayShrinks DEF TypeOK
<1>6. SessionsHaveRoom'
  <2> SUFFICES ASSUME NEW s \in Sessions
               PROVE  sessionUsage'[s] + CallMax * Cardinality(InSession(s)')
                        <= SessionMax - Requested + CallMax * N
    BY DEF SessionsHaveRoom, N
  <2>1. sessionUsage'[s] = 0 /\ Cardinality(InSession(s)') = 0
    BY <1>1, <1>4, FS_EmptySet
  <2>2. CallMax \in Nat /\ CallMax >= Requested /\ Requested \in Nat /\ SessionMax \in Nat
        /\ N \in Nat /\ N >= 1
    BY CallMaxBounds, CallsCount, CapType, BudgetAssumption
  <2>3. CallMax * 1 <= CallMax * N /\ CallMax * N \in Nat
    BY <2>2, ProductGrows
  <2>4. CallMax * 0 = 0 /\ CallMax * 1 = CallMax
    BY <2>2
  <2>5. QED  BY <2>1, <2>2, <2>3, <2>4
<1>7. AnnouncedToday'
  <2>1. UtcDate' = UtcDate /\ UtcDate \in Nat
    BY <1>1, DayTypes, DateTypes DEF UtcDate
  <2>2. QED  BY <1>1, <2>1 DEF AnnouncedToday, NoDate
<1>8. TypeOK'
  <2>1. faults' \in 0..MaxFaults
    BY <1>1, ModelCallsAssumption DEF TypeOK
  <2>2. sessionUsage' \in [Sessions -> Nat] /\ voices' \in [Calls -> SUBSET (1..3)]
    BY <1>1
  <2>3. QED  BY <1>1, <1>2, <2>1, <2>2 DEF TypeOK, BudgetTypeOK, CallType, Hours, Days, Thresholds
<1>9. QED  BY <1>3, <1>5, <1>6, <1>7, <1>8

-----------------------------------------------------------------------------
(* The theorems. *)

\* The first start.
LEMMA CallsInit == Init => CallsInv
<1> SUFFICES ASSUME Init  PROVE CallsInv
  OBVIOUS
<1>1. now \in Hours /\ now = FirstHour
  BY BudgetAssumption DEF Init, BudgetInit, Hours
<1>2. TodayLocalDate \in Days /\ UtcDate \in Nat
  BY <1>1, DateTypes
<1>3. call \in [Calls -> CallType] /\ \A c \in Calls : call[c] = Idle /\ call[c].pc = "idle"
      /\ Holds(call[c]) /\ voices[c] = {}
  BY IdleType DEF Init
<1>4. CallsHold /\ VoicesOK
  BY <1>3 DEF CallsHold, VoicesOK
<1>5. AttemptsLeft = {} /\ Spending = {} /\ \A s \in Sessions : InSession(s) = {}
  BY <1>3 DEF AttemptsLeft, Spending, InSession
<1>6. PauseCounts
  BY DEF Init, BudgetInit, PauseCounts
<1>7. CallMax \in Nat /\ CallMax >= Requested /\ Requested \in Nat /\ SessionMax \in Nat
      /\ N \in Nat /\ N >= 1 /\ DailyMaxTokens \in Nat \ {0}
  BY CallMaxBounds, CallsCount, CapType, BudgetAssumption
<1>8. CallMax * 1 <= CallMax * N /\ CallMax * N \in Nat /\ CallMax * 0 = 0 /\ CallMax * 1 = CallMax
  BY <1>7, ProductGrows
<1>9. Cardinality(Spending) = 0 /\ \A s \in Sessions : Cardinality(InSession(s)) = 0
  BY <1>5, FS_EmptySet
<1>10. \A d \in Days : daily[d].tokens = 0
  BY DEF Init, BudgetInit, NoUsage
<1>11. DayHasRoom /\ DailyOvershootBounded
  <2>1. CallMax * Cardinality(Spending) = 0
    BY <1>8, <1>9
  <2>2. 0 + CallMax * Cardinality(Spending) <= DailyMaxTokens - 1 + CallMax * N
        /\ 0 <= DailyMaxTokens - 1 + CallMax * N
    BY <1>7, <1>8, <2>1
  <2>3. DayHasRoom
    BY <1>2, <1>10, <2>2 DEF DayHasRoom
  <2>4. DailyOvershootBounded
    BY <1>10, <2>2 DEF DailyOvershootBounded, N
  <2>5. QED  BY <2>3, <2>4
<1>12. SessionsHaveRoom
  <2>1. \A s \in Sessions : sessionUsage[s] = 0
    BY DEF Init, BudgetInit
  <2>2. QED  BY <1>7, <1>8, <1>9, <2>1 DEF SessionsHaveRoom
<1>13. AnnouncedToday
  <2>1. lastResetDate = -1
    BY DEF Init, BudgetInit, NoDate
  <2>2. QED  BY <1>2, <2>1 DEF AnnouncedToday
<1>14. TypeOK
  <2>1. daily \in [Days -> [tokens : Nat, cost : Nat]]
    BY DEF Init, BudgetInit, NoUsage
  <2>2. sessionUsage \in [Sessions -> Nat] /\ hourly \in [Hours -> Nat] /\ active \in BOOLEAN
        /\ notified \subseteq Thresholds /\ lastResetDate \in Nat \cup {NoDate}
        /\ lastKill \in BOOLEAN /\ told \subseteq Thresholds
    BY DEF Init, BudgetInit
  <2>3. voices \in [Calls -> SUBSET (1..3)] /\ late \in Nat /\ spent \in Nat /\ faults \in 0..MaxFaults
    BY ModelCallsAssumption DEF Init
  <2>4. QED  BY <1>1, <1>3, <2>1, <2>2, <2>3 DEF TypeOK, BudgetTypeOK, CallType
<1>15. QED  BY <1>4, <1>6, <1>11, <1>12, <1>13, <1>14 DEF CallsInv

\* Every step keeps the invariant.
LEMMA CallsNext == CallsInv /\ [Next]_vars => CallsInv'
<1> SUFFICES ASSUME CallsInv, [Next]_vars  PROVE CallsInv'
  OBVIOUS
<1>1. ASSUME NEW c \in Calls, CheckKill(c) \/ Step(c) \/ Delta(c) \/ QueryFails(c)  PROVE CallsInv'
  BY <1>1, CheckKillStep, CheckDailyStep, AttemptSucceedsStep, AttemptFailsStep, RecordDailyStep,
     RecordHourlyStep, DeltaStep, QueryFailsStep DEF Step
<1>2. CASE Sweep \/ Owner \/ Monitor \/ Clock \/ Restart
  BY <1>2, SweepStep, OwnerStep, MonitorStep, ClockStep, RestartStep
<1>3. CASE UNCHANGED vars
  <2>1. UNCHANGED <<call, voices, sessionUsage, daily, now>> /\ UNCHANGED <<budgetVars, callVars>>
    BY <1>3 DEF vars, budgetVars, callVars
  <2>2. CallsHold' /\ VoicesOK' /\ DayHasRoom' /\ DailyOvershootBounded' /\ SessionsHaveRoom'
        /\ AttemptsLeft' = AttemptsLeft
    BY <2>1, CallsStay
  <2>3. TypeOK'
    BY <2>1 DEF CallsInv, TypeOK, BudgetTypeOK, budgetVars, callVars, Hours, Days, Thresholds
  <2>4. PauseCounts' /\ AnnouncedToday'
    BY <2>1, <2>2, PauseShrinks, AnnouncedSame DEF CallsInv, TypeOK, budgetVars, callVars
  <2>5. QED  BY <2>2, <2>3, <2>4 DEF CallsInv
<1>4. QED  BY <1>1, <1>2, <1>3 DEF Next

\* The inductive invariant holds throughout: every call is within the room it was counted with, in
\* the row of the day and in its session, and within the attempts a pause has left.
THEOREM CallsSafety == Spec => []CallsInv
<1>1. Init => CallsInv
  BY CallsInit
<1>2. CallsInv /\ [Next]_vars => CallsInv'
  BY CallsNext
<1>3. QED  BY <1>1, <1>2, PTL DEF Spec

\* However many calls are in flight, and whatever the models, the limits and the time zone are: a
\* day's tokens and a session's usage pass their limits by no more than all calls can spend once.
THEOREM SpendIsBounded == Spec => []SpendInv
<1>1. CallsInv => SpendInv
  <2> SUFFICES ASSUME CallsInv  PROVE SpendInv
    OBVIOUS
  <2> USE DEF CallsInv
  <2>1. SessionOvershootBounded
    <3> SUFFICES ASSUME NEW s \in Sessions
                 PROVE  sessionUsage[s] <= SessionMax - Requested + CallMax * N
      BY DEF SessionOvershootBounded, N
    <3>1. InSession(s) \subseteq Calls /\ sessionUsage[s] \in Nat /\ SessionMax \in Nat /\ Requested \in Nat
      BY BudgetAssumption, ModelCallsAssumption DEF InSession, TypeOK, BudgetTypeOK
    <3>2. CallMax * Cardinality(InSession(s)) \in Nat /\ CallMax * N \in Nat
      BY <3>1, FewerCalls
    <3>3. QED  BY <3>1, <3>2 DEF SessionsHaveRoom
  <2>2. QED  BY <2>1 DEF SpendInv
<1>2. QED  BY <1>1, CallsSafety, PTL

\* However many calls were past the kill switch when it was thrown, no more than three attempts of
\* each begin before the owner lifts the pause.
THEOREM PauseIsBounded == Spec => []PauseStopsCalls
<1>1. CallsInv => PauseStopsCalls
  <2> SUFFICES ASSUME CallsInv  PROVE late <= 3 * N
    BY DEF PauseStopsCalls, N
  <2>1. AttemptsLeft \subseteq Calls \X (1..3)
    BY DEF AttemptsLeft
  <2>2. Cardinality(AttemptsLeft) \in Nat /\ N \in Nat /\ late \in Nat /\ active \in BOOLEAN
    BY <2>1, AttemptSets, CallsCount DEF CallsInv, TypeOK, BudgetTypeOK
  <2>3. CASE active
    BY <2>2, <2>3 DEF CallsInv, PauseCounts
  <2>4. CASE ~active
    BY <2>2, <2>4 DEF CallsInv, PauseCounts
  <2>5. QED  BY <2>3, <2>4
<1>2. QED  BY <1>1, CallsSafety, PTL

\* The failover never lets the caller hear two attempts of one call.
THEOREM OneVoiceIsHeard == Spec => []OneVoice
<1>1. CallsInv => OneVoice
  <2> SUFFICES ASSUME CallsInv, NEW c \in Calls  PROVE Cardinality(voices[c]) <= 1
    BY DEF OneVoice
  <2>1. PICK k \in 1..3 : voices[c] \subseteq {k}
    BY DEF CallsInv, VoicesOK
  <2>2. IsFiniteSet({k}) /\ Cardinality({k}) = 1
    BY FS_Singleton
  <2>3. Cardinality(voices[c]) <= Cardinality({k})
    BY <2>1, <2>2, FS_Subset
  <2>4. QED  BY <2>2, <2>3
<1>2. QED  BY <1>1, CallsSafety, PTL

\* A check of the monitor in the hours when UTC is a day ahead leaves everything the local day has
\* crossed announced during that day, for every time zone, day length and number of restarts.
THEOREM AlertsAreGiven == Spec => AlertedDuringDay
<1>1. CallsInv => (Monitor /\ (UtcShift = 0 \/ UtcDate # TodayLocalDate) => CrossedToday \subseteq told')
  <2> SUFFICES ASSUME CallsInv, Monitor, UtcShift = 0 \/ UtcDate # TodayLocalDate
               PROVE  CrossedToday \subseteq told'
    OBVIOUS
  <2> DEFINE kept == IF UtcDate # lastResetDate THEN {} ELSE notified
  <2>1. told' = told \cup (CrossedToday \ kept)
    BY DEF Monitor, MonitorCheck, CheckDailyThresholds
  <2>2. kept \subseteq told
    BY KeptWasTold DEF CallsInv
  <2> HIDE DEF kept
  <2>3. QED  BY <2>1, <2>2
<1>2. QED  BY <1>1, CallsSafety, PTL DEF AlertedDuringDay


-----------------------------------------------------------------------------
(* The ledgers: the sum of the rows. *)

\* A set of natural numbers that is not empty has a smallest one.
LEMMA LeastOf ==
  ASSUME NEW S, S \subseteq Nat, S # {}
  PROVE  \E x \in S : \A y \in S : x <= y
<1>1. \E x \in S : \A y \in S : ~ (<<y, x>> \in OpToRel(<, Nat))
  BY NatLessThanWellFounded, WFMin, Zenon
<1>2. PICK x \in S : \A y \in S : ~ (<<y, x>> \in OpToRel(<, Nat))
  BY <1>1
<1>3. ASSUME NEW y \in S  PROVE x <= y
  <2>1. x \in Nat /\ y \in Nat
    OBVIOUS
  <2>2. ASSUME y < x  PROVE <<y, x>> \in OpToRel(<, Nat)
    <3>1. <<y, x>> \in Nat \X Nat /\ <<y, x>>[1] < <<y, x>>[2]
      BY <2>1, <2>2
    <3>2. QED  BY <3>1, Zenon DEF OpToRel
  <2>3. ~ y < x
    BY <1>2, <2>2, Zenon
  <2>4. QED  BY <2>1, <2>3
<1>4. QED  BY <1>3

\* The equation of the sums up to each row.
SumsUpTo(sum, row, last) ==
  sum = [i \in 0..last |-> row[i] + (IF i = 0 THEN 0 ELSE sum[i - 1])]

\* There is a function that it describes.
LEMMA SumsExist ==
  ASSUME NEW last \in Nat, NEW row
  PROVE  \E sum : SumsUpTo(sum, row, last)
<1> DEFINE S == {n \in Nat : ~ \E sum : SumsUpTo(sum, row, n)}
<1>1. ASSUME NEW n \in Nat, \A m \in Nat : m < n => \E sum : SumsUpTo(sum, row, m)
      PROVE  \E sum : SumsUpTo(sum, row, n)
  <2>1. CASE n = 0
    <3> PICK sum : sum = [i \in 0..n |-> row[i] + 0]
      OBVIOUS
    <3>1. ASSUME NEW i \in 0..n
          PROVE  sum[i] = row[i] + (IF i = 0 THEN 0 ELSE sum[i - 1])
      BY <2>1
    <3>2. sum = [i \in 0..n |-> row[i] + (IF i = 0 THEN 0 ELSE sum[i - 1])]
      BY <3>1
    <3>3. QED  BY <3>2 DEF SumsUpTo
  <2>2. CASE n # 0
    <3>1. n - 1 \in Nat /\ n - 1 < n
      BY <2>2
    <3>2. PICK short : SumsUpTo(short, row, n - 1)
      BY <1>1, <3>1
    <3> PICK sum : sum = [i \in 0..n |-> IF i = n THEN row[n] + short[n - 1] ELSE short[i]]
      OBVIOUS
    <3>3. ASSUME NEW i \in 0..n
          PROVE  sum[i] = row[i] + (IF i = 0 THEN 0 ELSE sum[i - 1])
      <4>1. CASE i = n
        <5>1. n - 1 \in 0..n /\ n - 1 # n /\ n \in 0..n
          BY <3>1
        <5>2. sum[n - 1] = short[n - 1] /\ sum[n] = row[n] + short[n - 1]
          BY <5>1
        <5>3. QED  BY <2>2, <4>1, <5>2
      <4>2. CASE i # n
        <5>1. i \in 0..n - 1 /\ sum[i] = short[i]
          BY <3>1, <4>2
        <5>2. short[i] = row[i] + (IF i = 0 THEN 0 ELSE short[i - 1])
          BY <3>2, <5>1 DEF SumsUpTo
        <5>3. i # 0 => sum[i - 1] = short[i - 1]
          BY <3>1, <4>2, <5>1
        <5>4. QED  BY <5>1, <5>2, <5>3
      <4>3. QED  BY <4>1, <4>2
    <3>4. sum = [i \in 0..n |-> row[i] + (IF i = 0 THEN 0 ELSE sum[i - 1])]
      BY <3>3
    <3>5. QED  BY <3>4 DEF SumsUpTo
  <2>3. QED  BY <2>1, <2>2
<1>2. ASSUME S # {}  PROVE FALSE
  <2>1. S \subseteq Nat
    OBVIOUS
  <2>2. PICK n \in S : \A m \in S : n <= m
    <3> HIDE DEF S
    <3>1. QED  BY <1>2, <2>1, LeastOf
  <2>3. n \in Nat /\ ~ \E sum : SumsUpTo(sum, row, n)
    OBVIOUS
  <2>4. \A m \in Nat : m < n => \E sum : SumsUpTo(sum, row, m)
    BY <2>2, <2>3
  <2>5. QED  BY <1>1, <2>3, <2>4
<1>3. QED  BY <1>2

\* So SumOfRows is the last value of such a function.
LEMMA SumDefined ==
  ASSUME NEW last \in Nat, NEW row
  PROVE  \E sum : SumsUpTo(sum, row, last) /\ SumOfRows(row, last) = sum[last]
<1>1. PICK sum : sum = CHOOSE s : SumsUpTo(s, row, last)
  OBVIOUS
<1>2. SumsUpTo(sum, row, last)
  BY <1>1, SumsExist
<1>3. sum = CHOOSE s : s = [i \in 0..last |-> row[i] + (IF i = 0 THEN 0 ELSE s[i - 1])]
  BY <1>1 DEF SumsUpTo
<1>4. SumOfRows(row, last) = sum[last]
  BY <1>3 DEF SumOfRows
<1>5. QED  BY <1>2, <1>4

\* Rows that are the same, but that the second has t more in the row k.
RowGrows(a, b, k, t, last) ==
  /\ a \in [0..last -> Nat] /\ b \in [0..last -> Nat] /\ k \in 0..last /\ t \in Nat
  /\ b[k] = a[k] + t /\ \A i \in 0..last : i # k => b[i] = a[i]

\* What is added to a row is added to the sum: the sums up to each row differ by as much, from that
\* row on.
LEMMA SumAdds ==
  ASSUME NEW last \in Nat, NEW a, NEW b, NEW k, NEW t, RowGrows(a, b, k, t, last)
  PROVE  SumOfRows(a, last) \in Nat /\ SumOfRows(b, last) = SumOfRows(a, last) + t
<1>. USE DEF RowGrows
<1>1. PICK f : SumsUpTo(f, a, last) /\ SumOfRows(a, last) = f[last]
  BY SumDefined
<1>2. PICK g : SumsUpTo(g, b, last) /\ SumOfRows(b, last) = g[last]
  BY SumDefined
<1> DEFINE Good(i) == f[i] \in Nat /\ g[i] = f[i] + (IF i < k THEN 0 ELSE t)
           S == {i \in 0..last : ~ Good(i)}
<1>3. ASSUME NEW n \in 0..last, n > 0 => Good(n - 1)  PROVE Good(n)
  <2>1. f[n] = a[n] + (IF n = 0 THEN 0 ELSE f[n - 1]) /\ g[n] = b[n] + (IF n = 0 THEN 0 ELSE g[n - 1])
    BY <1>1, <1>2 DEF SumsUpTo
  <2>2. a[n] \in Nat /\ b[n] = a[n] + (IF n = k THEN t ELSE 0)
    OBVIOUS
  <2>3. CASE n = 0
    BY <2>1, <2>2, <2>3
  <2>4. CASE n # 0
    <3>1. f[n - 1] \in Nat /\ g[n - 1] = f[n - 1] + (IF n - 1 < k THEN 0 ELSE t)
      BY <1>3, <2>4
    <3>2. f[n] = a[n] + f[n - 1] /\ g[n] = b[n] + g[n - 1]
      BY <2>1, <2>4
    <3>3. CASE n < k
      <4>1. n - 1 < k /\ n # k
        BY <3>3
      <4>2. QED  BY <2>2, <3>1, <3>2, <3>3, <4>1
    <3>4. CASE n = k
      <4>1. n - 1 < k
        BY <3>4
      <4>2. QED  BY <2>2, <3>1, <3>2, <3>4, <4>1
    <3>5. CASE n > k
      <4>1. ~ (n - 1 < k) /\ n # k
        BY <3>5
      <4>2. QED  BY <2>2, <3>1, <3>2, <3>5, <4>1
    <3>6. QED  BY <3>3, <3>4, <3>5
  <2>5. QED  BY <2>3, <2>4
<1>4. ASSUME S # {}  PROVE FALSE
  <2>1. S \subseteq Nat
    OBVIOUS
  <2>2. PICK n \in S : \A m \in S : n <= m
    <3> HIDE DEF S
    <3>1. QED  BY <1>4, <2>1, LeastOf
  <2>3. n \in 0..last /\ ~ Good(n)
    OBVIOUS
  <2>4. ASSUME n > 0  PROVE Good(n - 1)
    <3>1. n - 1 \in 0..last /\ ~ (n <= n - 1)
      BY <2>3, <2>4
    <3>2. n - 1 \notin S
      BY <2>2, <3>1
    <3>3. QED  BY <3>1, <3>2
  <2> HIDE DEF Good
  <2>5. QED  BY <1>3, <2>3, <2>4
<1>5. Good(last)
  <2>1. last \in 0..last
    OBVIOUS
  <2>2. S = {}
    BY <1>4
  <2>3. ASSUME ~ Good(last)  PROVE last \in S
    BY <2>1, <2>3
  <2>4. QED  BY <2>2, <2>3
<1>6. QED  BY <1>1, <1>2, <1>5

\* The sum of rows without tokens.
LEMMA SumOfNothing ==
  ASSUME NEW last \in Nat, NEW a, \A i \in 0..last : a[i] = 0
  PROVE  SumOfRows(a, last) = 0
<1>1. PICK f : SumsUpTo(f, a, last) /\ SumOfRows(a, last) = f[last]
  BY SumDefined
<1> DEFINE S == {i \in 0..last : f[i] # 0}
<1>2. ASSUME S # {}  PROVE FALSE
  <2>1. S \subseteq Nat
    OBVIOUS
  <2>2. PICK n \in S : \A m \in S : n <= m
    <3> HIDE DEF S
    <3>1. QED  BY <1>2, <2>1, LeastOf
  <2>3. f[n] = 0 + (IF n = 0 THEN 0 ELSE f[n - 1]) /\ n \in 0..last
    BY <1>1 DEF SumsUpTo
  <2>4. n # 0 => f[n - 1] = 0
    BY <2>2
  <2>5. QED  BY <2>3, <2>4
<1>3. QED  BY <1>1, <1>2

-----------------------------------------------------------------------------
(* The ledgers: the tokens of the calls that are between two of them. *)

\* The tokens of the calls at one place, each with its number.
InFlight(place) == {a \in Calls \X (1..CallMax) : call[a[1]].pc = place /\ a[2] <= call[a[1]].tokens}

\* The tokens a call has at a place.
Weight(w, place) == IF w.pc = place THEN w.tokens ELSE 0

\* The same tokens, of one call.
OfCall(c, w, place) == {a \in {c} \X (1..CallMax) : w.pc = place /\ a[2] <= w.tokens}

\* What a call is still to record is at most what one call may spend.
Capped(w) == w.pc \in {"upsertDaily", "upsertHourly"} => w.tokens <= CallMax

\* The most that the faults so far can have kept out of a ledger.
MostMissed == CallMax * N * faults

\* What is behind is in flight or was lost to a fault.
LedgersBehind ==
  /\ \A c \in Calls : Capped(call[c])
  /\ spent - DailyTotal - Cardinality(InFlight("upsertDaily")) \in 0..MostMissed
  /\ DailyTotal - HourlyTotal - Cardinality(InFlight("upsertHourly")) \in 0..MostMissed

LedgersSafe == CallsInv /\ LedgersBehind

\* A set of numbered tokens is finite, and those of so many calls are as many times CallMax.
LEMMA TokenSets ==
  ASSUME NEW C, C \subseteq Calls
  PROVE  /\ IsFiniteSet(C \X (1..CallMax))
         /\ Cardinality(C \X (1..CallMax)) = CallMax * Cardinality(C)
         /\ \A S : S \subseteq C \X (1..CallMax) => /\ IsFiniteSet(S) /\ Cardinality(S) \in Nat
                                                   /\ Cardinality(S) <= CallMax * Cardinality(C)
<1>1. CallMax \in Nat
  BY CallMaxBounds
<1>2. IsFiniteSet(1..CallMax) /\ Cardinality(1..CallMax) = CallMax
  <2>1. 1 \in Int /\ CallMax \in Int
    BY <1>1
  <2>2. IsFiniteSet(1..CallMax) /\ Cardinality(1..CallMax) = IF 1 > CallMax THEN 0 ELSE CallMax - 1 + 1
    BY <2>1, FS_Interval, Zenon
  <2>3. QED  BY <1>1, <2>2
<1>3. IsFiniteSet(C) /\ Cardinality(C) \in Nat
  BY CallSets
<1>4. IsFiniteSet(C \X (1..CallMax)) /\ Cardinality(C \X (1..CallMax)) = Cardinality(C) * CallMax
  BY <1>2, <1>3, FS_Product
<1>5. Cardinality(C) * CallMax = CallMax * Cardinality(C)
  BY <1>1, <1>3
<1>6. QED  BY <1>4, <1>5, FS_Subset, FS_CardinalityType

\* The tokens in flight are those of one call and those of the others.
LEMMA FlightSplits ==
  ASSUME NEW c \in Calls, NEW place, NEW w, w.tokens \in Nat, w.pc = place => w.tokens <= CallMax,
         NEW others, others \subseteq (Calls \ {c}) \X (1..CallMax),
         NEW all, all = others \cup OfCall(c, w, place)
  PROVE  Cardinality(others) \in Nat /\ Cardinality(all) = Cardinality(others) + Weight(w, place)
<1> DEFINE mine == OfCall(c, w, place)
<1>1. IsFiniteSet(others) /\ Cardinality(others) \in Nat
  BY TokenSets
<1>2. IsFiniteSet(mine)
  <2>1. mine \subseteq {c} \X (1..CallMax) /\ {c} \subseteq Calls
    BY DEF OfCall
  <2>2. QED  BY <2>1, TokenSets
<1>3. Cardinality(mine) = Weight(w, place)
  <2>1. CASE w.pc # place
    <3>1. mine = {}
      BY <2>1 DEF OfCall
    <3>2. QED  BY <2>1, <3>1, FS_EmptySet DEF Weight
  <2>2. CASE w.pc = place
    <3>1. CallMax \in Nat /\ w.tokens <= CallMax
      BY <2>2, CallMaxBounds
    <3>2. mine = {c} \X (1..w.tokens)
      BY <2>2, <3>1 DEF OfCall
    <3>3. IsFiniteSet(1..w.tokens) /\ Cardinality(1..w.tokens) = w.tokens
      <4>1. 1 \in Int /\ w.tokens \in Int
        OBVIOUS
      <4>2. IsFiniteSet(1..w.tokens) /\ Cardinality(1..w.tokens) = IF 1 > w.tokens THEN 0 ELSE w.tokens - 1 + 1
        BY <4>1, FS_Interval, Zenon
      <4>3. QED  BY <4>2
    <3>4. IsFiniteSet({c}) /\ Cardinality({c}) = 1
      BY FS_Singleton
    <3>5. Cardinality({c} \X (1..w.tokens)) = 1 * w.tokens
      BY <3>3, <3>4, FS_Product
    <3>6. Cardinality(mine) = w.tokens
      <4> HIDE DEF mine
      <4>1. Cardinality(mine) = 1 * w.tokens
        BY <3>2, <3>5
      <4>2. QED  BY <4>1
    <3>7. QED  BY <2>2, <3>6 DEF Weight
  <2>3. QED  BY <2>1, <2>2
<1>4. others \cap mine = {}
  BY DEF OfCall
<1>5. Weight(w, place) \in Nat
  BY DEF Weight
<1>6. Cardinality(others \cup mine) = Cardinality(others) + Cardinality(mine)
  <2> HIDE DEF mine
  <2>1. Cardinality(others \cup mine) = Cardinality(others) + Cardinality(mine) - Cardinality(others \cap mine)
    BY <1>1, <1>2, FS_Union
  <2>2. Cardinality(others \cap mine) = 0
    BY <1>4, FS_EmptySet
  <2>3. QED  BY <1>1, <1>3, <1>5, <2>1, <2>2
<1>7. QED  BY <1>1, <1>3, <1>6

\* A call that moves takes its tokens with it.
LEMMA FlightMoves ==
  ASSUME NEW c \in Calls, Moves(c), call \in [Calls -> CallType], Capped(call[c]), Capped(call'[c]),
         NEW place \in {"upsertDaily", "upsertHourly"}
  PROVE  /\ Cardinality(InFlight(place)) \in Nat /\ Cardinality(InFlight(place)') \in Nat
         /\ Weight(call[c], place) \in Nat /\ Weight(call'[c], place) \in Nat
         /\ Cardinality(InFlight(place)') - Weight(call'[c], place)
              = Cardinality(InFlight(place)) - Weight(call[c], place)
<1> DEFINE others == {a \in (Calls \ {c}) \X (1..CallMax) : call[a[1]].pc = place /\ a[2] <= call[a[1]].tokens}
<1>1. call[c].tokens \in Nat /\ call'[c].tokens \in Nat
  BY DEF Moves, CallType
<1>2. call[c].pc = place => call[c].tokens <= CallMax
  BY DEF Capped
<1>3. call'[c].pc = place => call'[c].tokens <= CallMax
  BY DEF Capped
<1>4. InFlight(place) = others \cup OfCall(c, call[c], place)
  BY DEF InFlight, OfCall
<1>5. InFlight(place)' = others \cup OfCall(c, call'[c], place)
  <2>1. InFlight(place)' = {a \in Calls \X (1..CallMax) : call'[a[1]].pc = place /\ a[2] <= call'[a[1]].tokens}
    BY DEF InFlight, CallMax, AnthropicMaxTokens
  <2>2. \A a \in Calls \X (1..CallMax) : a[1] # c => call'[a[1]] = call[a[1]]
    BY DEF Moves
  <2>3. QED  BY <2>1, <2>2 DEF OfCall
<1>6. others \subseteq (Calls \ {c}) \X (1..CallMax)
  OBVIOUS
<1> HIDE DEF others
<1>7. Cardinality(others) \in Nat /\ Cardinality(InFlight(place)) = Cardinality(others) + Weight(call[c], place)
  <2> PICK w : w = call[c]
    OBVIOUS
  <2> PICK rest : rest = others
    OBVIOUS
  <2> PICK all : all = InFlight(place)
    OBVIOUS
  <2>1. w.tokens \in Nat /\ (w.pc = place => w.tokens <= CallMax)
    BY <1>1, <1>2
  <2>2. rest \subseteq (Calls \ {c}) \X (1..CallMax)
    BY <1>6
  <2>3. all = rest \cup OfCall(c, w, place)
    BY <1>4
  <2>4. Cardinality(rest) \in Nat /\ Cardinality(all) = Cardinality(rest) + Weight(w, place)
    BY <2>1, <2>2, <2>3, FlightSplits, SMTT(30)
  <2>5. QED  BY <2>4
<1>8. Cardinality(InFlight(place)') = Cardinality(others) + Weight(call'[c], place)
  <2> PICK w : w = call'[c]
    OBVIOUS
  <2> PICK rest : rest = others
    OBVIOUS
  <2> PICK all : all = InFlight(place)'
    OBVIOUS
  <2>1. w.tokens \in Nat /\ (w.pc = place => w.tokens <= CallMax)
    BY <1>1, <1>3
  <2>2. rest \subseteq (Calls \ {c}) \X (1..CallMax)
    BY <1>6
  <2>3. all = rest \cup OfCall(c, w, place)
    BY <1>5
  <2>4. Cardinality(rest) \in Nat /\ Cardinality(all) = Cardinality(rest) + Weight(w, place)
    BY <2>1, <2>2, <2>3, FlightSplits, SMTT(30)
  <2>5. QED  BY <2>4
<1>9. Weight(call[c], place) \in Nat /\ Weight(call'[c], place) \in Nat
  BY <1>1 DEF Weight
<1>10. QED  BY <1>7, <1>8, <1>9

-----------------------------------------------------------------------------
(* The ledgers: the steps. *)

\* The rows of both ledgers are functions over 0 to the last row.
LEMMA RowTypes ==
  ASSUME TypeOK
  PROVE  /\ MaxHour \in Nat /\ MaxHour \div DayHours \in Nat
         /\ Hours = 0..MaxHour /\ Days = 0..(MaxHour \div DayHours)
         /\ hourly \in [0..MaxHour -> Nat]
         /\ [d \in Days |-> daily[d].tokens] \in [0..(MaxHour \div DayHours) -> Nat]
<1>1. MaxHour \in Nat /\ DayHours \in Nat \ {0}
  BY BudgetAssumption
<1>2. MaxHour \div DayHours \in Nat
  BY <1>1, Quotient
<1>3. hourly \in [Hours -> Nat]
  BY DEF TypeOK, BudgetTypeOK
<1>4. \A d \in Days : daily[d].tokens \in Nat
  BY DayTypes
<1>5. QED  BY <1>1, <1>2, <1>3, <1>4 DEF Hours, Days

\* The sum of a function that has the types of rows is a number.
LEMMA SumType ==
  ASSUME NEW last \in Nat, NEW a \in [0..last -> Nat]
  PROVE  SumOfRows(a, last) \in Nat
<1>1. RowGrows(a, a, 0, 0, last)
  BY DEF RowGrows
<1>2. QED  BY <1>1, SumAdds

\* Both sums are numbers.
LEMMA TotalTypes == TypeOK => DailyTotal \in Nat /\ HourlyTotal \in Nat
<1> SUFFICES ASSUME TypeOK  PROVE DailyTotal \in Nat /\ HourlyTotal \in Nat
  OBVIOUS
<1>1. SumOfRows(hourly, MaxHour) \in Nat
  BY RowTypes, SumType
<1>2. SumOfRows([d \in Days |-> daily[d].tokens], MaxHour \div DayHours) \in Nat
  BY RowTypes, SumType
<1>3. QED  BY <1>1, <1>2 DEF DailyTotal, HourlyTotal

\* So they are after a step.
LEMMA TotalTypesNext ==
  ASSUME daily' \in [Days -> [tokens : Nat, cost : Nat]], hourly' \in [Hours -> Nat]
  PROVE  DailyTotal' \in Nat /\ HourlyTotal' \in Nat
<1> PICK days : days = [d \in Days |-> daily'[d].tokens]
  OBVIOUS
<1> PICK hours : hours = hourly'
  OBVIOUS
<1>1. MaxHour \in Nat /\ MaxHour \div DayHours \in Nat
  BY BudgetAssumption, Quotient
<1>2. days \in [0..(MaxHour \div DayHours) -> Nat] /\ hours \in [0..MaxHour -> Nat]
  BY DEF Days, Hours
<1>3. SumOfRows(days, MaxHour \div DayHours) \in Nat /\ SumOfRows(hours, MaxHour) \in Nat
  BY <1>1, <1>2, SumType
<1>4. DailyTotal' = SumOfRows(days, MaxHour \div DayHours)
  BY DEF DailyTotal, SumOfRows, Days
<1>5. HourlyTotal' = SumOfRows(hours, MaxHour)
  BY DEF HourlyTotal, SumOfRows
<1>6. QED  BY <1>3, <1>4, <1>5

\* They depend on the rows only.
LEMMA SameRows ==
  /\ daily' = daily => DailyTotal' = DailyTotal
  /\ hourly' = hourly => HourlyTotal' = HourlyTotal
<1>1. ASSUME daily' = daily  PROVE DailyTotal' = DailyTotal
  BY <1>1 DEF DailyTotal, SumOfRows
<1>2. ASSUME hourly' = hourly  PROVE HourlyTotal' = HourlyTotal
  BY <1>2 DEF HourlyTotal, SumOfRows
<1>3. QED  BY <1>1, <1>2

\* What faults have kept out is a number, and one more fault can keep out what all calls hold.
LEMMA MissedType ==
  ASSUME TypeOK
  PROVE  MostMissed \in Nat /\ CallMax * N \in Nat /\ CallMax <= CallMax * N
         /\ (faults' = faults => MostMissed' = MostMissed)
         /\ (faults' = faults + 1 => MostMissed' = MostMissed + CallMax * N)
<1>1. CallMax \in Nat /\ N \in Nat /\ N >= 1 /\ faults \in Nat
  BY CallMaxBounds, CallsCount, ModelCallsAssumption DEF TypeOK
<1>2. CallMax * N \in Nat
  BY <1>1
<1> PICK k \in Nat : k = CallMax * N
  BY <1>2
<1>3. k * faults \in Nat /\ k * (faults + 1) = k * faults + k
  BY <1>1
<1>4. MostMissed = k * faults /\ MostMissed' = k * faults'
  BY DEF MostMissed, CallMax, N, AnthropicMaxTokens
<1>5. CallMax * 1 <= CallMax * N /\ CallMax * 1 = CallMax
  BY <1>1, ProductGrows
<1>6. QED  BY <1>2, <1>3, <1>4, <1>5

\* A call that moves and loses nothing: what it holds has gone from one ledger's side to the other's.
LEMMA NothingLost ==
  ASSUME LedgersSafe, NEW c \in Calls, Moves(c), Capped(call'[c]), faults' = faults, TypeOK',
         spent' - DailyTotal' - Weight(call'[c], "upsertDaily")
           = spent - DailyTotal - Weight(call[c], "upsertDaily"),
         DailyTotal' - HourlyTotal' - Weight(call'[c], "upsertHourly")
           = DailyTotal - HourlyTotal - Weight(call[c], "upsertHourly")
  PROVE  LedgersBehind'
<1>1. call \in [Calls -> CallType] /\ Capped(call[c]) /\ TypeOK
  BY CallsTyped DEF LedgersSafe, CallsInv, LedgersBehind
<1>2. \A x \in Calls : Capped(call'[x])
  BY DEF LedgersSafe, LedgersBehind, Moves
<1>3. \A place \in {"upsertDaily", "upsertHourly"} :
        /\ Cardinality(InFlight(place)) \in Nat /\ Cardinality(InFlight(place)') \in Nat
        /\ Weight(call[c], place) \in Nat /\ Weight(call'[c], place) \in Nat
        /\ Cardinality(InFlight(place)') - Weight(call'[c], place)
             = Cardinality(InFlight(place)) - Weight(call[c], place)
  BY <1>1, FlightMoves
<1>4. DailyTotal \in Nat /\ HourlyTotal \in Nat /\ DailyTotal' \in Nat /\ HourlyTotal' \in Nat
      /\ spent \in Nat /\ spent' \in Nat
  <2>1. spent \in Nat /\ spent' \in Nat
    BY <1>1 DEF TypeOK
  <2>2. daily' \in [Days -> [tokens : Nat, cost : Nat]] /\ hourly' \in [Hours -> Nat]
    BY DEF TypeOK, BudgetTypeOK, Days, Hours
  <2>3. QED  BY <1>1, <2>1, <2>2, TotalTypes, TotalTypesNext
<1>5. MostMissed' = MostMissed /\ MostMissed \in Nat
  BY <1>1, MissedType
<1>6. spent' - DailyTotal' - Cardinality(InFlight("upsertDaily")')
        = spent - DailyTotal - Cardinality(InFlight("upsertDaily"))
  <2>1. /\ Cardinality(InFlight("upsertDaily")) \in Nat /\ Cardinality(InFlight("upsertDaily")') \in Nat
        /\ Weight(call[c], "upsertDaily") \in Nat /\ Weight(call'[c], "upsertDaily") \in Nat
        /\ Cardinality(InFlight("upsertDaily")') - Weight(call'[c], "upsertDaily")
             = Cardinality(InFlight("upsertDaily")) - Weight(call[c], "upsertDaily")
    BY <1>3
  <2>2. QED  BY <1>4, <2>1
<1>7. DailyTotal' - HourlyTotal' - Cardinality(InFlight("upsertHourly")')
        = DailyTotal - HourlyTotal - Cardinality(InFlight("upsertHourly"))
  <2>1. /\ Cardinality(InFlight("upsertHourly")) \in Nat /\ Cardinality(InFlight("upsertHourly")') \in Nat
        /\ Weight(call[c], "upsertHourly") \in Nat /\ Weight(call'[c], "upsertHourly") \in Nat
        /\ Cardinality(InFlight("upsertHourly")') - Weight(call'[c], "upsertHourly")
             = Cardinality(InFlight("upsertHourly")) - Weight(call[c], "upsertHourly")
    BY <1>3
  <2>2. QED  BY <1>4, <2>1
<1>8. spent - DailyTotal - Cardinality(InFlight("upsertDaily")) \in 0..MostMissed
      /\ DailyTotal - HourlyTotal - Cardinality(InFlight("upsertHourly")) \in 0..MostMissed
  BY DEF LedgersSafe, LedgersBehind
<1>9. QED  BY <1>2, <1>5, <1>6, <1>7, <1>8 DEF LedgersBehind, Capped

\* A step that touches no call, no row and no count.
LEMMA LedgersStay ==
  ASSUME LedgersBehind, UNCHANGED <<call, daily, hourly, spent, faults>>
  PROVE  LedgersBehind'
<1>1. DailyTotal' = DailyTotal /\ HourlyTotal' = HourlyTotal
  BY SameRows
<1>2. \A place : InFlight(place)' = InFlight(place)
  BY DEF InFlight, CallMax, AnthropicMaxTokens
<1>3. MostMissed' = MostMissed
  BY DEF MostMissed, CallMax, N, AnthropicMaxTokens
<1>4. \A x \in Calls : Capped(call'[x])
  BY DEF LedgersBehind
<1>5. QED  BY <1>1, <1>2, <1>3, <1>4 DEF LedgersBehind, Capped

\* A call that moves where it has nothing to record, before and after.
LEMMA NothingToRecord ==
  ASSUME LedgersSafe, NEW c \in Calls, Moves(c), faults' = faults, TypeOK',
         UNCHANGED <<daily, hourly, spent>>,
         call[c].pc \notin {"upsertDaily", "upsertHourly"}, call'[c].pc \notin {"upsertDaily", "upsertHourly"}
  PROVE  LedgersBehind'
<1>1. DailyTotal' = DailyTotal /\ HourlyTotal' = HourlyTotal /\ spent' = spent
  BY SameRows
<1>2. \A place \in {"upsertDaily", "upsertHourly"} : Weight(call[c], place) = 0 /\ Weight(call'[c], place) = 0
  BY DEF Weight
<1>3. Capped(call'[c])
  BY DEF Capped
<1>4. QED  BY <1>1, <1>2, <1>3, NothingLost

\* The call before it reaches a provider, while one fails it, and when the checks turn it away.
LEMMA LedgersCheckKill ==
  ASSUME LedgersSafe, TypeOK', NEW c \in Calls, CheckKill(c)
  PROVE  LedgersBehind'
<1>1. call[c].pc = "idle" /\ UNCHANGED <<daily, hourly, spent, faults>>
  BY DEF CheckKill, budgetVars
<1>2. PICK s \in Sessions : call' = [call EXCEPT ![c].pc = "daily", ![c].session = s]
  BY DEF CheckKill
<1>3. call \in [Calls -> CallType] /\ call[c] \in CallType
  BY CallsTyped DEF LedgersSafe, CallsInv
<1>4. call'[c].pc = "daily" /\ call'[c] \in CallType
  BY <1>2, <1>3 DEF CallType
<1>5. Moves(c)
  BY <1>2, <1>3, <1>4 DEF Moves
<1>6. QED  BY <1>1, <1>4, <1>5, NothingToRecord

\* A call that settles without anything to record.
LEMMA LedgersSettle ==
  ASSUME LedgersSafe, TypeOK', NEW c \in Calls, Settle(c), UNCHANGED <<daily, hourly, spent, faults>>,
         call[c].pc \notin {"upsertDaily", "upsertHourly"}
  PROVE  LedgersBehind'
<1>1. Moves(c) /\ call'[c] = Idle
  BY IdleType, MovesTo DEF Settle, LedgersSafe, CallsInv
<1>2. QED  BY <1>1, IdleType, NothingToRecord

\* The first attempt.
LEMMA LedgersCheckDaily ==
  ASSUME LedgersSafe, TypeOK', NEW c \in Calls, CheckDaily(c)
  PROVE  LedgersBehind'
<1>1. call[c].pc = "daily" /\ UNCHANGED <<daily, hourly, spent, faults>>
  BY DEF CheckDaily, budgetVars
<1>2. CASE Settle(c)
  BY <1>1, <1>2, LedgersSettle
<1>3. CASE \E m, o \in Models : call' = [call EXCEPT ![c].pc = "attempt", ![c].n = 1,
                                             ![c].model = m, ![c].other = o]
  <2>1. PICK m \in Models, o \in Models :
          call' = [call EXCEPT ![c].pc = "attempt", ![c].n = 1, ![c].model = m, ![c].other = o]
    BY <1>3
  <2>2. Moves(c) /\ call'[c].pc = "attempt"
    BY <2>1, FirstAttempt DEF LedgersSafe, CallsInv
  <2>3. QED  BY <1>1, <2>2, NothingToRecord
<1>4. ASSUME NEW preference \in Models \cup {None}, NEW override \in Models \cup {None},
             NEW degrade \in BOOLEAN,
             LET primary == EffectivePrimary(preference, override)
                 selected == SelectModel(primary, degrade)
                 secondary == IF selected = primary THEN Fallback ELSE primary
             IN  call' = [call EXCEPT ![c].pc = "attempt", ![c].n = 1,
                            ![c].model = selected, ![c].other = secondary]
      PROVE  LedgersBehind'
  BY <1>3, <1>4, RoutedToModels
<1>5. QED  BY <1>2, <1>4 DEF CheckDaily

\* An attempt that fails.
LEMMA LedgersAttemptFails ==
  ASSUME LedgersSafe, TypeOK', NEW c \in Calls, AttemptFails(c)
  PROVE  LedgersBehind'
<1>1. call[c].pc = "attempt" /\ UNCHANGED <<daily, hourly, spent, faults>>
  BY DEF AttemptFails, budgetVars
<1>2. CASE Settle(c)
  BY <1>1, <1>2, LedgersSettle
<1>3. CASE call[c].n # 3 /\ call' = [call EXCEPT ![c].n = @ + 1,
                                       ![c].model = IF call[c].n = 2 THEN call[c].other ELSE @]
  <2>1. call[c].n \in 1..3 /\ call[c].model \in Models /\ call[c].other \in Models
    BY <1>1 DEF LedgersSafe, CallsInv, CallsHold, Holds
  <2>2. call[c].n \in 1..2
    BY <1>3, <2>1
  <2>3. Moves(c) /\ call'[c].pc = "attempt"
    BY <1>1, <1>3, <2>1, <2>2, RetriedCall DEF LedgersSafe, CallsInv
  <2>4. QED  BY <1>1, <2>3, NothingToRecord
<1>4. QED  BY <1>2, <1>3 DEF AttemptFails

\* An answer: the provider bills what the call now holds.
LEMMA LedgersAttemptSucceeds ==
  ASSUME LedgersSafe, TypeOK', NEW c \in Calls, AttemptSucceeds(c)
  PROVE  LedgersBehind'
<1>1. PICK tokens \in 1..AnthropicMaxTokens(call[c].model) :
        /\ call' = [call EXCEPT ![c].pc = "upsertDaily", ![c].tokens = tokens,
                                ![c].other = None, ![c].n = 0]
        /\ spent' = spent + tokens
  BY DEF AttemptSucceeds
<1>2. call[c].pc = "attempt" /\ call[c].model \in Models /\ UNCHANGED <<daily, hourly, faults>>
  BY DEF AttemptSucceeds, LedgersSafe, CallsInv, CallsHold, Holds
<1>3. tokens \in Nat /\ tokens <= CallMax
  BY <1>1, <1>2, CallMaxBounds
<1>4. TypeOK
  BY DEF LedgersSafe, CallsInv
<1>5. Moves(c) /\ call'[c].pc = "upsertDaily" /\ call'[c].tokens = tokens
  BY <1>1, <1>2, <1>3, <1>4, ResolvedCall
<1>6. DailyTotal' = DailyTotal /\ HourlyTotal' = HourlyTotal
      /\ DailyTotal \in Nat /\ HourlyTotal \in Nat /\ spent \in Nat
  BY <1>2, <1>4, SameRows, TotalTypes DEF TypeOK
<1>7. Weight(call'[c], "upsertDaily") = tokens /\ Weight(call[c], "upsertDaily") = 0
      /\ Weight(call'[c], "upsertHourly") = 0 /\ Weight(call[c], "upsertHourly") = 0
  BY <1>2, <1>5 DEF Weight
<1>8. spent' - DailyTotal' - Weight(call'[c], "upsertDaily")
        = spent - DailyTotal - Weight(call[c], "upsertDaily")
  BY <1>1, <1>3, <1>6, <1>7
<1>9. DailyTotal' - HourlyTotal' - Weight(call'[c], "upsertHourly")
        = DailyTotal - HourlyTotal - Weight(call[c], "upsertHourly")
  BY <1>6, <1>7
<1>10. Capped(call'[c])
  BY <1>3, <1>5 DEF Capped
<1>11. QED  BY <1>2, <1>5, <1>8, <1>9, <1>10, NothingLost

\* The row of the day takes over what the call held.
LEMMA LedgersRecordDaily ==
  ASSUME LedgersSafe, TypeOK', NEW c \in Calls, RecordDaily(c)
  PROVE  LedgersBehind'
<1> PICK tokens : tokens = call[c].tokens
  OBVIOUS
<1>1. TypeOK /\ Capped(call[c])
  BY DEF LedgersSafe, CallsInv, LedgersBehind
<1>2. call[c].pc = "upsertDaily" /\ call' = [call EXCEPT ![c].pc = "upsertHourly"]
      /\ UNCHANGED <<hourly, spent, faults>>
  BY DEF RecordDaily, Goto
<1>3. call \in [Calls -> CallType] /\ call[c] \in CallType
  BY <1>1, CallsTyped
<1>4. call'[c] \in CallType /\ call'[c].pc = "upsertHourly" /\ call'[c].tokens = tokens /\ tokens \in Nat
  BY <1>2, <1>3 DEF CallType
<1>5. Moves(c)
  BY <1>2, <1>3, <1>4 DEF Moves
<1>6. Capped(call'[c])
  BY <1>1, <1>2, <1>4 DEF Capped
<1>7. DailyTotal' = DailyTotal + tokens /\ DailyTotal \in Nat
  <2> PICK today : today = TodayLocalDate
    OBVIOUS
  <2> PICK last : last = MaxHour \div DayHours
    OBVIOUS
  <2> PICK before : before = [d \in Days |-> daily[d].tokens]
    OBVIOUS
  <2> PICK after : after = [d \in Days |-> daily'[d].tokens]
    OBVIOUS
  <2>1. last \in Nat /\ before \in [0..last -> Nat] /\ Days = 0..last
    BY <1>1, RowTypes
  <2>2. today \in 0..last /\ daily \in [Days -> [tokens : Nat, cost : Nat]]
    BY <1>1, <2>1, DayTypes
  <2>3. \E cost : daily' = [daily EXCEPT ![today] = [tokens |-> daily[today].tokens + tokens, cost |-> cost]]
    BY DEF RecordDaily, UpsertDaily
  <2>4. after[today] = before[today] + tokens /\ \A d \in 0..last : d # today => after[d] = before[d]
    BY <2>1, <2>2, <2>3
  <2>5. after \in [0..last -> Nat]
    <3>1. \A d \in 0..last : before[d] \in Nat
      BY <2>1
    <3>2. ASSUME NEW d \in 0..last  PROVE after[d] \in Nat
      <4>1. CASE d = today
        <5>1. after[d] = before[d] + tokens /\ before[d] \in Nat
          BY <2>4, <3>1, <4>1
        <5>2. QED  BY <1>4, <5>1
      <4>2. CASE d # today
        BY <2>4, <3>1, <4>2
      <4>3. QED  BY <4>1, <4>2
    <3>3. after = [d \in 0..last |-> daily'[d].tokens]
      BY <2>1
    <3>4. DOMAIN after = 0..last /\ after = [d \in 0..last |-> after[d]]
      BY <3>3
    <3>5. QED  BY <3>2, <3>4
  <2>6. SumOfRows(before, last) \in Nat /\ SumOfRows(after, last) = SumOfRows(before, last) + tokens
    <3>1. RowGrows(before, after, today, tokens, last)
      BY <1>4, <2>1, <2>2, <2>4, <2>5 DEF RowGrows
    <3>2. QED  BY <2>1, <3>1, SumAdds
  <2>7. DailyTotal = SumOfRows(before, last)
    BY DEF DailyTotal
  <2>8. DailyTotal' = SumOfRows(after, last)
    BY DEF DailyTotal, SumOfRows, Days
  <2>9. QED  BY <2>6, <2>7, <2>8
<1>8. HourlyTotal' = HourlyTotal /\ HourlyTotal \in Nat /\ spent \in Nat /\ spent' = spent
  BY <1>1, <1>2, SameRows, TotalTypes DEF TypeOK
<1>9. Weight(call'[c], "upsertDaily") = 0 /\ Weight(call[c], "upsertDaily") = tokens
      /\ Weight(call'[c], "upsertHourly") = tokens /\ Weight(call[c], "upsertHourly") = 0
  BY <1>2, <1>4 DEF Weight
<1>10. spent' - DailyTotal' - Weight(call'[c], "upsertDaily")
         = spent - DailyTotal - Weight(call[c], "upsertDaily")
  BY <1>4, <1>7, <1>8, <1>9
<1>11. DailyTotal' - HourlyTotal' - Weight(call'[c], "upsertHourly")
         = DailyTotal - HourlyTotal - Weight(call[c], "upsertHourly")
  BY <1>4, <1>7, <1>8, <1>9
<1>12. QED  BY <1>2, <1>5, <1>6, <1>10, <1>11, NothingLost

\* The row of the hour takes over what the call held.
LEMMA LedgersRecordHourly ==
  ASSUME LedgersSafe, TypeOK', NEW c \in Calls, RecordHourly(c)
  PROVE  LedgersBehind'
<1> PICK tokens : tokens = call[c].tokens
  OBVIOUS
<1>1. TypeOK
  BY DEF LedgersSafe, CallsInv
<1>2. call[c].pc = "upsertHourly" /\ Settle(c) /\ UNCHANGED <<daily, spent, faults>>
      /\ hourly' = [hourly EXCEPT ![now] = @ + tokens]
  BY DEF RecordHourly, UpsertHourly, CurrentHourBucket
<1>3. tokens \in Nat
  BY <1>1, CallsTyped DEF CallType
<1>4. Moves(c) /\ call'[c] = Idle
  BY <1>1, <1>2, IdleType, MovesTo DEF Settle
<1>5. Capped(call'[c])
  BY <1>4, IdleType DEF Capped
<1>6. HourlyTotal' = HourlyTotal + tokens /\ HourlyTotal \in Nat
  <2> PICK before : before = hourly
    OBVIOUS
  <2> PICK after : after = hourly'
    OBVIOUS
  <2> PICK hour : hour = now
    OBVIOUS
  <2>1. MaxHour \in Nat /\ before \in [0..MaxHour -> Nat] /\ hour \in 0..MaxHour
    BY <1>1, RowTypes, DayTypes
  <2>2. after = [before EXCEPT ![hour] = @ + tokens]
    BY <1>2
  <2>3. after \in [0..MaxHour -> Nat] /\ after[hour] = before[hour] + tokens
        /\ \A i \in 0..MaxHour : i # hour => after[i] = before[i]
    BY <1>3, <2>1, <2>2
  <2>4. SumOfRows(before, MaxHour) \in Nat
        /\ SumOfRows(after, MaxHour) = SumOfRows(before, MaxHour) + tokens
    <3>1. RowGrows(before, after, hour, tokens, MaxHour)
      BY <1>3, <2>1, <2>3 DEF RowGrows
    <3>2. QED  BY <2>1, <3>1, SumAdds
  <2>5. HourlyTotal = SumOfRows(before, MaxHour)
    BY DEF HourlyTotal
  <2>6. HourlyTotal' = SumOfRows(after, MaxHour)
    BY DEF HourlyTotal, SumOfRows
  <2>7. QED  BY <2>4, <2>5, <2>6
<1>7. DailyTotal' = DailyTotal /\ DailyTotal \in Nat /\ spent \in Nat /\ spent' = spent
  BY <1>1, <1>2, SameRows, TotalTypes DEF TypeOK
<1>8. Weight(call'[c], "upsertDaily") = 0 /\ Weight(call[c], "upsertDaily") = 0
      /\ Weight(call'[c], "upsertHourly") = 0 /\ Weight(call[c], "upsertHourly") = tokens
  BY <1>2, <1>4, IdleType DEF Weight
<1>9. spent' - DailyTotal' - Weight(call'[c], "upsertDaily")
        = spent - DailyTotal - Weight(call[c], "upsertDaily")
  BY <1>7, <1>8
<1>10. DailyTotal' - HourlyTotal' - Weight(call'[c], "upsertHourly")
         = DailyTotal - HourlyTotal - Weight(call[c], "upsertHourly")
  BY <1>3, <1>6, <1>7, <1>8
<1>11. QED  BY <1>2, <1>4, <1>5, <1>9, <1>10, NothingLost

\* A query that fails keeps out of a ledger what the call held, which is no more than CallMax.
LEMMA LedgersQueryFails ==
  ASSUME LedgersSafe, TypeOK', NEW c \in Calls, QueryFails(c)
  PROVE  LedgersBehind'
<1>1. TypeOK /\ call \in [Calls -> CallType] /\ Capped(call[c])
  BY CallsTyped DEF LedgersSafe, CallsInv, LedgersBehind
<1>2. Settle(c) /\ faults' = faults + 1 /\ UNCHANGED <<daily, hourly, spent>>
  BY DEF QueryFails, budgetVars
<1>3. Moves(c) /\ call'[c] = Idle
  BY <1>1, <1>2, IdleType, MovesTo DEF Settle
<1>4. Capped(call'[c])
  BY <1>3, IdleType DEF Capped
<1>5. ASSUME NEW x \in Calls  PROVE Capped(call'[x])
  <2>1. CASE x = c
    BY <1>4, <2>1
  <2>2. CASE x # c
    <3>1. call'[x] = call[x] /\ Capped(call[x])
      BY <1>3, <2>2 DEF Moves, LedgersSafe, LedgersBehind
    <3>2. QED  BY <3>1
  <2>3. QED  BY <2>1, <2>2
<1>6. \A place \in {"upsertDaily", "upsertHourly"} :
        /\ Cardinality(InFlight(place)) \in Nat /\ Cardinality(InFlight(place)') \in Nat
        /\ Weight(call[c], place) \in Nat
        /\ Cardinality(InFlight(place)') - Weight(call'[c], place)
             = Cardinality(InFlight(place)) - Weight(call[c], place)
  BY <1>1, <1>3, <1>4, FlightMoves
<1>7. \A place \in {"upsertDaily", "upsertHourly"} : Weight(call'[c], place) = 0
  BY <1>3, IdleType DEF Weight
<1>8. CallMax \in Nat /\ \A place \in {"upsertDaily", "upsertHourly"} : Weight(call[c], place) <= CallMax
  BY <1>1, CallMaxBounds DEF Capped, Weight
<1>9. DailyTotal' = DailyTotal /\ HourlyTotal' = HourlyTotal /\ spent' = spent
      /\ DailyTotal \in Nat /\ HourlyTotal \in Nat /\ spent \in Nat
  BY <1>1, <1>2, SameRows, TotalTypes DEF TypeOK
<1>10. MostMissed \in Nat /\ CallMax * N \in Nat /\ CallMax <= CallMax * N
       /\ MostMissed' = MostMissed + CallMax * N
  BY <1>1, <1>2, MissedType
<1>11. \A place \in {"upsertDaily", "upsertHourly"} :
         Cardinality(InFlight(place)') <= Cardinality(InFlight(place))
         /\ Cardinality(InFlight(place)) <= Cardinality(InFlight(place)') + CallMax
  BY <1>6, <1>7, <1>8
<1>12. spent - DailyTotal - Cardinality(InFlight("upsertDaily")) \in 0..MostMissed
       /\ DailyTotal - HourlyTotal - Cardinality(InFlight("upsertHourly")) \in 0..MostMissed
  BY DEF LedgersSafe, LedgersBehind
<1>13. spent' - DailyTotal' - Cardinality(InFlight("upsertDaily")') \in 0..MostMissed'
  <2>1. Cardinality(InFlight("upsertDaily")) \in Nat /\ Cardinality(InFlight("upsertDaily")') \in Nat
        /\ Cardinality(InFlight("upsertDaily")') <= Cardinality(InFlight("upsertDaily"))
        /\ Cardinality(InFlight("upsertDaily")) <= Cardinality(InFlight("upsertDaily")') + CallMax
    BY <1>6, <1>11
  <2>2. QED  BY <1>8, <1>9, <1>10, <1>12, <2>1
<1>14. DailyTotal' - HourlyTotal' - Cardinality(InFlight("upsertHourly")') \in 0..MostMissed'
  <2>1. Cardinality(InFlight("upsertHourly")) \in Nat /\ Cardinality(InFlight("upsertHourly")') \in Nat
        /\ Cardinality(InFlight("upsertHourly")') <= Cardinality(InFlight("upsertHourly"))
        /\ Cardinality(InFlight("upsertHourly")) <= Cardinality(InFlight("upsertHourly")') + CallMax
    BY <1>6, <1>11
  <2>2. QED  BY <1>8, <1>9, <1>10, <1>12, <2>1
<1>15. QED  BY <1>5, <1>13, <1>14 DEF LedgersBehind, Capped

\* A restart keeps out what all the calls held.
LEMMA LedgersRestart ==
  ASSUME LedgersSafe, TypeOK', Restart
  PROVE  LedgersBehind'
<1>1. TypeOK
  BY DEF LedgersSafe, CallsInv
<1>2. call' = [c \in Calls |-> Idle] /\ faults' = faults + 1 /\ UNCHANGED <<daily, hourly, spent>>
  BY DEF Restart, BudgetRestart
<1>3. \A x \in Calls : Capped(call'[x])
  BY <1>2, IdleType DEF Capped
<1>4. \A place \in {"upsertDaily", "upsertHourly"} :
        Cardinality(InFlight(place)) \in Nat /\ Cardinality(InFlight(place)) <= CallMax * N
        /\ Cardinality(InFlight(place)') = 0
  <2> SUFFICES ASSUME NEW place \in {"upsertDaily", "upsertHourly"}
               PROVE  /\ Cardinality(InFlight(place)) \in Nat /\ Cardinality(InFlight(place)) <= CallMax * N
                      /\ Cardinality(InFlight(place)') = 0
    OBVIOUS
  <2>1. InFlight(place) \subseteq Calls \X (1..CallMax)
    BY DEF InFlight
  <2>2. InFlight(place)' = {}
    BY <1>2, IdleType DEF InFlight
  <2>3. QED  BY <2>1, <2>2, TokenSets, FS_EmptySet DEF N
<1>5. DailyTotal' = DailyTotal /\ HourlyTotal' = HourlyTotal /\ spent' = spent
      /\ DailyTotal \in Nat /\ HourlyTotal \in Nat /\ spent \in Nat
  BY <1>1, <1>2, SameRows, TotalTypes DEF TypeOK
<1>6. MostMissed \in Nat /\ CallMax * N \in Nat /\ MostMissed' = MostMissed + CallMax * N
  BY <1>1, <1>2, MissedType
<1>7. spent - DailyTotal - Cardinality(InFlight("upsertDaily")) \in 0..MostMissed
      /\ DailyTotal - HourlyTotal - Cardinality(InFlight("upsertHourly")) \in 0..MostMissed
  BY DEF LedgersSafe, LedgersBehind
<1>8. spent' - DailyTotal' - Cardinality(InFlight("upsertDaily")') \in 0..MostMissed'
  <2>1. Cardinality(InFlight("upsertDaily")) \in Nat /\ Cardinality(InFlight("upsertDaily")) <= CallMax * N
        /\ Cardinality(InFlight("upsertDaily")') = 0
    BY <1>4
  <2>2. QED  BY <1>5, <1>6, <1>7, <2>1
<1>9. DailyTotal' - HourlyTotal' - Cardinality(InFlight("upsertHourly")') \in 0..MostMissed'
  <2>1. Cardinality(InFlight("upsertHourly")) \in Nat /\ Cardinality(InFlight("upsertHourly")) <= CallMax * N
        /\ Cardinality(InFlight("upsertHourly")') = 0
    BY <1>4
  <2>2. QED  BY <1>5, <1>6, <1>7, <2>1
<1>10. QED  BY <1>3, <1>8, <1>9 DEF LedgersBehind, Capped

\* At the first start nothing was spent and nothing is recorded.
LEMMA LedgersInit == Init => LedgersBehind
<1> SUFFICES ASSUME Init  PROVE LedgersBehind
  OBVIOUS
<1>1. TypeOK /\ faults = 0 /\ spent = 0 /\ call = [c \in Calls |-> Idle]
  BY CallsInit DEF CallsInv, Init
<1>2. \A x \in Calls : Capped(call[x])
  BY <1>1, IdleType DEF Capped
<1>3. \A place \in {"upsertDaily", "upsertHourly"} : Cardinality(InFlight(place)) = 0
  <2>1. \A place \in {"upsertDaily", "upsertHourly"} : InFlight(place) = {}
    BY <1>1, IdleType DEF InFlight
  <2>2. QED  BY <2>1, FS_EmptySet
<1>4. DailyTotal = 0 /\ HourlyTotal = 0
  <2> PICK days : days = [d \in Days |-> daily[d].tokens]
    OBVIOUS
  <2>1. \A i \in 0..(MaxHour \div DayHours) : days[i] = 0
    BY DEF Init, BudgetInit, NoUsage, Days
  <2>2. \A i \in 0..MaxHour : hourly[i] = 0
    BY DEF Init, BudgetInit, Hours
  <2>3. MaxHour \in Nat /\ MaxHour \div DayHours \in Nat
    BY <1>1, RowTypes
  <2>4. SumOfRows(days, MaxHour \div DayHours) = 0 /\ SumOfRows(hourly, MaxHour) = 0
    BY <2>1, <2>2, <2>3, SumOfNothing
  <2>5. QED  BY <2>4 DEF DailyTotal, HourlyTotal
<1>5. MostMissed \in Nat
  BY <1>1, MissedType
<1>6. QED  BY <1>1, <1>2, <1>3, <1>4, <1>5 DEF LedgersBehind

\* Every step keeps the ledgers behind by what is in flight or was lost.
LEMMA LedgersNext == LedgersSafe /\ [Next]_vars => LedgersSafe'
<1> SUFFICES ASSUME LedgersSafe, [Next]_vars  PROVE LedgersSafe'
  OBVIOUS
<1>1. CallsInv' /\ TypeOK'
  BY CallsNext DEF LedgersSafe, CallsInv
<1>2. ASSUME NEW c \in Calls, CheckKill(c) \/ Step(c) \/ QueryFails(c)  PROVE LedgersBehind'
  BY <1>1, <1>2, LedgersCheckKill, LedgersCheckDaily, LedgersAttemptSucceeds, LedgersAttemptFails,
     LedgersRecordDaily, LedgersRecordHourly, LedgersQueryFails DEF Step
<1>3. ASSUME Restart  PROVE LedgersBehind'
  BY <1>1, <1>3, LedgersRestart
<1>4. ASSUME (\E c \in Calls : Delta(c)) \/ Sweep \/ Owner \/ Monitor \/ Clock \/ UNCHANGED vars
      PROVE  LedgersBehind'
  <2>1. CASE \E c \in Calls : Delta(c)
    BY <2>1, LedgersStay DEF LedgersSafe, Delta, budgetVars
  <2>2. CASE Sweep
    BY <2>2, LedgersStay DEF LedgersSafe, Sweep, CheckRunaway, callVars
  <2>3. CASE Owner
    BY <2>3, LedgersStay DEF LedgersSafe, Owner, Unpause
  <2>4. CASE Monitor
    BY <2>4, LedgersStay DEF LedgersSafe, Monitor, MonitorCheck, callVars
  <2>5. CASE Clock
    BY <2>5, LedgersStay DEF LedgersSafe, Clock, Tick, callVars
  <2>6. CASE UNCHANGED vars
    BY <2>6, LedgersStay DEF LedgersSafe, vars, budgetVars, callVars
  <2>7. QED  BY <1>4, <2>1, <2>2, <2>3, <2>4, <2>5, <2>6
<1>5. LedgersBehind'
  <2>1. CASE UNCHANGED vars
    BY <1>4, <2>1
  <2>2. CASE Next
    BY <1>2, <1>3, <1>4, <2>2 DEF Next
  <2>3. QED  BY <2>1, <2>2
<1>6. QED  BY <1>1, <1>5 DEF LedgersSafe

\* What is in flight at a place is no more than CallMax of each call there.
LEMMA FlightBounded ==
  ASSUME NEW place
  PROVE  /\ Cardinality(InFlight(place)) \in Nat /\ CallMax * Cardinality(Recording({place})) \in Nat
         /\ Cardinality(InFlight(place)) <= CallMax * Cardinality(Recording({place}))
<1>1. Recording({place}) \subseteq Calls
  BY DEF Recording
<1>2. InFlight(place) \subseteq Recording({place}) \X (1..CallMax)
  BY DEF InFlight, Recording
<1>3. CallMax \in Nat /\ Cardinality(Recording({place})) \in Nat
  BY <1>1, CallMaxBounds, CallSets
<1>4. QED  BY <1>1, <1>2, <1>3, TokenSets

\* However the calls interleave, fail and are cut off by restarts: the row of the day and that of the
\* hour never hold more than the providers billed, and miss only what calls still to be recorded hold
\* and, for each fault, what the calls it could hit held.
THEOREM LedgersAreNeverAhead == Spec => []LedgersTrackSpend
<1>1. Init => LedgersSafe
  BY CallsInit, LedgersInit DEF LedgersSafe
<1>2. LedgersSafe /\ [Next]_vars => LedgersSafe'
  BY LedgersNext
<1>3. LedgersSafe => LedgersTrackSpend
  <2> SUFFICES ASSUME LedgersSafe  PROVE LedgersTrackSpend
    OBVIOUS
  <2>1. TypeOK
    BY DEF LedgersSafe, CallsInv
  <2>2. DailyTotal \in Nat /\ HourlyTotal \in Nat /\ spent \in Nat /\ MostMissed \in Nat
    BY <2>1, TotalTypes, MissedType DEF TypeOK
  <2>3. spent - DailyTotal - Cardinality(InFlight("upsertDaily")) \in 0..MostMissed
        /\ DailyTotal - HourlyTotal - Cardinality(InFlight("upsertHourly")) \in 0..MostMissed
    BY DEF LedgersSafe, LedgersBehind
  <2>4. spent - DailyTotal \in 0..(CallMax * Cardinality(Recording({"upsertDaily"})) + MostMissed)
    <3>1. /\ Cardinality(InFlight("upsertDaily")) \in Nat
          /\ CallMax * Cardinality(Recording({"upsertDaily"})) \in Nat
          /\ Cardinality(InFlight("upsertDaily")) <= CallMax * Cardinality(Recording({"upsertDaily"}))
      BY FlightBounded
    <3>2. QED  BY <2>2, <2>3, <3>1
  <2>5. DailyTotal - HourlyTotal \in 0..(CallMax * Cardinality(Recording({"upsertHourly"})) + MostMissed)
    <3>1. /\ Cardinality(InFlight("upsertHourly")) \in Nat
          /\ CallMax * Cardinality(Recording({"upsertHourly"})) \in Nat
          /\ Cardinality(InFlight("upsertHourly")) <= CallMax * Cardinality(Recording({"upsertHourly"}))
      BY FlightBounded
    <3>2. QED  BY <2>2, <2>3, <3>1
  <2>6. QED  BY <2>4, <2>5 DEF LedgersTrackSpend, MostMissed, N
<1>4. QED  BY <1>1, <1>2, <1>3, PTL DEF Spec
=============================================================================
