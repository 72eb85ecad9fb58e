----------------------------- MODULE HealthProofs -----------------------------
(***************************************************************************)
(* Theorems about Health, for every value of its constants.                *)
(***************************************************************************)
EXTENDS Health, FiniteSetTheorems, WellFoundedInduction, TLAPS

-----------------------------------------------------------------------------
(* The invariant *)

Past == 0 .. clock
NoneOr(S) == S \cup {Never}

Asleep ==
  /\ collector = Sleeping(Never) /\ ticker = Sleeping(Never)
  /\ lastInsert = Never /\ breached = FALSE

Typed ==
  /\ TypeOK /\ IsFiniteSet(rows)
  /\ collector.ts \in NoneOr(Past) /\ ticker.ts \in NoneOr(Past)
  /\ collector.at = "insert" => collector.ts \in Past /\ ~({"warn", "ok"} \subseteq collector.event)
  /\ ticker.at = "insert" => ticker.ts \in Past
  /\ phase # "running" => Asleep
  /\ IF phase \in {"backfill", "tag"} THEN found.newest \in Past /\ found.now \in Past
     ELSE phase \in {"down", "detect"} => found.now = Never

\* The rows of a kind are older than this process, or its last job of that kind.
Behind(job, kind) ==
  \A r \in rows : r.kind = kind =>
    \/ r.ts < since
    \/ job.ts # Never /\ r.ts <= job.ts /\ (job.at = "insert" => r.ts < job.ts)

\* A job that is about to insert is of this process, and later than any backfill.
Later(job) == job.at = "insert" => job.ts >= since /\ \A r \in rows : r.kind = "outage" => r.ts < job.ts

\* No two rows of a second, but for a real one and a repetition of it.
Apart(S) == \A r, s \in S : r.ts = s.ts => r = s \/ {r.kind, s.kind} = {"real", "synthetic"}

RowsInv ==
  /\ Apart(rows)
  /\ \A r \in rows : r.event \cap {"warn", "ok"} # {} => r.kind = "real"
  /\ IF phase = "down" THEN \A r \in rows : r.ts <= since
     ELSE /\ Behind(collector, "real") /\ Behind(ticker, "synthetic")
          /\ \A r \in rows : r.kind = "outage" => r.ts < clock
          /\ Later(collector) /\ Later(ticker)

\* The crossings that this process has told, and what a reader takes from them.
Told == {r \in rows : r.ts >= since /\ r.event \cap {"warn", "ok"} # {}}
Reads(b) ==
  IF Told = {} THEN b => since < clock - Retention
  ELSE \E r \in Told : (\A s \in Told : s.ts <= r.ts) /\ (b <=> "warn" \in r.event)

\* While a sample is on its way to the table the reader is one crossing behind.
ToldInv ==
  refusals = 0 /\ phase = "running" =>
    IF collector.at # "insert" THEN Reads(breached)
    ELSE \E b \in BOOLEAN : /\ Reads(b)
                            /\ collector.event \cap {"warn", "ok"}
                                 = IF b = breached THEN {} ELSE IF breached THEN {"warn"} ELSE {"ok"}

\* What a start has found is still there, and what it filled in.
StartInv ==
  /\ phase \in {"backfill", "tag"} => found.newest \in Times
  /\ phase = "tag" /\ refusals = 0 => Outage \subseteq Times

HealthInv == Typed /\ RowsInv /\ ToldInv /\ StartInv

-----------------------------------------------------------------------------
(* Numbers *)

\* A set of numbers up to n that is not empty has a largest element: the one
\* that is nearest to n.
LEMMA MaxExists ==
  ASSUME NEW n \in Nat, NEW S \in SUBSET (0 .. n), S # {}
  PROVE  Max(S) \in S /\ \A y \in S : Max(S) >= y
<1> DEFINE T == {x \in Nat : n - x \in S}
           R == OpToRel(<, Nat)
<1>1. T \subseteq Nat /\ T # {}
  <2>1. PICK y \in S : TRUE
    OBVIOUS
  <2>2. n - y \in T
    OBVIOUS
  <2> QED BY <2>2
<1>2. PICK x \in T : \A y \in T : <<y, x>> \notin R
  <2> HIDE DEF T, R
  <2> QED BY <1>1, NatLessThanWellFounded, WFMin DEF R
<1>3. \A y \in T : ~(y < x)
  BY <1>1, <1>2 DEF OpToRel
<1>4. n - x \in S /\ \A y \in S : n - x >= y
  <2>1. \A y \in S : n - y \in T
    OBVIOUS
  <2> QED BY <1>3, <2>1
<1> QED BY <1>4 DEF Max

LEMMA MaxTwo ==
  ASSUME NEW a \in Int, NEW b \in Int
  PROVE  Max({a, b}) = IF a >= b THEN a ELSE b
  BY DEF Max

LEMMA NewestRow ==
  ASSUME Typed, rows # {}
  PROVE  Newest \in Times /\ Newest \in Past /\ \A t \in Times : t <= Newest
<1>1. Times \in SUBSET (0 .. clock) /\ Times # {} /\ clock \in Nat
  BY HealthAssumption DEF Typed, TypeOK, Times
<1> QED BY <1>1, MaxExists DEF Newest, Past

LEMMA Backfilled ==
  ASSUME Typed, phase \in {"backfill", "tag"}
  PROVE  /\ BackfillStart \in Int /\ BackfillStart >= found.newest
         /\ BackfillStart = found.newest \/ BackfillStart = found.now - Retention
         /\ BackfillStart >= found.now - Retention
         /\ Outage \subseteq 0 .. clock /\ IsFiniteSet(Outage)
         /\ \A t \in Outage : t < found.now /\ found.now <= clock
<1>1. found.newest \in 0 .. clock /\ found.now \in 0 .. clock /\ clock \in Nat /\ Retention \in Nat
  BY HealthAssumption DEF Typed, Past, TypeOK
<1>2. BackfillStart = IF found.newest >= found.now - Retention THEN found.newest ELSE found.now - Retention
  BY <1>1, MaxTwo DEF BackfillStart
<1>3. Outage \subseteq 0 .. clock
  BY <1>1, <1>2 DEF Outage
<1>4. IsFiniteSet(Outage)
  <2>1. IsFiniteSet(0 .. clock)
    BY <1>1, FS_Interval
  <2> QED BY <1>3, <2>1, FS_Subset
<1> QED BY <1>1, <1>2, <1>3, <1>4 DEF Outage

LEMMA FiniteImage ==
  ASSUME NEW S, IsFiniteSet(S), NEW f
  PROVE  IsFiniteSet({f[x] : x \in S})
<1> DEFINE g == [x \in S |-> f[x]]
           T == {f[x] : x \in S}
<1>1. g \in Surjection(S, T)
  BY DEF Surjection
<1> HIDE DEF g, T
<1>2. IsFiniteSet(T)
  BY <1>1, FS_Surjection
<1> QED BY <1>2 DEF T

\* The tagging gives two rows of an outage an event that is no crossing, and nothing else.
LEMMA TagRows ==
  ASSUME rows \subseteq [ts : 0 .. clock, kind : Kinds, event : SUBSET Events], Tag
  PROVE  \E f \in [rows -> [ts : 0 .. clock, kind : Kinds, event : SUBSET Events]] :
           /\ rows' = {f[r] : r \in rows}
           /\ \A r \in rows :
                \/ f[r] = r
                \/ /\ f[r].ts = r.ts /\ f[r].kind = r.kind /\ r.kind = "outage" /\ r.event = {}
                   /\ f[r].event \cap {"warn", "ok"} = {}
<1> DEFINE Type == [ts : 0 .. clock, kind : Kinds, event : SUBSET Events]
           Set(r, e) == [r EXCEPT !.event = {e}]
<1>1. \A r \in rows, e \in {"offline", "restored"} :
         Set(r, e) \in Type /\ Set(r, e).ts = r.ts /\ Set(r, e).kind = r.kind /\ Set(r, e).event = {e}
  BY DEF Events
<1>2. CASE UNCHANGED rows
  <2>1. [r \in rows |-> r] \in [rows -> Type] /\ rows' = {[q \in rows |-> q][r] : r \in rows}
    BY <1>2
  <2> QED BY <2>1
<1>3. CASE ~UNCHANGED rows
  <2>1. PICK first \in SUBSET rows, last \in SUBSET rows :
          /\ first \cap last = {} /\ \A r \in first \cup last : r.kind = "outage" /\ r.event = {}
          /\ rows' = (rows \ (first \cup last)) \cup {Set(r, "offline") : r \in first}
                                                \cup {Set(r, "restored") : r \in last}
    <3> DEFINE times == {r.ts : r \in {r \in rows : r.kind = "outage" /\ r.ts > BackfillStart}}
               first == IF times = {} THEN {} ELSE Untagged(Min(times))
               last == IF times = {} THEN {} ELSE Untagged(Max(times)) \ first
    <3>1. rows' = (rows \ (first \cup last)) \cup {Set(r, "offline") : r \in first}
                                             \cup {Set(r, "restored") : r \in last}
      BY <1>3 DEF Tag
    <3>2. /\ first \subseteq rows /\ last \subseteq rows /\ first \cap last = {}
          /\ \A r \in first \cup last : r.kind = "outage" /\ r.event = {}
      <4> HIDE DEF times
      <4> QED BY DEF Untagged
    <3> HIDE DEF first, last, Set
    <3> QED BY <3>1, <3>2
  <2> DEFINE f == [r \in rows |-> IF r \in first THEN Set(r, "offline")
                                  ELSE IF r \in last THEN Set(r, "restored") ELSE r]
  <2>2. f \in [rows -> Type]
    <3> HIDE DEF Set, Type
    <3> SUFFICES rows \subseteq Type
      BY <1>1
    <3> QED BY DEF Type
  <2>3. rows' = {f[r] : r \in rows}
    <3> HIDE DEF Set
    <3> QED BY <2>1
  <2>4. \A r \in rows :
          \/ f[r] = r
          \/ /\ f[r].ts = r.ts /\ f[r].kind = r.kind /\ r.kind = "outage" /\ r.event = {}
             /\ f[r].event \cap {"warn", "ok"} = {}
    <3> HIDE DEF Set
    <3> QED BY <1>1, <2>1
  <2> HIDE DEF f
  <2> QED BY <2>2, <2>3, <2>4
<1> QED BY <1>2, <1>3

-----------------------------------------------------------------------------
(* Types *)

LEMMA Bounds ==
  /\ SYNTHETIC_INTERVAL \in Nat /\ OUTAGE_THRESHOLD \in Nat /\ Retention \in Nat /\ Hour \in Nat
  /\ PruneEvery \in Nat /\ MAX_DISPLAY \in Nat
  /\ 0 < SYNTHETIC_INTERVAL /\ 0 < Hour /\ 0 < PruneEvery /\ 0 < MAX_DISPLAY
  /\ SYNTHETIC_INTERVAL < OUTAGE_THRESHOLD /\ OUTAGE_THRESHOLD < Retention
  /\ MaxClock \in Nat /\ MaxCrashes \in Nat /\ MaxRefusals \in Nat
  /\ Never \notin Int
  BY HealthAssumption

\* What a process that remembers nothing looks like is well typed.
LEMMA SleepingTypes ==
  ASSUME NEW at \in MaybeTime
  PROVE  /\ Sleeping(at) \in [at : {"sleep", "insert", "remember"}, ts : MaybeTime, event : SUBSET Events]
         /\ Sleeping(at) \in [at : {"sleep", "insert"}, ts : MaybeTime, event : {{}}]
         /\ Sleeping(at).at = "sleep" /\ Sleeping(at).ts = at
  BY DEF Sleeping

LEMMA TypedInit ==
  ASSUME Init
  PROVE  Typed
<1>1. IsFiniteSet(rows) /\ rows = {}
  BY FS_EmptySet DEF Init
<1>2. Never \in MaybeTime
  BY DEF MaybeTime
<1>3. TypeOK
  <2>1. /\ clock \in 0 .. MaxClock /\ crashes \in 0 .. MaxCrashes /\ refusals \in 0 .. MaxRefusals
        /\ since \in -1 .. clock /\ polls \in 0 .. PruneEvery - 1
    BY Bounds DEF Init
  <2>2. found \in [newest : MaybeTime, now : MaybeTime]
    BY <1>2 DEF Init
  <2> QED BY <1>1, <1>2, <2>1, <2>2, SleepingTypes DEF Init, TypeOK
<1>4. Asleep
  BY DEF Init, Asleep
<1> QED BY <1>1, <1>2, <1>3, <1>4, SleepingTypes DEF Init, Typed, NoneOr

\* A row is added to the table, or not.
LEMMA TypedInsert ==
  ASSUME Typed, NEW job, NEW kind \in Kinds, job.ts \in Past, job.event \in SUBSET Events,
         _insert_metric(job, kind)
  PROVE  /\ refusals' \in 0 .. MaxRefusals
         /\ rows' \subseteq [ts : 0 .. clock, kind : Kinds, event : SUBSET Events] /\ IsFiniteSet(rows')
         /\ lastInsert' \in MaybeTime
<1>1. IsFiniteSet(rows \cup {Row(job.ts, kind, job.event)})
  BY FS_AddElement DEF Typed
<1>2. clock \in 0 .. MaxClock /\ MaxClock \in Nat /\ MaxRefusals \in Nat
  BY Bounds DEF Typed, TypeOK
<1>3. Row(job.ts, kind, job.event) \in [ts : 0 .. clock, kind : Kinds, event : SUBSET Events]
  BY DEF Row, Past
<1>4. CASE Debounced(job.event)
  BY <1>4 DEF _insert_metric, Typed, TypeOK
<1>5. CASE ~Debounced(job.event) /\ Accepts
  BY <1>1, <1>2, <1>3, <1>5 DEF _insert_metric, Accepts, Refuses, Typed, TypeOK, MaybeTime
<1>6. CASE ~Debounced(job.event) /\ Refuses
  BY <1>1, <1>2, <1>3, <1>6 DEF _insert_metric, Accepts, Refuses, Typed, TypeOK, MaybeTime
<1> QED BY <1>4, <1>5, <1>6 DEF _insert_metric

LEMMA TypedStartup ==
  ASSUME Typed, Startup
  PROVE  Typed'
<1>0. clock \in Nat /\ clock <= MaxClock /\ Past \subseteq MaybeTime /\ Never \in MaybeTime
  BY Bounds DEF Typed, TypeOK, Past, MaybeTime
<1>1. CASE Start
  BY <1>0, <1>1, Bounds DEF Start, clocks, memory, Typed, TypeOK, NoneOr, Past, Asleep
<1>2. CASE Detect
  <2>1. rows # {} => Newest \in Past
    BY NewestRow
  <2>2. UNCHANGED <<clock, crashes, refusals, rows, since, collector, ticker,
                    lastInsert, breached, summary, polls>>
    BY <1>2 DEF Detect, Accepts
  <2>3. Asleep /\ Asleep'
    BY <1>2, <2>2 DEF Detect, Typed, Asleep
  <2>4. /\ phase' \in {"running", "backfill"} /\ lastReal' \in MaybeTime
        /\ IF phase' = "backfill" THEN found'.newest \in Past /\ found'.now \in Past ELSE TRUE
        /\ found' \in [newest : MaybeTime, now : MaybeTime]
    BY <1>0, <1>2, <2>1 DEF Detect, Typed, TypeOK, Past
  <2>5. TypeOK'
    BY <2>2, <2>4 DEF Typed, TypeOK, MaybeTime
  <2> QED BY <2>2, <2>3, <2>4, <2>5 DEF Typed, Past, NoneOr
<1>3. CASE DetectFails
  <2>1. refusals' \in 0 .. MaxRefusals
    BY <1>3, Bounds DEF DetectFails, Refuses, Typed, TypeOK
  <2> QED BY <1>0, <1>3, <2>1 DEF DetectFails, memory, Typed, TypeOK, NoneOr, Past, Asleep, MaybeTime
<1>4. CASE Backfill
  <2> DEFINE new == {Row(t, "outage", {}) : t \in Outage \ Times}
  <2>1. Outage \subseteq 0 .. clock /\ IsFiniteSet(Outage)
    BY <1>4, Backfilled DEF Backfill
  <2>2. new \subseteq [ts : 0 .. clock, kind : Kinds, event : SUBSET Events]
    BY <2>1 DEF Row, Kinds
  <2>3. IsFiniteSet(new)
    <3>1. IsFiniteSet(Outage \ Times)
      BY <2>1, FS_Subset
    <3>2. new = {[u \in Outage \ Times |-> Row(u, "outage", {})][t] : t \in Outage \ Times}
      OBVIOUS
    <3> HIDE DEF new
    <3> QED BY <3>1, <3>2, FiniteImage
  <2>4. rows' \in {rows, rows \cup new} /\ refusals' \in 0 .. MaxRefusals
    BY <1>4, Bounds DEF Backfill, Accepts, Refuses, Typed, TypeOK
  <2> HIDE DEF new
  <2>5. IsFiniteSet(rows')
    <3>1. IsFiniteSet(rows) /\ IsFiniteSet(rows \cup new)
      BY <2>3, FS_Union DEF Typed
    <3> QED BY <2>4, <3>1
  <2>6. rows' \subseteq [ts : 0 .. clock, kind : Kinds, event : SUBSET Events]
    BY <2>2, <2>4 DEF Typed, TypeOK
  <2> QED BY <1>0, <1>4, <2>4, <2>5, <2>6 DEF Backfill, memory, Typed, TypeOK, NoneOr, Past, Asleep, MaybeTime
<1>5. CASE Tag
  <2>1. /\ IsFiniteSet(rows') /\ rows' \subseteq [ts : 0 .. clock, kind : Kinds, event : SUBSET Events]
        /\ refusals' \in 0 .. MaxRefusals
    <3>1. rows \subseteq [ts : 0 .. clock, kind : Kinds, event : SUBSET Events] /\ IsFiniteSet(rows)
      BY DEF Typed, TypeOK
    <3>2. PICK f \in [rows -> [ts : 0 .. clock, kind : Kinds, event : SUBSET Events]] : rows' = {f[r] : r \in rows}
      BY <1>5, <3>1, TagRows
    <3>3. refusals' \in 0 .. MaxRefusals
      BY <1>5, Bounds DEF Tag, Accepts, Refuses, Typed, TypeOK
    <3> QED BY <3>1, <3>2, <3>3, FiniteImage
  <2> QED BY <1>0, <1>5, <2>1 DEF Tag, memory, Typed, TypeOK, NoneOr, Past, Asleep, MaybeTime
<1> QED BY <1>1, <1>2, <1>3, <1>4, <1>5 DEF Startup

\* The times of this process are times.
LEMMA PastTimes ==
  ASSUME Typed
  PROVE  /\ clock \in Nat /\ clock <= MaxClock /\ MaxClock \in Nat
         /\ clock \in Past /\ Past \subseteq MaybeTime /\ Never \in MaybeTime
         /\ \A x \in Past : x \in Int /\ x <= clock
  BY Bounds DEF Typed, TypeOK, Past, MaybeTime

LEMMA TypedCollect ==
  ASSUME Typed, _bg_collect
  PROVE  Typed'
<1>0. /\ clock \in Nat /\ clock <= MaxClock /\ MaxClock \in Nat
      /\ clock \in Past /\ Past \subseteq MaybeTime /\ Never \in MaybeTime
      /\ \A x \in Past : x \in Int /\ x <= clock
  BY PastTimes
<1>1. ASSUME NEW breach \in BOOLEAN, Measure(breach)
      PROVE  Typed'
  <2>1. UNCHANGED <<clock, crashes, refusals, rows, phase, since, found, ticker, lastReal, lastInsert, polls>>
        /\ phase = "running"
    BY <1>1 DEF Measure, clocks, start
  <2>2. /\ collector'.at = "insert" /\ collector'.ts = clock /\ collector'.event \in SUBSET Events
        /\ ~({"warn", "ok"} \subseteq collector'.event)
        /\ collector' \in [at : {"sleep", "insert", "remember"}, ts : MaybeTime, event : SUBSET Events]
    BY <1>0, <1>1 DEF Measure, Crossing, Events
  <2>3. breached' \in BOOLEAN /\ summary' \in Nat
    BY <1>0, <1>1, Bounds DEF Measure
  <2> QED BY <1>0, <2>1, <2>2, <2>3 DEF Typed, TypeOK, NoneOr, Past, MaybeTime
<1>2. CASE InsertReal
  <2>1. collector.ts \in Past /\ collector.event \in SUBSET Events /\ "real" \in Kinds
    BY <1>2 DEF InsertReal, Typed, TypeOK, Kinds
  <2>2. /\ refusals' \in 0 .. MaxRefusals
        /\ rows' \subseteq [ts : 0 .. clock, kind : Kinds, event : SUBSET Events] /\ IsFiniteSet(rows')
        /\ lastInsert' \in MaybeTime
    BY <1>2, <2>1, TypedInsert DEF InsertReal
  <2>3. /\ collector' \in [at : {"sleep", "insert", "remember"}, ts : MaybeTime, event : SUBSET Events]
        /\ collector'.at = "remember" /\ collector'.ts = collector.ts
    BY <1>2 DEF InsertReal, AfterRefusal, Typed, TypeOK
  <2>4. UNCHANGED <<clock, crashes, phase, since, found, ticker, lastReal, breached, summary, polls>>
        /\ phase = "running"
    BY <1>2 DEF InsertReal, start
  <2> QED BY <1>0, <2>1, <2>2, <2>3, <2>4 DEF Typed, TypeOK, NoneOr, Past, MaybeTime
<1>3. CASE Remember
  <2>1. /\ UNCHANGED <<clock, crashes, phase, since, found, ticker, lastInsert, breached, summary>>
        /\ phase = "running" /\ lastReal' = collector.ts /\ collector' = Sleeping(clock)
    BY <1>3 DEF Remember, start
  <2>2. rows' \subseteq rows /\ refusals' \in 0 .. MaxRefusals
    BY <1>3, Bounds DEF Remember, Accepts, Refuses, Typed, TypeOK
  <2>3. polls' \in 0 .. PruneEvery - 1
    BY <1>3, Bounds DEF Remember, PruneDue, Typed, TypeOK
  <2>4. IsFiniteSet(rows')
    BY <2>2, FS_Subset DEF Typed
  <2>5. /\ lastReal' \in MaybeTime
        /\ collector' \in [at : {"sleep", "insert", "remember"}, ts : MaybeTime, event : SUBSET Events]
        /\ collector'.at = "sleep" /\ collector'.ts = clock
    BY <1>0, <2>1, SleepingTypes DEF Typed, TypeOK
  <2> QED BY <1>0, <2>1, <2>2, <2>3, <2>4, <2>5 DEF Typed, TypeOK, NoneOr, Past, MaybeTime
<1> QED BY <1>1, <1>2, <1>3 DEF _bg_collect, collect_vm

LEMMA TypedSynthetic ==
  ASSUME Typed, _bg_synthetic
  PROVE  Typed'
<1>0. /\ clock \in Nat /\ clock <= MaxClock /\ MaxClock \in Nat
      /\ clock \in Past /\ Past \subseteq MaybeTime /\ Never \in MaybeTime
      /\ \A x \in Past : x \in Int /\ x <= clock
  BY PastTimes
<1>1. CASE Repeat
  <2>1. UNCHANGED <<clock, crashes, refusals, rows, phase, since, found, collector,
                  lastReal, lastInsert, breached, summary, polls>>
        /\ phase = "running"
    BY <1>1 DEF Repeat, clocks, start, memory
  <2>2. ticker' \in [at : {"sleep", "insert"}, ts : MaybeTime, event : {{}}] /\ ticker'.ts = clock
    BY <1>0, <1>1 DEF Repeat, Sleeping
  <2> QED BY <1>0, <2>1, <2>2 DEF Typed, TypeOK, NoneOr, Past, MaybeTime
<1>2. CASE InsertSynthetic
  <2>1. ticker.ts \in Past /\ ticker.event \in SUBSET Events /\ "synthetic" \in Kinds
    BY <1>2 DEF InsertSynthetic, Typed, TypeOK, Kinds
  <2>2. /\ refusals' \in 0 .. MaxRefusals
        /\ rows' \subseteq [ts : 0 .. clock, kind : Kinds, event : SUBSET Events] /\ IsFiniteSet(rows')
        /\ lastInsert' \in MaybeTime
    BY <1>2, <2>1, TypedInsert DEF InsertSynthetic
  <2>3. ticker' \in [at : {"sleep", "insert"}, ts : MaybeTime, event : {{}}]
        /\ ticker'.at = "sleep" /\ ticker'.ts = clock
    BY <1>0, <1>2, SleepingTypes DEF InsertSynthetic
  <2>4. UNCHANGED <<clock, crashes, phase, since, found, collector, lastReal, breached, summary, polls>>
        /\ phase = "running"
    BY <1>2 DEF InsertSynthetic, start
  <2> QED BY <1>0, <2>1, <2>2, <2>3, <2>4 DEF Typed, TypeOK, NoneOr, Past, MaybeTime
<1> QED BY <1>1, <1>2 DEF _bg_synthetic

LEMMA TypedTime ==
  ASSUME Typed, Tick \/ Crash \/ UNCHANGED vars
  PROVE  Typed'
<1>0. /\ clock \in Nat /\ clock <= MaxClock /\ MaxClock \in Nat
      /\ clock \in Past /\ Past \subseteq MaybeTime /\ Never \in MaybeTime
      /\ \A x \in Past : x \in Int /\ x <= clock
  BY PastTimes
<1>1. CASE Tick
  <2>1. UNCHANGED <<crashes, refusals, rows, phase, since, found, collector, ticker,
                    lastReal, lastInsert, breached, summary, polls>>
        /\ clock' = clock + 1 /\ clock' \in 0 .. MaxClock
    BY <1>0, <1>1 DEF Tick, start, memory
  <2>2. 0 .. clock \subseteq 0 .. clock' /\ -1 .. clock \subseteq -1 .. clock'
    BY <1>0, <2>1
  <2>3. rows' \subseteq [ts : 0 .. clock', kind : Kinds, event : SUBSET Events]
    BY <2>1, <2>2 DEF Typed, TypeOK
  <2> QED BY <2>1, <2>2, <2>3 DEF Typed, TypeOK, NoneOr, Past, MaybeTime, Asleep
<1>2. CASE Crash
  <2>1. UNCHANGED <<clock, refusals, rows>> /\ crashes' \in 0 .. MaxCrashes
        /\ phase' = "down" /\ since' = clock /\ found' = [newest |-> Never, now |-> Never]
    BY <1>2, Bounds DEF Crash, Typed, TypeOK
  <2>2. Asleep' /\ lastReal' = Never /\ summary' = Never /\ polls' = 0
    BY <1>2 DEF Crash, Forget, Asleep
  <2>3. /\ collector' \in [at : {"sleep", "insert", "remember"}, ts : MaybeTime, event : SUBSET Events]
        /\ ticker' \in [at : {"sleep", "insert"}, ts : MaybeTime, event : {{}}]
        /\ collector'.at = "sleep" /\ collector'.ts = Never /\ ticker'.at = "sleep" /\ ticker'.ts = Never
        /\ lastInsert' = Never /\ breached' = FALSE
    BY <1>0, <2>2, SleepingTypes DEF Asleep
  <2>4. since' \in -1 .. clock /\ found' \in [newest : MaybeTime, now : MaybeTime] /\ polls' \in 0 .. PruneEvery - 1
    BY <1>0, <2>1, <2>2, Bounds
  <2> QED BY <1>0, <2>1, <2>2, <2>3, <2>4 DEF Typed, TypeOK, NoneOr, Past, MaybeTime
<1>3. CASE UNCHANGED vars
  BY <1>3 DEF vars, clocks, start, memory, Typed, TypeOK, NoneOr, Past, MaybeTime, Asleep
<1> QED BY <1>1, <1>2, <1>3

\* TypeOK holds in every state.
THEOREM TypeCorrect == Spec => []TypeOK
<1>1. Init => Typed
  BY TypedInit
<1>2. Typed /\ [Next]_vars => Typed'
  BY TypedStartup, TypedCollect, TypedSynthetic, TypedTime DEF Next
<1>3. Typed => TypeOK
  BY DEF Typed
<1> QED BY <1>1, <1>2, <1>3, PTL DEF Spec

-----------------------------------------------------------------------------
(* The rows *)

LEMMA RowTimes ==
  ASSUME Typed
  PROVE  /\ \A r \in rows : r.ts \in Nat /\ r.ts <= clock
         /\ clock \in Nat /\ since \in Int /\ since <= clock
         /\ collector.ts \in Nat \cup {Never} /\ ticker.ts \in Nat \cup {Never} /\ Never \notin Nat
         /\ collector.ts # Never => collector.ts <= clock
         /\ ticker.ts # Never => ticker.ts <= clock
<1>1. clock \in Nat /\ since \in Int /\ since <= clock /\ Never \notin Nat
  BY Bounds DEF Typed, TypeOK
<1> QED BY <1>1 DEF Typed, TypeOK, NoneOr, Past

LEMMA RowsStartup ==
  ASSUME Typed, RowsInv, Startup
  PROVE  RowsInv'
<1>0. /\ \A r \in rows : r.ts \in Nat /\ r.ts <= clock
      /\ clock \in Nat /\ since \in Int /\ since <= clock
      /\ collector.ts \in Nat \cup {Never} /\ ticker.ts \in Nat \cup {Never} /\ Never \notin Nat
  BY RowTimes
<1>0a. phase # "running" => collector.at = "sleep" /\ ticker.at = "sleep"
  BY DEF Typed, Asleep, Sleeping
<1>1. CASE Start
  BY <1>0, <1>0a, <1>1 DEF Start, clocks, RowsInv, Behind, Later
<1>2. CASE Detect \/ DetectFails
  BY <1>2 DEF Detect, DetectFails, RowsInv, Behind, Later
<1>3. CASE Backfill
  <2> DEFINE new == {Row(t, "outage", {}) : t \in Outage \ Times}
  <2>1. /\ \A r \in new : r.ts \in Nat /\ r.ts < clock /\ r.kind = "outage" /\ r.event = {} /\ r.ts \notin Times
        /\ \A r, s \in new : r.ts = s.ts => r = s
    <3>1. Outage \subseteq 0 .. clock /\ (\A t \in Outage : t < found.now) /\ found.now <= clock /\ found.now \in Nat
      BY <1>3, Backfilled DEF Backfill, Typed, Past
    <3> QED BY <1>0, <3>1 DEF Row
  <2>2. rows' \subseteq rows \cup new /\ phase = "backfill" /\ phase' = "tag"
        /\ UNCHANGED <<clock, since, collector, ticker>>
    BY <1>3 DEF Backfill
  <2> HIDE DEF new
  <2>3. Apart(rows')
    BY <2>1, <2>2 DEF RowsInv, Apart, Times
  <2> QED BY <1>0a, <2>1, <2>2, <2>3 DEF RowsInv, Behind, Later
<1>4. CASE Tag
  <2>1. UNCHANGED <<clock, since, collector, ticker>> /\ phase = "tag" /\ phase' = "running"
    BY <1>4 DEF Tag
  <2>2. PICK f : /\ rows' = {f[r] : r \in rows}
                 /\ \A r \in rows :
                      \/ f[r] = r
                      \/ /\ f[r].ts = r.ts /\ f[r].kind = r.kind /\ r.kind = "outage" /\ r.event = {}
                         /\ f[r].event \cap {"warn", "ok"} = {}
    BY <1>4, TagRows DEF Typed, TypeOK
  <2>3. \A q \in rows' : \E r \in rows :
          /\ q = f[r] /\ q.ts = r.ts /\ q.kind = r.kind
          /\ q.event \cap {"warn", "ok"} # {} => q.event = r.event
    BY <2>2
  <2>4. Apart(rows')
    BY <2>2, <2>3 DEF RowsInv, Apart
  <2>5. \A r \in rows' : r.event \cap {"warn", "ok"} # {} => r.kind = "real"
    BY <2>3 DEF RowsInv
  <2> QED BY <1>0a, <2>1, <2>3, <2>4, <2>5 DEF RowsInv, Behind, Later
<1> QED BY <1>1, <1>2, <1>3, <1>4 DEF Startup

\* A thread adds its row: no other row of its kind has that time.
LEMMA RowAdded ==
  ASSUME Typed, RowsInv, phase # "down", NEW job, NEW kind \in {"real", "synthetic"},
         job.at = "insert", job.ts \in Nat, Behind(job, kind), Later(job),
         job.event \cap {"warn", "ok"} # {} => kind = "real",
         _insert_metric(job, kind)
  PROVE  /\ rows' \subseteq rows \cup {Row(job.ts, kind, job.event)}
         /\ Apart(rows')
         /\ \A r \in rows' : r.event \cap {"warn", "ok"} # {} => r.kind = "real"
<1> DEFINE new == Row(job.ts, kind, job.event)
<1>1. rows' \subseteq rows \cup {new}
  BY DEF _insert_metric
<1>2. new.ts = job.ts /\ new.kind = kind /\ new.event = job.event
  BY DEF Row
<1> HIDE DEF new
<1>3. \A r \in rows : r.ts = new.ts => {r.kind, kind} = {"real", "synthetic"}
  <2> SUFFICES ASSUME NEW r \in rows, r.ts = job.ts
               PROVE  r.kind \in {"real", "synthetic"} /\ r.kind # kind
    BY <1>2
  <2>1. r.ts \in Nat /\ since \in Int /\ job.ts >= since
    BY RowTimes DEF Later
  <2>2. r.kind # kind
    BY <2>1 DEF Behind
  <2>3. r.kind # "outage"
    BY <2>1 DEF Later
  <2>4. r.kind \in Kinds
    BY DEF Typed, TypeOK
  <2> QED BY <2>2, <2>3, <2>4 DEF Kinds
<1>4. Apart(rows')
  BY <1>1, <1>2, <1>3 DEF RowsInv, Apart
<1> QED BY <1>1, <1>2, <1>4 DEF RowsInv, new

LEMMA RowsCollect ==
  ASSUME Typed, RowsInv, _bg_collect
  PROVE  RowsInv'
<1>0. /\ \A r \in rows : r.ts \in Nat /\ r.ts <= clock
      /\ clock \in Nat /\ since \in Int /\ since <= clock
      /\ collector.ts \in Nat \cup {Never} /\ ticker.ts \in Nat \cup {Never} /\ Never \notin Nat
      /\ collector.ts # Never => collector.ts <= clock
  BY RowTimes
<1>1. ASSUME NEW breach \in BOOLEAN, Measure(breach)
      PROVE  RowsInv'
  <2>1. UNCHANGED <<clock, rows, phase, since, ticker>> /\ phase = "running"
        /\ collector'.at = "insert" /\ collector'.ts = clock
        /\ collector.at = "sleep" /\ collector.ts \in {Never} \cup 0 .. clock - 1
    BY <1>1 DEF Measure, clocks, start
  <2>2. Behind(collector, "real")' /\ Later(collector)'
    BY <1>0, <2>1 DEF RowsInv, Behind, Later
  <2> QED BY <2>1, <2>2 DEF RowsInv, Behind, Later
<1>2. CASE InsertReal
  <2>1. /\ UNCHANGED <<clock, phase, since, ticker>> /\ phase = "running" /\ collector.at = "insert"
        /\ collector'.at = "remember" /\ collector'.ts = collector.ts
    BY <1>2 DEF InsertReal, start, AfterRefusal, Typed, TypeOK
  <2>2. /\ rows' \subseteq rows \cup {Row(collector.ts, "real", collector.event)}
        /\ Apart(rows')
        /\ \A r \in rows' : r.event \cap {"warn", "ok"} # {} => r.kind = "real"
    <3>1. collector.ts \in Nat
      BY <1>0, <2>1 DEF Typed, Past
    <3> QED BY <1>2, <2>1, <3>1, RowAdded DEF RowsInv, InsertReal
  <2>3. \A r \in rows' : r \in rows \/ (r.ts = collector.ts /\ r.kind = "real")
    <3> DEFINE new == Row(collector.ts, "real", collector.event)
    <3>1. new.ts = collector.ts /\ new.kind = "real"
      BY DEF Row
    <3>2. rows' \subseteq rows \cup {new}
      BY <2>2
    <3> HIDE DEF new
    <3> QED BY <3>1, <3>2
  <2>4. collector.ts \in Nat
    BY <1>0, <2>1 DEF Typed, Past
  <2> QED BY <1>0, <2>1, <2>2, <2>3, <2>4 DEF RowsInv, Behind, Later
<1>3. CASE Remember
  <2>1. /\ UNCHANGED <<clock, phase, since, ticker>> /\ phase = "running" /\ rows' \subseteq rows
        /\ collector'.at = "sleep" /\ collector'.ts = clock
    BY <1>3 DEF Remember, start, Sleeping
  <2> QED BY <1>0, <2>1 DEF RowsInv, Behind, Later, Apart
<1> QED BY <1>1, <1>2, <1>3 DEF _bg_collect, collect_vm

LEMMA RowsSynthetic ==
  ASSUME Typed, RowsInv, _bg_synthetic
  PROVE  RowsInv'
<1>0. /\ \A r \in rows : r.ts \in Nat /\ r.ts <= clock
      /\ clock \in Nat /\ since \in Int /\ since <= clock
      /\ collector.ts \in Nat \cup {Never} /\ ticker.ts \in Nat \cup {Never} /\ Never \notin Nat
      /\ ticker.ts # Never => ticker.ts <= clock
  BY RowTimes
<1>1. CASE Repeat
  <2>1. UNCHANGED <<clock, rows, phase, since, collector>> /\ phase = "running"
        /\ ticker'.ts = clock /\ ticker.at = "sleep"
        /\ (ticker.ts = Never \/ ticker.ts < clock)
    BY <1>0, <1>1, Bounds DEF Repeat, clocks, start, Sleeping
  <2>2. Behind(ticker, "synthetic")' /\ Later(ticker)'
    BY <1>0, <2>1 DEF RowsInv, Behind, Later
  <2> QED BY <2>1, <2>2 DEF RowsInv, Behind, Later
<1>2. CASE InsertSynthetic
  <2>1. /\ UNCHANGED <<clock, phase, since, collector>> /\ phase = "running" /\ ticker.at = "insert"
        /\ ticker'.at = "sleep" /\ ticker'.ts = clock
    BY <1>2 DEF InsertSynthetic, start, Sleeping
  <2>2. /\ rows' \subseteq rows \cup {Row(ticker.ts, "synthetic", ticker.event)}
        /\ Apart(rows')
        /\ \A r \in rows' : r.event \cap {"warn", "ok"} # {} => r.kind = "real"
    <3>1. ticker.ts \in Nat /\ ticker.event = {}
      BY <1>0, <2>1 DEF Typed, TypeOK, Past
    <3> QED BY <1>2, <2>1, <3>1, RowAdded DEF RowsInv, InsertSynthetic
  <2>3. \A r \in rows' : r \in rows \/ (r.ts = ticker.ts /\ r.kind = "synthetic")
    <3> DEFINE new == Row(ticker.ts, "synthetic", ticker.event)
    <3>1. new.ts = ticker.ts /\ new.kind = "synthetic"
      BY DEF Row
    <3>2. rows' \subseteq rows \cup {new}
      BY <2>2
    <3> HIDE DEF new
    <3> QED BY <3>1, <3>2
  <2>4. ticker.ts \in Nat /\ ticker.ts <= clock
    BY <1>0, <2>1 DEF Typed, Past
  <2> QED BY <1>0, <2>1, <2>2, <2>3, <2>4 DEF RowsInv, Behind, Later
<1> QED BY <1>1, <1>2 DEF _bg_synthetic

LEMMA RowsTime ==
  ASSUME Typed, RowsInv, Tick \/ Crash \/ UNCHANGED vars
  PROVE  RowsInv'
<1>0. /\ \A r \in rows : r.ts \in Nat /\ r.ts <= clock
      /\ clock \in Nat
  BY RowTimes
<1>1. CASE Tick
  BY <1>0, <1>1 DEF Tick, start, memory, RowsInv, Behind, Later
<1>2. CASE Crash
  BY <1>0, <1>2 DEF Crash, RowsInv
<1>3. CASE UNCHANGED vars
  BY <1>3 DEF vars, clocks, start, memory, RowsInv, Behind, Later
<1> QED BY <1>1, <1>2, <1>3

-----------------------------------------------------------------------------
(* What is told *)

LEMMA ToldStartup ==
  ASSUME Typed, RowsInv, RowsInv', Startup
  PROVE  ToldInv'
<1> SUFFICES ASSUME refusals' = 0, phase' = "running"
             PROVE  ToldInv'
  BY DEF ToldInv
<1>1. /\ collector' = Sleeping(Never) /\ breached' = FALSE
  BY DEF Startup, Start, Detect, DetectFails, Backfill, Tag, memory, Typed, Asleep
<1>2. Told' = {}
  <2>1. \A r \in rows' : r.kind = "real" => ~(r.ts >= since')
    <3>1. since' \in Int /\ \A r \in rows' : r.kind = "real" => r.ts < since' /\ r.ts \in Int
      <4>1. \A r \in rows' : r.kind = "real" => r.ts < since'
        BY <1>1 DEF RowsInv, Behind, Sleeping
      <4>2. Typed'
        BY TypedStartup
      <4> QED BY <4>1, <4>2, Bounds DEF Typed, TypeOK
    <3> QED BY <3>1
  <2> QED BY <2>1 DEF RowsInv, Told
<1>3. collector'.at = "sleep"
  BY <1>1 DEF Sleeping
<1> QED BY <1>1, <1>2, <1>3 DEF ToldInv, Reads

LEMMA ToldCollect ==
  ASSUME Typed, RowsInv, ToldInv, _bg_collect
  PROVE  ToldInv'
<1>0. /\ \A r \in rows : r.ts \in Nat /\ r.ts <= clock
      /\ clock \in Nat /\ since \in Int /\ since <= clock /\ Retention \in Nat
      /\ breached \in BOOLEAN
  BY RowTimes, Bounds DEF Typed, TypeOK
<1>1. ASSUME NEW breach \in BOOLEAN, Measure(breach), refusals' = 0
      PROVE  ToldInv'
  <2>1. /\ UNCHANGED <<clock, refusals, rows, phase, since>> /\ phase = "running"
        /\ collector'.at = "insert" /\ collector.at = "sleep" /\ breached' = breach
        /\ collector'.event = Crossing(breach) \cup (IF CheckDue THEN {"check"} ELSE {})
    BY <1>1 DEF Measure, clocks, start
  <2>2. Reads(breached)
    BY <1>1, <2>1 DEF ToldInv
  <2>3. collector'.event \cap {"warn", "ok"}
          = IF breached = breach THEN {} ELSE IF breach THEN {"warn"} ELSE {"ok"}
    BY <1>0, <2>1 DEF Crossing
  <2> QED BY <1>0, <2>1, <2>2, <2>3 DEF ToldInv, Reads, Told
<1>2. CASE InsertReal /\ refusals' = 0
  <2>1. /\ UNCHANGED <<clock, phase, since, breached>> /\ phase = "running" /\ collector.at = "insert"
        /\ collector'.at = "remember"
    BY <1>2 DEF InsertReal, start, AfterRefusal, Typed, TypeOK
  <2>2. /\ refusals = 0
        /\ \/ rows' = rows /\ collector.event = {}
           \/ rows' = rows \cup {Row(collector.ts, "real", collector.event)}
    BY <1>2 DEF InsertReal, _insert_metric, Debounced, Accepts, Refuses, Typed, TypeOK
  <2>3. PICK b \in BOOLEAN :
          /\ Reads(b)
          /\ collector.event \cap {"warn", "ok"} = IF b = breached THEN {} ELSE IF breached THEN {"warn"} ELSE {"ok"}
    BY <2>1, <2>2 DEF ToldInv
  <2>4. CASE collector.event \cap {"warn", "ok"} = {}
    <3>1. Told' = Told
      BY <2>1, <2>2, <2>4 DEF Told, Row
    <3>2. b = breached
      BY <1>0, <2>3, <2>4
    <3> QED BY <2>1, <2>3, <3>1, <3>2 DEF ToldInv, Reads
  <2>5. CASE collector.event \cap {"warn", "ok"} # {}
    <3> DEFINE new == Row(collector.ts, "real", collector.event)
    <3>1. new.ts = collector.ts /\ new.event = collector.event
      BY DEF Row
    <3>2. rows' = rows \cup {new}
      BY <2>2, <2>5
    <3> HIDE DEF new
    <3>3. collector.ts \in Nat /\ collector.ts >= since
      BY <2>1 DEF RowsInv, Later, Typed, Past
    <3>4. Told' = Told \cup {new}
      BY <2>1, <2>5, <3>1, <3>2, <3>3 DEF Told
    <3>5. \A r \in Told : r.ts <= new.ts
      <4>1. \A r \in Told : r.kind = "real" /\ r \in rows /\ r.ts >= since
        BY DEF Told, RowsInv
      <4> QED BY <1>0, <2>1, <3>1, <3>3, <4>1 DEF RowsInv, Behind
    <3>6. breached <=> "warn" \in new.event
      BY <1>0, <2>3, <2>5, <3>1
    <3> QED BY <2>1, <3>1, <3>3, <3>4, <3>5, <3>6 DEF ToldInv, Reads
  <2> QED BY <2>4, <2>5
<1>3. CASE Remember /\ refusals' = 0
  <2>1. /\ UNCHANGED <<clock, phase, since, breached>> /\ phase = "running"
        /\ collector.at = "remember" /\ collector'.at = "sleep"
        /\ rows' = rows \/ rows' = {r \in rows : r.ts >= clock - Retention}
    BY <1>3 DEF Remember, start, Sleeping
  <2>2. refusals = 0
    BY <1>3 DEF Remember, Accepts, Refuses, Typed, TypeOK
  <2>3. Reads(breached)
    BY <2>1, <2>2 DEF ToldInv
  <2>4. Told' = Told \/ Told' = {r \in Told : r.ts >= clock - Retention}
    BY <2>1 DEF Told
  <2>5. \A r \in Told : r.ts \in Nat /\ r.ts >= since
    BY <1>0 DEF Told
  <2>6. Reads(breached)'
    <3>1. CASE Told' = Told
      BY <2>1, <2>3, <3>1 DEF Reads
    <3>2. CASE Told = {}
      BY <2>1, <2>3, <2>4, <3>2 DEF Reads
    <3>3. CASE Told # {} /\ Told' = {r \in Told : r.ts >= clock - Retention}
      <4>1. PICK r \in Told : (\A s \in Told : s.ts <= r.ts) /\ (breached <=> "warn" \in r.event)
        BY <2>3, <3>3 DEF Reads
      <4>2. CASE r.ts >= clock - Retention
        BY <2>1, <3>3, <4>1, <4>2 DEF Reads
      <4>3. CASE ~(r.ts >= clock - Retention)
        <5>1. Told' = {} /\ since < clock - Retention
          BY <1>0, <2>5, <3>3, <4>1, <4>3
        <5> QED BY <2>1, <5>1 DEF Reads
      <4> QED BY <4>2, <4>3
    <3> QED BY <2>4, <3>1, <3>2, <3>3
  <2> QED BY <2>1, <2>6 DEF ToldInv
<1> SUFFICES ASSUME refusals' = 0 PROVE ToldInv'
  BY DEF ToldInv
<1> QED BY <1>1, <1>2, <1>3 DEF _bg_collect, collect_vm

LEMMA ToldOther ==
  ASSUME Typed, RowsInv, ToldInv, _bg_synthetic \/ Tick \/ Crash \/ UNCHANGED vars
  PROVE  ToldInv'
<1>1. CASE Repeat
  BY <1>1 DEF Repeat, clocks, start, memory, ToldInv, Reads, Told
<1>2. CASE InsertSynthetic
  <2>1. UNCHANGED <<clock, phase, since, breached, collector>>
    BY <1>2 DEF InsertSynthetic, start
  <2>2. refusals' = 0 => refusals = 0
    BY <1>2 DEF InsertSynthetic, _insert_metric, Accepts, Refuses, Typed, TypeOK
  <2>3. ticker.event = {}
    BY DEF Typed, TypeOK
  <2>4. rows' = rows \/ rows' = rows \cup {Row(ticker.ts, "synthetic", {})}
    BY <1>2, <2>3 DEF InsertSynthetic, _insert_metric
  <2>5. Told' = Told
    BY <2>1, <2>4 DEF Told, Row
  <2> QED BY <2>1, <2>2, <2>5 DEF ToldInv, Reads
<1>3. CASE Tick
  <2>1. UNCHANGED <<refusals, rows, phase, since, breached, collector>> /\ clock' = clock + 1 /\ Told' = Told
    BY <1>3 DEF Tick, start, memory, Told
  <2>2. since < clock - Retention => since < clock' - Retention
    BY <2>1, RowTimes, Bounds
  <2>3. \A b \in BOOLEAN : Reads(b) => IF Told' = {} THEN b => since' < clock' - Retention
                                     ELSE \E r \in Told' : (\A s \in Told' : s.ts <= r.ts) /\ (b <=> "warn" \in r.event)
    BY <2>1, <2>2 DEF Reads
  <2>4. breached \in BOOLEAN
    BY DEF Typed, TypeOK
  <2> QED BY <2>1, <2>3, <2>4 DEF ToldInv, Reads
<1>4. CASE Crash
  BY <1>4 DEF Crash, ToldInv
<1>5. CASE UNCHANGED vars
  BY <1>5 DEF vars, clocks, start, memory, ToldInv, Reads, Told
<1> QED BY <1>1, <1>2, <1>3, <1>4, <1>5 DEF _bg_synthetic

\* What a reader takes from the last row told, and what the monitor holds.
LEMMA ToldIsHeld ==
  ASSUME Typed, RowsInv, ToldInv
  PROVE  BreachIsTold
<1> SUFFICES ASSUME refusals = 0, phase = "running", collector.at # "insert"
             PROVE  IF Told = {} THEN breached => since < clock - Retention
                    ELSE breached = \E r \in Told : r.ts = Max({s.ts : s \in Told}) /\ "warn" \in r.event
  <2>1. {r \in health_events : r.ts >= since /\ r.event \cap {"warn", "ok"} # {}} = Told
    BY DEF health_events, Told
  <2> QED BY <2>1 DEF BreachIsTold
<1>1. Reads(breached)
  BY DEF ToldInv
<1>2. CASE Told = {}
  BY <1>1, <1>2 DEF Reads
<1>3. CASE Told # {}
  <2> DEFINE times == {s.ts : s \in Told}
  <2>1. PICK r \in Told : (\A s \in Told : s.ts <= r.ts) /\ (breached <=> "warn" \in r.event)
    BY <1>1, <1>3 DEF Reads
  <2>2. times \in SUBSET (0 .. clock) /\ times # {} /\ clock \in Nat
    BY <1>3, RowTimes DEF Told
  <2>3. Max(times) \in times /\ \A y \in times : Max(times) >= y
    <3> HIDE DEF times
    <3> QED BY <2>2, MaxExists
  <2>4. Max(times) = r.ts
    <3>1. r.ts \in times /\ \A y \in times : y <= r.ts /\ y \in Int
      BY <2>1, <2>2
    <3> HIDE DEF times
    <3> QED BY <2>3, <3>1
  <2>5. \A s \in Told : s.ts = r.ts => s = r
    <3>1. \A s \in Told : s \in rows /\ s.kind = "real"
      BY DEF Told, RowsInv
    <3> QED BY <3>1 DEF RowsInv, Apart
  <2>6. breached \in BOOLEAN
    BY DEF Typed, TypeOK
  <2> HIDE DEF times
  <2>7. breached = \E s \in Told : s.ts = Max(times) /\ "warn" \in s.event
    BY <2>1, <2>4, <2>5, <2>6
  <2> QED BY <1>3, <2>7 DEF times
<1> QED BY <1>2, <1>3

\* BreachIsTold: while the database refuses nothing, the last crossing told since the start
\* says what the monitor holds, whatever the debounce left out and the pruning removed.
THEOREM CrossingsAreTold == Spec => []BreachIsTold
<1> DEFINE Inv == Typed /\ RowsInv /\ ToldInv
<1>1. Init => Inv
  BY TypedInit DEF Init, RowsInv, ToldInv, Apart
<1>2. Inv /\ [Next]_vars => Inv'
  <2> SUFFICES ASSUME Inv, [Next]_vars PROVE Inv'
    OBVIOUS
  <2>1. Typed'
    BY TypedStartup, TypedCollect, TypedSynthetic, TypedTime DEF Next
  <2>2. RowsInv'
    BY RowsStartup, RowsCollect, RowsSynthetic, RowsTime DEF Next
  <2>3. ToldInv'
    BY <2>2, ToldStartup, ToldCollect, ToldOther DEF Next
  <2> QED BY <2>1, <2>2, <2>3
<1>3. Inv => BreachIsTold
  BY ToldIsHeld
<1> QED BY <1>1, <1>2, <1>3, PTL DEF Spec

-----------------------------------------------------------------------------
(* What a start fills in *)

LEMMA StartKept ==
  ASSUME Typed, StartInv, [Next]_vars
  PROVE  StartInv'
<1>1. CASE Start \/ DetectFails \/ Crash
  BY <1>1 DEF Start, DetectFails, Crash, StartInv
<1>2. CASE Detect
  BY <1>2, NewestRow DEF Detect, StartInv, Times
<1>3. CASE Backfill
  <2>1. Times \subseteq Times'
    BY <1>3 DEF Backfill, Times
  <2>2. refusals' = 0 => Outage \subseteq Times'
    <3> SUFFICES ASSUME refusals' = 0, NEW t \in Outage, t \notin Times
                 PROVE  t \in Times'
      BY <2>1
    <3>1. Row(t, "outage", {}) \in rows' /\ Row(t, "outage", {}).ts = t
      BY <1>3 DEF Backfill, Accepts, Refuses, Row, Typed, TypeOK
    <3> QED BY <3>1 DEF Times
  <2>3. Outage' = Outage
    BY <1>3 DEF Backfill, Outage, BackfillStart
  <2> QED BY <1>3, <2>1, <2>2, <2>3 DEF Backfill, StartInv
<1>4. CASE Tag \/ _bg_collect \/ _bg_synthetic
  BY <1>4 DEF Tag, _bg_collect, Measure, InsertReal, Remember, _bg_synthetic, Repeat, InsertSynthetic, start, StartInv
<1>5. CASE Tick \/ UNCHANGED vars
  BY <1>5 DEF Tick, vars, clocks, start, StartInv, Times, Outage, BackfillStart
<1> QED BY <1>1, <1>2, <1>3, <1>4, <1>5 DEF Next, Startup

\* Rounding down to an interval.
LEMMA Rounded ==
  ASSUME NEW a \in Nat, NEW d \in Nat, d > 0
  PROVE  a % d \in 0 .. d - 1 /\ (a - (a % d)) % d = 0 /\ a % d <= a
<1>1. a % d \in 0 .. d - 1
  OBVIOUS
<1>2. (a - (a % d)) % d = 0
  BY SMTT(30)
<1>3. a % d <= a
  <2>1. a = d * (a \div d) + (a % d) /\ a \div d \in Nat
    OBVIOUS
  <2>2. d * (a \div d) \in Nat
    BY <2>1
  <2> QED BY <1>1, <2>1, <2>2
<1> QED BY <1>1, <1>2, <1>3

LEMMA NoGap ==
  ASSUME Typed, Typed', StartInv, Next,
         phase # "running", phase' = "running", refusals' = 0, found'.now # Never
  PROVE  \A t \in Max({found'.newest, found'.now - Retention + OUTAGE_THRESHOLD}) .. found'.now - 1 :
           \E r \in rows' : r.ts \in t - OUTAGE_THRESHOLD + 1 .. t
<1>0. clock \in Nat /\ \A r \in rows : r.ts \in Nat
  BY RowTimes
<1>1. CASE Detect
  <2>1. found.now = Never
    BY <1>1 DEF Detect, Typed
  <2>2. /\ rows # {} /\ rows' = rows /\ found' = [newest |-> Newest, now |-> clock]
        /\ clock - Newest < OUTAGE_THRESHOLD /\ Newest \in Nat
    <3>1. rows # {}
      BY <1>1, <2>1 DEF Detect
    <3>2. Newest \in Nat
      BY <1>0, <3>1, NewestRow DEF Past
    <3> QED BY <1>0, <1>1, <3>1, <3>2, Bounds DEF Detect, IsOutage
  <2>3. PICK r \in rows : r.ts = Newest
    BY <2>2, NewestRow DEF Times
  <2>4. ASSUME NEW t \in Max({Newest, clock - Retention + OUTAGE_THRESHOLD}) .. clock - 1
        PROVE  r.ts \in t - OUTAGE_THRESHOLD + 1 .. t
    <3>1. clock - Retention + OUTAGE_THRESHOLD \in Int
      BY <1>0, Bounds
    <3>2. t \in Int /\ t >= Newest /\ t < clock
      BY <1>0, <2>2, <3>1, MaxTwo
    <3> QED BY <1>0, <2>2, <2>3, <3>2, Bounds
  <2> QED BY <2>2, <2>3, <2>4
<1>2. CASE Tag
  <2> DEFINE from == BackfillStart
  <2>1. found' = found /\ phase = "tag" /\ refusals = 0
    BY <1>2 DEF Tag, Accepts, Refuses, Typed, TypeOK
  <2>2. Times \subseteq Times'
    <3>1. PICK f : /\ rows' = {f[r] : r \in rows}
                   /\ \A r \in rows : f[r].ts = r.ts
      BY <1>2, TagRows DEF Typed, TypeOK
    <3> QED BY <3>1 DEF Times
  <2>3. Outage \subseteq Times /\ found.newest \in Times
    BY <2>1 DEF StartInv
  <2>4. found.newest \in Nat /\ found.now \in Nat
    BY <2>1 DEF Typed, Past
  <2>5. /\ from \in Int
        /\ from = found.newest \/ from = found.now - Retention
        /\ from >= found.newest /\ from >= found.now - Retention
    BY <2>1, Backfilled
  <2>6. Outage = {t \in from + 1 .. found.now - 1 : (t - from) % SYNTHETIC_INTERVAL = 0}
    BY DEF Outage
  <2> HIDE DEF from
  <2>7. ASSUME NEW t \in Max({found.newest, found.now - Retention + OUTAGE_THRESHOLD}) .. found.now - 1
        PROVE  \E u \in Times : u \in t - OUTAGE_THRESHOLD + 1 .. t
    <3>1. found.now - Retention + OUTAGE_THRESHOLD \in Int
      BY <2>4, Bounds
    <3>2. t \in Int /\ t >= found.newest /\ t >= found.now - Retention + OUTAGE_THRESHOLD /\ t < found.now
      BY <2>4, <3>1, MaxTwo
    <3>3. t - from \in Nat
      BY <2>4, <2>5, <3>2, Bounds
    <3> DEFINE m == (t - from) % SYNTHETIC_INTERVAL
               u == t - m
    <3>4. m \in 0 .. SYNTHETIC_INTERVAL - 1 /\ m <= t - from /\ ((t - from) - m) % SYNTHETIC_INTERVAL = 0
      BY <3>3, Rounded, Bounds
    <3> HIDE DEF m
    <3>5. u \in Int /\ u >= from /\ u \in t - OUTAGE_THRESHOLD + 1 .. t
      BY <2>5, <3>2, <3>4, Bounds
    <3>6. u - from = (t - from) - m
      BY <2>5, <3>2, <3>4
    <3>7. CASE u = from
      <4>1. from = found.newest
        BY <2>4, <2>5, <3>2, <3>4, <3>5, <3>7, Bounds
      <4> QED BY <2>3, <3>5, <3>7, <4>1
    <3>8. CASE u # from
      <4>1. u \in from + 1 .. found.now - 1
        BY <2>4, <2>5, <3>2, <3>4, <3>5, <3>8
      <4>2. u \in Outage
        BY <2>6, <3>4, <3>6, <4>1
      <4> QED BY <2>3, <3>5, <4>2
    <3> QED BY <3>7, <3>8
  <2>8. \A u \in Times : \E r \in rows' : r.ts = u
    BY <2>2 DEF Times
  <2> QED BY <2>1, <2>7, <2>8
<1>3. ~DetectFails
  BY DEF DetectFails, Refuses, Typed, TypeOK
<1> QED BY <1>1, <1>2, <1>3
    DEF Next, Startup, Start, Backfill, _bg_collect, Measure, InsertReal, Remember,
        _bg_synthetic, Repeat, InsertSynthetic, Tick, start, Crash

\* StartLeavesNoGap: when the threads take over no silence as long as an outage is left
\* behind them, however often the process died before.
THEOREM StartsLeaveNoGap == Spec => StartLeavesNoGap
<1> DEFINE Inv == Typed /\ StartInv
<1>1. Init => Inv
  BY TypedInit DEF Init, StartInv
<1>2. Inv /\ [Next]_vars => Inv'
  BY TypedStartup, TypedCollect, TypedSynthetic, TypedTime, StartKept DEF Next
<1>3. Inv /\ Inv' /\ [Next]_vars =>
        [ phase # "running" /\ phase' = "running" /\ refusals' = 0 /\ found'.now # Never =>
            \A t \in Max({found'.newest, found'.now - Retention + OUTAGE_THRESHOLD}) .. found'.now - 1 :
              \E r \in rows' : r.ts \in t - OUTAGE_THRESHOLD + 1 .. t ]_vars
  BY NoGap
<1> QED BY <1>1, <1>2, <1>3, PTL DEF Spec, StartLeavesNoGap

-----------------------------------------------------------------------------
(* What a graph shows *)

\* The rows of a window in the order they are read: each has its own number of earlier rows.
LEMMA Ranked ==
  ASSUME NEW w \in SUBSET rows, IsFiniteSet(w), Typed, Apart(rows),
         NEW f, f = [r \in w |-> Cardinality({s \in w : Before(s, r)})]
  PROVE  f \in Bijection(w, 0 .. Cardinality(w) - 1)
<1> DEFINE Earlier(r) == {s \in w : Before(s, r)}
           n == Cardinality(w)
<1>1. \A r \in w : r.ts \in Nat /\ r.kind \in {"real", "synthetic", "outage"}
  BY RowTimes DEF Typed, TypeOK, Kinds
<1>2. \A r \in w : r \notin Earlier(r)
  BY <1>1 DEF Before
<1>3. \A r, s, t \in w : Before(r, s) /\ Before(s, t) => Before(r, t)
  BY <1>1 DEF Before
<1>4. \A r, s \in w : r # s => Before(r, s) \/ Before(s, r)
  <2> SUFFICES ASSUME NEW r \in w, NEW s \in w, r # s, r.ts = s.ts
               PROVE  Before(r, s) \/ Before(s, r)
    BY <1>1 DEF Before
  <2>1. {r.kind, s.kind} = {"real", "synthetic"}
    BY DEF Apart
  <2> QED BY <2>1 DEF Before
<1>5. \A r \in w : IsFiniteSet(Earlier(r)) /\ Cardinality(Earlier(r)) \in Nat
  BY FS_Subset, FS_CardinalityType
<1>6. n \in Nat
  BY FS_CardinalityType
<1>7. \A S \in SUBSET w : \A T \in SUBSET S : T # S => Cardinality(T) < Cardinality(S)
  <2> SUFFICES ASSUME NEW S \in SUBSET w, NEW T \in SUBSET S, T # S
               PROVE  Cardinality(T) < Cardinality(S)
    OBVIOUS
  <2>0. IsFiniteSet(S)
    BY FS_Subset
  <2>1. IsFiniteSet(T) /\ Cardinality(T) <= Cardinality(S) /\ Cardinality(S) # Cardinality(T)
    BY <2>0, FS_Subset
  <2>2. Cardinality(T) \in Nat /\ Cardinality(S) \in Nat
    BY <2>0, <2>1, FS_CardinalityType
  <2> QED BY <2>1, <2>2
<1>8. \A r \in w : f[r] \in 0 .. n - 1
  <2> SUFFICES ASSUME NEW r \in w PROVE Cardinality(Earlier(r)) \in 0 .. n - 1
    OBVIOUS
  <2>1. Earlier(r) \in SUBSET w /\ Earlier(r) # w
    BY <1>2
  <2> HIDE DEF Earlier
  <2>2. Cardinality(Earlier(r)) < Cardinality(w)
    BY <1>7, <2>1
  <2> QED BY <1>5, <1>6, <2>2
<1>9. \A r, s \in w : Before(r, s) => f[r] < f[s]
  <2> SUFFICES ASSUME NEW r \in w, NEW s \in w, Before(r, s)
               PROVE  Cardinality(Earlier(r)) < Cardinality(Earlier(s))
    OBVIOUS
  <2>1. Earlier(r) \in SUBSET Earlier(s) /\ Earlier(s) \in SUBSET w /\ r \in Earlier(s)
    BY <1>3
  <2>2. r \notin Earlier(r)
    BY <1>2
  <2> HIDE DEF Earlier
  <2> QED BY <1>5, <1>7, <2>1, <2>2
<1>10. f \in Injection(w, 0 .. n - 1)
  <2>1. \A r, s \in w : f[r] = f[s] => r = s
    <3>1. \A r \in w : f[r] \in Int
      BY <1>6, <1>8
    <3> QED BY <1>4, <1>9, <3>1
  <2>2. f \in [w -> 0 .. n - 1]
    BY <1>8
  <2> QED BY <2>1, <2>2 DEF Injection, IsInjective
<1>11. IsFiniteSet(0 .. n - 1) /\ Cardinality(0 .. n - 1) = n
  BY <1>6, FS_Interval
<1>12. f \in Surjection(w, 0 .. n - 1)
  BY <1>10, <1>11, FS_Injection
<1> QED BY <1>10, <1>12 DEF Bijection

LEMMA WindowIsRows ==
  ASSUME Typed, Apart(rows), NEW seconds \in Nat,
         NEW w, w = {r \in rows : r.ts > clock - seconds}
  PROVE  /\ Cardinality(w) \in Nat
         /\ Window(seconds) \in [1 .. Cardinality(w) -> w]
         /\ \A r \in w : \E i \in 1 .. Cardinality(w) : Window(seconds)[i] = r
         /\ \A i, j \in 1 .. Cardinality(w) : Window(seconds)[i] = Window(seconds)[j] => i = j
<1> DEFINE n == Cardinality(w)
           f == [r \in w |-> Cardinality({s \in w : Before(s, r)})]
           W == [i \in 1 .. n |-> CHOOSE r \in w : Cardinality({s \in w : Before(s, r)}) = i - 1]
<1>1. IsFiniteSet(w) /\ n \in Nat
  BY FS_Subset, FS_CardinalityType DEF Typed
<1>2. f \in Bijection(w, 0 .. n - 1)
  BY <1>1, Ranked
<1>3. Window(seconds) = W
  BY DEF Window
<1> HIDE DEF n
<1>4. \A r \in w : f[r] = Cardinality({s \in w : Before(s, r)})
  OBVIOUS
<1> HIDE DEF f
<1>5. \A i \in 1 .. n : \E r \in w : f[r] = i - 1
  BY <1>1, <1>2 DEF Bijection, Surjection
<1>6. \A r, s \in w : f[r] = f[s] => r = s
  BY <1>2 DEF Bijection, Injection, IsInjective
<1>7. \A i \in 1 .. n : W[i] \in w /\ f[W[i]] = i - 1
  BY <1>5, <1>4
<1>8. ASSUME NEW r \in w
      PROVE  \E i \in 1 .. n : W[i] = r
  <2>1. f[r] \in 0 .. n - 1
    BY <1>2 DEF Bijection, Injection
  <2>2. f[r] + 1 \in 1 .. n /\ (f[r] + 1) - 1 = f[r]
    BY <1>1, <2>1
  <2>3. W[f[r] + 1] = r
    BY <1>6, <1>7, <2>2
  <2> QED BY <2>2, <2>3
<1> HIDE DEF W
<1>9. Window(seconds) \in [1 .. n -> w]
  BY <1>3, <1>7 DEF W
<1>10. \A i, j \in 1 .. n : W[i] = W[j] => i = j
  BY <1>1, <1>7
<1> QED BY <1>1, <1>3, <1>8, <1>9, <1>10 DEF n

\* A quotient is the largest number whose multiple fits.
LEMMA Quotient ==
  ASSUME NEW a \in Nat, NEW d \in Nat, d > 0, NEW q \in Nat
  PROVE  a \div d \in Nat /\ (q <= a \div d <=> q * d <= a)
<1>1. a \div d \in Nat /\ a % d \in 0 .. d - 1 /\ a = d * (a \div d) + (a % d)
  OBVIOUS
<1> DEFINE p == a \div d
<1>2. p \in Nat /\ p * d <= a /\ a < (p + 1) * d
  BY <1>1
<1> HIDE DEF p
<1>3. q <= p => q * d <= p * d
  BY <1>2
<1>4. q >= p + 1 => q * d >= (p + 1) * d
  BY <1>2
<1> QED BY <1>1, <1>2, <1>3, <1>4 DEF p

\* The edges of the slices of a series that is longer than a graph: from nothing to all but
\* possibly the newest row, each beyond the one before.
LEMMA Edges ==
  ASSUME NEW n \in Nat, n > MAX_DISPLAY
  PROVE  /\ \A i \in 1 .. MAX_DISPLAY : /\ Edge(n, i - 1) \in Nat /\ Edge(n, i) \in Nat
                                        /\ Edge(n, i - 1) < Edge(n, i)
                                        /\ Edge(n, i) <= Edge(n, MAX_DISPLAY)
         /\ Edge(n, MAX_DISPLAY) = IF <<n, MAX_DISPLAY>> \in Falls THEN n - 1 ELSE n
<1> DEFINE M == MAX_DISPLAY
<1>0. M \in Nat /\ M > 0
  BY Bounds
<1> DEFINE D(i) == (i * n) \div M
           e(i) == IF <<n, i>> \in Falls THEN 1 ELSE 0
<1>1. \A i \in 0 .. M : Edge(n, i) = D(i) - e(i) /\ e(i) \in {0, 1}
  BY DEF Edge
<1>2. ASSUME NEW i \in 0 .. M, NEW k \in Nat
      PROVE  D(i) \in Nat /\ (k <= D(i) <=> k * M <= i * n)
  <2>1. i * n \in Nat
    BY <1>0
  <2> QED BY <1>0, <2>1, Quotient
<1>3. ASSUME NEW i \in 0 .. M, e(i) = 1
      PROVE  i # 0 /\ (i * n) % M = 0
  <2>1. <<n, i>> \in Falls
    BY <1>3
  <2>2. <<n, i>> \in Nat \X (1 .. M) /\ (n * i) % M = 0
    BY <2>1, HealthAssumption
  <2>3. n * i = i * n
    BY <1>0
  <2> QED BY <2>2, <2>3
<1>4. ASSUME NEW i \in 1 .. M
      PROVE  D(i) * M <= i * n /\ (e(i) = 1 => D(i) * M = i * n)
  <2> DEFINE b == i * n
  <2>1. b \in Nat
    BY <1>0
  <2>2. b = M * (b \div M) + (b % M) /\ b \div M \in Nat /\ b % M \in 0 .. M - 1
    <3> HIDE DEF b
    <3> QED BY <1>0, <2>1
  <2>3. e(i) = 1 => b % M = 0
    BY <1>3
  <2> HIDE DEF b, e
  <2>4. (b \div M) * M <= b /\ (e(i) = 1 => (b \div M) * M = b)
    BY <1>0, <2>1, <2>2, <2>3
  <2>5. D(i) = b \div M
    BY DEF b
  <2> HIDE DEF D
  <2> QED BY <2>4, <2>5 DEF b
<1>5. D(0) = 0 /\ e(0) = 0
  <2>1. 0 * n = 0 /\ 0 \div M = 0
    BY <1>0
  <2> QED BY <1>0, <1>1, <1>3, <2>1
<1>6. D(M) = n
  <2>1. M \in 0 .. M /\ n * M = M * n /\ (n + 1) * M > M * n /\ n + 1 \in Nat /\ (n + 1) * M \in Nat
    BY <1>0
  <2>2. D(M) \in Nat /\ n <= D(M) /\ ~(n + 1 <= D(M))
    BY <1>0, <1>2, <2>1
  <2> QED BY <2>2
<1> HIDE DEF D, e
<1>7. ASSUME NEW i \in 1 .. M
      PROVE  D(i - 1) < D(i) - e(i) /\ (i # M => D(i) < n)
  <2>0. i - 1 \in 0 .. M /\ i \in 0 .. M
    BY <1>0
  <2> DEFINE p == D(i - 1)
             q == D(i)
             c == (i - 1) * n
             b == i * n
  <2>1. p \in Nat /\ q \in Nat /\ e(i) \in {0, 1}
    BY <1>1, <1>2, <2>0
  <2>2. p * M <= c
    BY <1>2, <2>0, <2>1
  <2>3. b = c + n /\ b <= M * n /\ c \in Nat /\ b \in Nat
    BY <1>0
  <2>4. q * M <= b /\ (e(i) = 1 => q * M = b)
    BY <1>4
  <2>5. p + 1 <= q
    <3>1. p + 1 \in Nat /\ (p + 1 <= q <=> (p + 1) * M <= b)
      BY <1>2, <2>0, <2>1
    <3> HIDE DEF p, q, b, c
    <3>2. (p + 1) * M <= b
      BY <1>0, <2>1, <2>2, <2>3
    <3> QED BY <3>1, <3>2
  <2>6. ASSUME i # M PROVE q < n
    <3>1. n <= q <=> n * M <= b
      BY <1>2, <2>0
    <3>2. b <= (M - 1) * n
      BY <1>0, <2>6
    <3> HIDE DEF p, q, b, c
    <3>3. (M - 1) * n < n * M /\ (M - 1) * n \in Nat /\ n * M \in Nat
      BY <1>0
    <3>4. ~(n * M <= b)
      BY <2>3, <3>2, <3>3
    <3> QED BY <2>1, <3>1, <3>4
  <2> HIDE DEF p, q, b, c
  <2>7. e(i) = 1 => p + 1 < q
    <3> SUFFICES ASSUME e(i) = 1, q <= p + 1 PROVE FALSE
      BY <2>1
    <3>1. q * M <= (p + 1) * M
      BY <1>0, <2>1
    <3>2. (p + 1) * M < b
      BY <1>0, <2>1, <2>2, <2>3
    <3> QED BY <1>0, <2>1, <2>3, <2>4, <3>1, <3>2
  <2>8. p < q - e(i) /\ (i # M => q < n)
    BY <2>1, <2>5, <2>6, <2>7
  <2> QED BY <2>8 DEF p, q
<1>8. ASSUME NEW i \in 1 .. M
      PROVE  /\ Edge(n, i - 1) \in Nat /\ Edge(n, i) \in Nat
             /\ Edge(n, i - 1) < Edge(n, i) /\ (i # M => Edge(n, i) <= n - 1)
  <2>0. i - 1 \in 0 .. M /\ i \in 0 .. M
    BY <1>0
  <2>1. /\ Edge(n, i - 1) = D(i - 1) - e(i - 1) /\ e(i - 1) \in {0, 1} /\ D(i - 1) \in Nat
        /\ Edge(n, i) = D(i) - e(i) /\ e(i) \in {0, 1} /\ D(i) \in Nat
    BY <1>1, <1>2, <2>0
  <2>2. D(i - 1) - e(i - 1) \in Nat
    <3>1. CASE i = 1
      BY <1>5, <3>1
    <3>2. CASE i # 1
      <4>1. i - 1 \in 1 .. M /\ (i - 1) - 1 \in 0 .. M
        BY <1>0, <3>2
      <4>2. D((i - 1) - 1) < D(i - 1) - e(i - 1) /\ D((i - 1) - 1) \in Nat
        BY <1>2, <1>7, <4>1
      <4> QED BY <2>1, <4>2
    <3> QED BY <3>1, <3>2
  <2> QED BY <1>7, <2>1, <2>2
<1>9. Edge(n, M) = IF <<n, M>> \in Falls THEN n - 1 ELSE n
  BY <1>0, <1>1, <1>6 DEF e
<1>10. \A i \in 1 .. M : Edge(n, i) <= Edge(n, M)
  <2>1. ASSUME NEW i \in 1 .. M PROVE Edge(n, i) <= Edge(n, M)
    <3>1. CASE i = M
      BY <1>8, <3>1
    <3>2. CASE i # M
      BY <1>8, <1>9, <3>2
    <3> QED BY <3>1, <3>2
  <2> QED BY <2>1
<1> QED BY <1>8, <1>9, <1>10

\* The slices: none is empty, and together they are the series up to the last edge.
LEMMA Slices ==
  ASSUME NEW n \in Nat, n > MAX_DISPLAY
  PROVE  /\ \A i \in 1 .. MAX_DISPLAY : Slice(n, i) \subseteq 1 .. Edge(n, MAX_DISPLAY)
         /\ \A i \in 1 .. MAX_DISPLAY : Slice(n, i) # {}
         /\ \A j \in 1 .. Edge(n, MAX_DISPLAY) : \E i \in 1 .. MAX_DISPLAY : j \in Slice(n, i)
<1> DEFINE M == MAX_DISPLAY
<1>0. M \in Nat /\ M > 0 /\ M \in 1 .. M
  BY Bounds
<1>1. ASSUME NEW i \in 1 .. M
      PROVE  Slice(n, i) \subseteq 1 .. Edge(n, M) /\ Slice(n, i) # {}
  <2>1. /\ Edge(n, i - 1) \in Nat /\ Edge(n, i) \in Nat /\ Edge(n, i - 1) < Edge(n, i)
        /\ Edge(n, i) <= Edge(n, M) /\ Edge(n, M) \in Nat
    BY <1>0, Edges
  <2> QED BY <2>1 DEF Slice
<1>2. ASSUME NEW j \in 1 .. Edge(n, M)
      PROVE  \E i \in 1 .. M : j \in Slice(n, i)
  <2>0. j \in 1 .. n /\ n > 0
    <3>1. Edge(n, M) = n \/ Edge(n, M) = n - 1
      BY Edges
    <3> QED BY <1>0, <3>1
  <2> DEFINE c == j * M - 1
             k == c \div n
  <2>1. c \in Nat /\ c < n * M
    BY <1>0, <2>0
  <2>2. k \in Nat /\ k * n <= c /\ c < (k + 1) * n
    <3> HIDE DEF c
    <3>1. k \in Nat
      BY <2>0, <2>1, Quotient
    <3> QED BY <1>0, <2>0, <2>1, <3>1, Quotient
  <2>3. k + 1 \in 1 .. M
    <3> HIDE DEF c, k
    <3>1. ~(k >= M)
      BY <1>0, <2>1, <2>2
    <3> QED BY <1>0, <2>2, <3>1
  <2> DEFINE a == k * n
             b == (k + 1) * n
  <2>4. a \in Nat /\ b \in Nat /\ a < j * M /\ j * M <= b
    BY <1>0, <2>0, <2>1, <2>2
  <2>5. j <= b \div M /\ a \div M < j /\ a \div M \in Nat /\ b \div M \in Nat
    <3> HIDE DEF a, b
    <3>1. a \div M \in Nat /\ (j <= a \div M <=> j * M <= a)
      BY <1>0, <2>0, <2>4, Quotient
    <3>2. b \div M \in Nat /\ (j <= b \div M <=> j * M <= b)
      BY <1>0, <2>0, <2>4, Quotient
    <3>3. j * M \in Nat
      BY <1>0, <2>0
    <3> QED BY <2>4, <3>1, <3>2, <3>3
  <2>6. Edge(n, k) <= a \div M /\ Edge(n, k + 1) >= b \div M - 1
    <3>1. Edge(n, k) = a \div M - (IF <<n, k>> \in Falls THEN 1 ELSE 0)
      BY DEF Edge
    <3>2. Edge(n, k + 1) = b \div M - (IF <<n, k + 1>> \in Falls THEN 1 ELSE 0)
      BY DEF Edge
    <3> HIDE DEF a, b, k
    <3> QED BY <2>5, <3>1, <3>2
  <2> HIDE DEF a, b, c, k
  <2>7. /\ (k + 1) - 1 = k /\ Edge(n, k) \in Nat /\ Edge(n, k + 1) \in Nat
    <3>1. (k + 1) - 1 = k
      BY <2>2
    <3>2. Edge(n, (k + 1) - 1) \in Nat /\ Edge(n, k + 1) \in Nat
      BY <2>3, Edges
    <3> QED BY <3>1, <3>2
  <2>8. CASE j <= Edge(n, k + 1)
    <3>1. j \in Edge(n, (k + 1) - 1) + 1 .. Edge(n, k + 1)
      BY <2>0, <2>5, <2>6, <2>7, <2>8
    <3> QED BY <2>3, <3>1 DEF Slice
  <2>9. CASE ~(j <= Edge(n, k + 1))
    <3>1. k + 1 # M
      BY <1>0, <2>0, <2>7, <2>9, Edges
    <3>2. k + 2 \in 1 .. M /\ (k + 2) - 1 = k + 1
      BY <1>0, <2>2, <2>3, <3>1
    <3>3. Edge(n, k + 1) < Edge(n, k + 2) /\ Edge(n, k + 2) \in Nat
      BY <3>2, Edges
    <3>4. j \in Edge(n, (k + 2) - 1) + 1 .. Edge(n, k + 2)
      BY <2>0, <2>5, <2>6, <2>7, <2>9, <3>2, <3>3
    <3> QED BY <3>2, <3>4 DEF Slice
  <2> QED BY <2>8, <2>9
<1> QED BY <1>1, <1>2

\* A series of n points, as a sequence.
LEMMA Length ==
  ASSUME NEW n \in Nat, NEW S, NEW s \in [1 .. n -> S]
  PROVE  Len(s) = n
<1>1. s \in Seq(S)
  OBVIOUS
<1>2. DOMAIN s = 1 .. Len(s) /\ Len(s) \in Nat
  BY <1>1
<1> QED BY <1>2

LEMMA GraphShows ==
  ASSUME Typed, RowsInv
  PROVE  OutageShows
<1> SUFFICES ASSUME NEW seconds \in Windows
             PROVE  /\ (\E r \in rows \ Lost(seconds) : r.ts > clock - seconds /\ r.kind = "outage")
                         <=> \E i \in DOMAIN _query_history(seconds).outage : _query_history(seconds).outage[i]
                    /\ \A i \in DOMAIN _query_history(seconds).number :
                         _query_history(seconds).number[i] \/ _query_history(seconds).outage[i]
  BY DEF OutageShows
<1> DEFINE w == {r \in rows : r.ts > clock - seconds}
           W == Window(seconds)
           n == Cardinality(w)
           flags == [i \in DOMAIN W |-> W[i].kind = "outage"]
           data == [i \in DOMAIN W |-> W[i].kind # "outage"]
           M == MAX_DISPLAY
           fell == n > M /\ <<n, M>> \in Falls
           z == IF fell THEN n - 1 ELSE n
<1>1. /\ n \in Nat /\ W \in [1 .. n -> w] /\ \A r \in w : \E i \in 1 .. n : W[i] = r
      /\ \A i, j \in 1 .. n : W[i] = W[j] => i = j
  <2>1. seconds \in Nat
    BY HealthAssumption
  <2> HIDE DEF w, W, n
  <2> QED BY <2>1, WindowIsRows DEF w, W, n, RowsInv
<1>2. (\E r \in rows \ Lost(seconds) : r.ts > clock - seconds /\ r.kind = "outage")
        <=> \E i \in 1 .. z : W[i].kind = "outage"
  <2>1. (\E r \in rows \ Lost(seconds) : r.ts > clock - seconds /\ r.kind = "outage")
          <=> \E r \in w \ Lost(seconds) : r.kind = "outage"
    OBVIOUS
  <2> HIDE DEF w, W, n
  <2>2. Lost(seconds) = IF fell THEN {W[n]} ELSE {}
    <3>1. Len(W) = n
      BY <1>1, Length
    <3> QED BY <3>1 DEF Lost, W
  <2>3. CASE fell
    <3>1. n \in 1 .. n /\ 1 .. z = (1 .. n) \ {n}
      BY <1>1, <2>3, Bounds
    <3>2. \A i \in 1 .. n : W[i] \in w /\ (W[i] \in Lost(seconds) <=> i = n)
      BY <1>1, <2>2, <2>3, <3>1
    <3> HIDE DEF z, fell
    <3> QED BY <1>1, <2>1, <3>1, <3>2
  <2>4. CASE ~fell
    <3>1. Lost(seconds) = {} /\ z = n
      BY <2>2, <2>4
    <3> HIDE DEF z, fell
    <3> QED BY <1>1, <2>1, <3>1
  <2> QED BY <2>3, <2>4
<1>3. _query_history(seconds) = [outage |-> _downsample_flags(flags), number |-> _downsample(data)]
  BY DEF _query_history
<1> HIDE DEF w, W, n
<1>4. /\ flags \in [1 .. n -> BOOLEAN] /\ data \in [1 .. n -> BOOLEAN]
      /\ \A i \in 1 .. n : (flags[i] <=> W[i].kind = "outage") /\ (data[i] <=> ~flags[i])
  BY <1>1
<1> HIDE DEF flags, data
<1>5. Len(flags) = n /\ Len(data) = n
  BY <1>1, <1>4, Length
<1>6. CASE n <= M
  <2>1. _downsample_flags(flags) = flags /\ _downsample(data) = data
    BY <1>5, <1>6 DEF _downsample_flags, _downsample
  <2>2. DOMAIN flags = 1 .. n /\ DOMAIN data = 1 .. n
    BY <1>4
  <2>3. z = n
    BY <1>1, <1>6, Bounds
  <2> HIDE DEF z, fell
  <2> QED BY <1>2, <1>3, <1>4, <2>1, <2>2, <2>3
<1>7. CASE n > M
  <2>0. Edge(n, M) = z /\ z \in Nat /\ z <= n
    BY <1>1, <1>7, Bounds, Edges
  <2> HIDE DEF z, fell
  <2>1. /\ \A i \in 1 .. M : Slice(n, i) \subseteq 1 .. z /\ Slice(n, i) # {}
        /\ \A j \in 1 .. z : \E i \in 1 .. M : j \in Slice(n, i)
        /\ 1 .. z \subseteq 1 .. n
    BY <1>1, <1>7, <2>0, Slices
  <2>2. ~(n <= M)
    BY <1>1, <1>7, Bounds
  <2>3. /\ _downsample_flags(flags) = [i \in 1 .. M |-> \E j \in Slice(n, i) : flags[j]]
        /\ _downsample(data) = [i \in 1 .. M |-> \E j \in Slice(n, i) : data[j]]
    BY <1>5, <2>2 DEF _downsample_flags, _downsample
  <2>4. (\E i \in 1 .. z : flags[i]) <=> \E i \in 1 .. M : \E j \in Slice(n, i) : flags[j]
    BY <2>1
  <2>5. \A i \in 1 .. M : (\E j \in Slice(n, i) : data[j]) \/ \E j \in Slice(n, i) : flags[j]
    <3>1. \A i \in 1 .. M : \E j \in 1 .. n : j \in Slice(n, i)
      BY <2>1
    <3> QED BY <1>4, <3>1
  <2>6. \A i \in 1 .. z : flags[i] <=> W[i].kind = "outage"
    BY <1>4, <2>1
  <2> HIDE DEF M
  <2> QED BY <1>2, <1>3, <2>3, <2>4, <2>5, <2>6
<1> QED BY <1>1, <1>6, <1>7, Bounds

\* OutageShows: a graph shows an outage if and only if a row of its window is one, but for the
\* newest where rounding leaves it out, and a point without a number stands for one; for every
\* length of the window and of the graph, and however the floating-point products fall.
THEOREM OutagesShow == Spec => []OutageShows
<1> DEFINE Inv == Typed /\ RowsInv
<1>1. Init => Inv
  BY TypedInit DEF Init, RowsInv, Apart
<1>2. Inv /\ [Next]_vars => Inv'
  BY TypedStartup, TypedCollect, TypedSynthetic, TypedTime,
     RowsStartup, RowsCollect, RowsSynthetic, RowsTime DEF Next
<1>3. Inv => OutageShows
  BY GraphShows
<1> QED BY <1>1, <1>2, <1>3, PTL DEF Spec
=============================================================================
