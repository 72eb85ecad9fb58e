------------------------------- MODULE Health -------------------------------
(***************************************************************************)
(* The health monitor: the thread that collects real samples, the thread   *)
(* that repeats the last of them in between, the row of each in the        *)
(* metrics table, and the start that fills in the silence of an outage.    *)
(*                                                                         *)
(* Time passes between any two steps, a call may hang, the database may    *)
(* refuse, and the process may die.  The clock counts seconds, as the      *)
(* debounce of the inserts does; the other intervals keep their order.     *)
(***************************************************************************)
EXTENDS Integers, FiniteSets, FiniteSetsExt, Sequences

CONSTANTS
  SYNTHETIC_INTERVAL,  \* seconds between synthetic points: 5
  OUTAGE_THRESHOLD,    \* seconds of silence that make an outage: 30
  Retention,           \* how far a backfill reaches and a row is kept: 7 days
  Hour,                \* seconds between two health summaries
  PruneEvery,          \* collections between two prunings: 8640
  MAX_DISPLAY,         \* points of a graph: 1500
  Falls,               \* <<n, i>>: float i * (n / MAX_DISPLAY) is just below its whole number
  Windows,             \* the ranges a graph may show
  MaxClock,            \* bound on the time
  MaxCrashes,          \* bound on the deaths of the process
  MaxRefusals,         \* bound on what the database refuses; none in the last seconds
  Never                \* None: no time stamp yet

ASSUME HealthAssumption ==
  /\ {SYNTHETIC_INTERVAL, OUTAGE_THRESHOLD, Retention, Hour, PruneEvery, MAX_DISPLAY} \subseteq Nat \ {0}
  /\ SYNTHETIC_INTERVAL < OUTAGE_THRESHOLD /\ OUTAGE_THRESHOLD < Retention
  /\ \A f \in Falls : f \in Nat \X (1 .. MAX_DISPLAY) /\ (f[1] * f[2]) % MAX_DISPLAY = 0
  /\ Windows \subseteq Nat /\ {MaxClock, MaxCrashes, MaxRefusals} \subseteq Nat
  /\ Never \notin Int

VARIABLES
  clock, crashes, refusals,
  rows,       \* health_metrics
  phase,      \* what the process is doing: down, a step of the start, running
  since,      \* when the process was started, or died
  found,      \* _detect_and_backfill_outage: the newest row's time, and the time it was read
  collector,  \* _bg_collect: the sample it holds, and when it last polled
  ticker,     \* _bg_synthetic: likewise
  lastReal,   \* _last_real["ts"]
  lastInsert, \* _last_insert_ts
  breached,   \* _prev_thresholds
  summary,    \* _last_health_summary_hour; Never before the first poll
  polls       \* _prune_counter

clocks == <<clock, crashes, refusals>>
start == <<phase, since, found>>
memory == <<lastReal, lastInsert, breached, summary, polls>>
vars == <<clocks, rows, start, collector, ticker, memory>>

-----------------------------------------------------------------------------
(* The table and the memory *)

Kinds == {"real", "synthetic", "outage"}
Events == {"warn", "ok", "check", "offline", "restored"}
Row(ts, kind, event) == [ts |-> ts, kind |-> kind, event |-> event]
Sleeping(at) == [at |-> "sleep", ts |-> at, event |-> {}]
Times == {r.ts : r \in rows}
Newest == Max(Times)

\* What a new process remembers: nothing.
Forget ==
  /\ collector' = Sleeping(Never) /\ ticker' = Sleeping(Never)
  /\ lastReal' = Never /\ lastInsert' = Never /\ breached' = FALSE /\ summary' = Never /\ polls' = 0

Init ==
  /\ clock = 0 /\ crashes = 0 /\ refusals = 0 /\ rows = {}
  /\ phase = "down" /\ since = -1 /\ found = [newest |-> Never, now |-> Never]
  /\ collector = Sleeping(Never) /\ ticker = Sleeping(Never)
  /\ lastReal = Never /\ lastInsert = Never /\ breached = FALSE /\ summary = Never /\ polls = 0

\* The database refuses, and the exception is printed.
Refuses == refusals < MaxRefusals /\ clock + 2 <= MaxClock /\ refusals' = refusals + 1
Accepts == UNCHANGED refusals

-----------------------------------------------------------------------------
(* The start *)

\* _ensure_table; a database that cannot be reached ends the process at once.
Start ==
  /\ phase = "down" /\ since < clock
  /\ phase' = "detect" /\ since' = clock
  /\ UNCHANGED <<clocks, rows, found, collector, ticker, memory>>

\* Mutant: an outage is declared one threshold late.
IsLongOutage(gap) == gap >= 2 * OUTAGE_THRESHOLD

IsOutage(gap) == gap >= OUTAGE_THRESHOLD

\* The newest row, of whatever kind, and then the time.
Detect ==
  /\ phase = "detect" /\ Accepts
  /\ IF rows = {} THEN phase' = "running" /\ UNCHANGED <<found, lastReal>>
     ELSE /\ found' = [newest |-> Newest, now |-> clock]
          /\ IF IsOutage(clock - Newest) THEN phase' = "backfill" /\ UNCHANGED lastReal
             ELSE phase' = "running" /\ lastReal' = Newest
  /\ UNCHANGED <<clock, crashes, rows, since, collector, ticker, lastInsert, breached, summary, polls>>

DetectFails ==
  /\ phase = "detect" /\ Refuses
  /\ phase' = "running"
  /\ UNCHANGED <<clock, crashes, rows, since, found, collector, ticker, memory>>

BackfillStart == Max({found.newest, found.now - Retention})

\* _bulk_insert_outage: one transaction, a row every interval, both ends excluded.
Outage == {t \in BackfillStart + 1 .. found.now - 1 : (t - BackfillStart) % SYNTHETIC_INTERVAL = 0}

Backfill ==
  /\ phase = "backfill"
  /\ \/ Accepts /\ rows' = rows \cup {Row(t, "outage", {}) : t \in Outage \ Times}
     \/ Refuses /\ UNCHANGED rows
  /\ phase' = "tag"
  /\ UNCHANGED <<clock, crashes, since, found, collector, ticker, memory>>

Untagged(ts) == {r \in rows : r.ts = ts /\ r.kind = "outage" /\ r.event = {}}

\* The first outage row after the start of the backfill, and the last, unless it is the same.
Tag ==
  LET times == {r.ts : r \in {r \in rows : r.kind = "outage" /\ r.ts > BackfillStart}}
      first == IF times = {} THEN {} ELSE Untagged(Min(times))
      last == IF times = {} THEN {} ELSE Untagged(Max(times)) \ first
  IN /\ phase = "tag"
     /\ \/ /\ Accepts
           /\ rows' = (rows \ (first \cup last))
                      \cup {[r EXCEPT !.event = {"offline"}] : r \in first}
                      \cup {[r EXCEPT !.event = {"restored"}] : r \in last}
        \/ Refuses /\ UNCHANGED rows
     /\ phase' = "running"
     /\ UNCHANGED <<clock, crashes, since, found, collector, ticker, memory>>

-----------------------------------------------------------------------------
(* The two threads *)

CheckDue == summary # clock \div Hour

\* Mutant: only the way up is an event.
WarnOnly(breach) == IF breach /\ ~breached THEN {"warn"} ELSE {}

Crossing(breach) ==
  CASE breach /\ ~breached -> {"warn"}
    [] ~breach /\ breached -> {"ok"}
    [] OTHER -> {}

\* A collector that fails answers no percentage, which reads as 0: below the threshold.
collect_vm(load, fails) == load /\ ~fails

\* collect_all up to the insert.
Measure(breach) ==
  /\ phase = "running" /\ collector.at = "sleep" /\ collector.ts \in {Never} \cup 0 .. clock - 1
  /\ collector' = [at |-> "insert", ts |-> clock,
                   event |-> Crossing(breach) \cup (IF CheckDue THEN {"check"} ELSE {})]
  /\ breached' = breach
  /\ summary' = clock \div Hour
  /\ UNCHANGED <<clocks, rows, start, ticker, lastReal, lastInsert, polls>>

\* Less than a second after the last insert, whoever made it, a row without an event is left out.
Debounced(event) == lastInsert = clock /\ event = {}

\* The time of the insert is kept before the database is asked.
_insert_metric(job, kind) ==
  IF Debounced(job.event) THEN UNCHANGED <<rows, lastInsert, refusals>>
  ELSE /\ lastInsert' = clock
       /\ \/ Accepts /\ rows' = rows \cup {Row(job.ts, kind, job.event)}
          \/ Refuses /\ UNCHANGED rows

\* Mutant: nobody catches the exception, and the thread ends.
EndsThread == "dead"

\* A refused insert is printed and the poll goes on.
AfterRefusal == "remember"

InsertReal ==
  /\ phase = "running" /\ collector.at = "insert"
  /\ _insert_metric(collector, "real")
  /\ collector' = [collector EXCEPT !.at = IF refusals' = refusals THEN "remember" ELSE AfterRefusal]
  /\ UNCHANGED <<clock, crashes, start, ticker, lastReal, breached, summary, polls>>

\* Mutant: the counter of the prunings is compared before it is advanced.
PruneLate == polls >= PruneEvery

PruneDue == polls + 1 >= PruneEvery

\* The last real sample whether or not it was inserted; once a day, the pruning.
Remember ==
  /\ phase = "running" /\ collector.at = "remember"
  /\ lastReal' = collector.ts
  /\ collector' = Sleeping(clock)
  /\ IF PruneDue
     THEN /\ polls' = 0
          /\ \/ Accepts /\ rows' = {r \in rows : r.ts >= clock - Retention}
             \/ Refuses /\ UNCHANGED rows
     ELSE polls' = polls + 1 /\ UNCHANGED <<rows, refusals>>
  /\ UNCHANGED <<clock, crashes, start, ticker, lastInsert, breached, summary>>

Fresh == lastReal # Never /\ clock - lastReal <= OUTAGE_THRESHOLD

\* The ticker sleeps first; without a recent sample it sleeps again.
Repeat ==
  /\ phase = "running" /\ ticker.at = "sleep"
  /\ clock - (IF ticker.ts = Never THEN since ELSE ticker.ts) >= SYNTHETIC_INTERVAL
  /\ ticker' = IF Fresh THEN [at |-> "insert", ts |-> clock, event |-> {}] ELSE Sleeping(clock)
  /\ UNCHANGED <<clocks, rows, start, collector, memory>>

InsertSynthetic ==
  /\ phase = "running" /\ ticker.at = "insert"
  /\ _insert_metric(ticker, "synthetic")
  /\ ticker' = Sleeping(clock)
  /\ UNCHANGED <<clock, crashes, start, collector, lastReal, breached, summary, polls>>

-----------------------------------------------------------------------------
(* Time, death, and the specification *)

\* Bound: in the last seconds the collector does not hang.
Quiet ==
  clock + 2 >= MaxClock /\ phase = "running" => collector.at = "sleep" /\ collector.ts = clock

Tick ==
  /\ clock < MaxClock /\ clock' = clock + 1 /\ Quiet
  /\ UNCHANGED <<crashes, refusals, rows, start, collector, ticker, memory>>

Crash ==
  /\ phase # "down" /\ crashes < MaxCrashes /\ clock < MaxClock /\ crashes' = crashes + 1
  /\ phase' = "down" /\ since' = clock /\ found' = [newest |-> Never, now |-> Never]
  /\ Forget
  /\ UNCHANGED <<clock, refusals, rows>>

Startup == Start \/ Detect \/ DetectFails \/ Backfill \/ Tag
_bg_collect ==
  \/ \E load, fails \in BOOLEAN : Measure(collect_vm(load, fails))
  \/ InsertReal \/ Remember
_bg_synthetic == Repeat \/ InsertSynthetic

Next == Startup \/ _bg_collect \/ _bg_synthetic \/ Tick \/ Crash

\* Time passes, the container is restarted, and the collector's calls return.
Fairness == WF_vars(Tick) /\ WF_vars(Startup) /\ WF_vars(_bg_collect)

Spec == Init /\ [][Next]_vars /\ Fairness

-----------------------------------------------------------------------------
(* What is read back *)

\* The rows that say something; how many of them a page asks for is left open.
health_events == {r \in rows : r.event # {}}

\* Rows of the same second: the ticker's is the later one.
Before(r, s) ==
  \/ r.ts < s.ts
  \/ r.ts = s.ts /\ r.kind = "real" /\ s.kind = "synthetic"

\* The rows of a window, oldest first.
Window(seconds) ==
  LET w == {r \in rows : r.ts > clock - seconds}
  IN [i \in 1 .. Cardinality(w) |-> CHOOSE r \in w : Cardinality({s \in w : Before(s, r)}) = i - 1]

\* int(i * step) for the float step n / MAX_DISPLAY.  Rounding matters only where the product
\* is a whole number: anywhere else it is further from one than the error.
Edge(n, i) == (i * n) \div MAX_DISPLAY - (IF <<n, i>> \in Falls THEN 1 ELSE 0)

\* Mutant: the last row of each slice is left out.
SliceShort(n, i) == Edge(n, i - 1) + 1 .. Edge(n, i) - 1

\* The rows that one point of the graph stands for.
Slice(n, i) == Edge(n, i - 1) + 1 .. Edge(n, i)

_downsample_flags(flags) ==
  IF Len(flags) <= MAX_DISPLAY THEN flags
  ELSE [i \in 1 .. MAX_DISPLAY |-> \E j \in Slice(Len(flags), i) : flags[j]]

\* A number is averaged over the samples that have one; a point without any is a hole.
_downsample(data) ==
  IF Len(data) <= MAX_DISPLAY THEN data
  ELSE [i \in 1 .. MAX_DISPLAY |-> \E j \in Slice(Len(data), i) : data[j]]

_query_history(seconds) ==
  LET w == Window(seconds)
  IN [outage |-> _downsample_flags([i \in DOMAIN w |-> w[i].kind = "outage"]),
      number |-> _downsample([i \in DOMAIN w |-> w[i].kind # "outage"])]

-----------------------------------------------------------------------------
(* Properties *)

MaybeTime == 0 .. MaxClock \cup {Never}

\* Every variable keeps its type, and no row is of the future.
TypeOK ==
  /\ clock \in 0 .. MaxClock /\ crashes \in 0 .. MaxCrashes /\ refusals \in 0 .. MaxRefusals
  /\ rows \subseteq [ts : 0 .. clock, kind : Kinds, event : SUBSET Events]
  /\ phase \in {"down", "detect", "backfill", "tag", "running"} /\ since \in -1 .. clock
  /\ found \in [newest : MaybeTime, now : MaybeTime]
  /\ collector \in [at : {"sleep", "insert", "remember"}, ts : MaybeTime, event : SUBSET Events]
  /\ ticker \in [at : {"sleep", "insert"}, ts : MaybeTime, event : {{}}]
  /\ lastReal \in MaybeTime /\ lastInsert \in MaybeTime /\ breached \in BOOLEAN
  /\ summary \in Nat \cup {Never} /\ polls \in 0 .. PruneEvery - 1

\* When a start hands over to the threads and the database refused nothing, no silence as
\* long as an outage lies behind it, back to the newest row or the retention limit: however
\* often the process died, and in the middle of which start.
StartLeavesNoGap ==
  [][ phase # "running" /\ phase' = "running" /\ refusals' = 0 /\ found'.now # Never =>
        \A t \in Max({found'.newest, found'.now - Retention + OUTAGE_THRESHOLD}) .. found'.now - 1 :
          \E r \in rows' : r.ts \in t - OUTAGE_THRESHOLD + 1 .. t ]_vars

\* While the database refuses nothing, the crossings told since the start leave the reader
\* with what the monitor holds, unless the row was pruned meanwhile: the debounce that the two
\* threads share loses none.
BreachIsTold ==
  refusals = 0 /\ phase = "running" /\ collector.at # "insert" =>
    LET told == {r \in health_events : r.ts >= since /\ r.event \cap {"warn", "ok"} # {}}
    IN IF told = {} THEN breached => since < clock - Retention
       ELSE breached = \E r \in told : r.ts = Max({s.ts : s \in told}) /\ "warn" \in r.event

\* The newest row of the window, where the last edge falls: no point stands for it.
Lost(seconds) ==
  LET n == Len(Window(seconds))
  IN IF n > MAX_DISPLAY /\ <<n, MAX_DISPLAY>> \in Falls THEN {Window(seconds)[n]} ELSE {}

\* A graph shows an outage if and only if a row of its window is one, however many rows a
\* point stands for and wherever rounding puts the edges, but for the newest row when
\* rounding leaves it out; and a point without a number is one of an outage.
OutageShows ==
  \A seconds \in Windows :
    LET answer == _query_history(seconds)
    IN /\ (\E r \in rows \ Lost(seconds) : r.ts > clock - seconds /\ r.kind = "outage")
            <=> \E i \in DOMAIN answer.outage : answer.outage[i]
       /\ \A i \in DOMAIN answer.number : answer.number[i] \/ answer.outage[i]

\* Once the deaths and refusals are over a real sample of this process is recorded, although
\* the ticker's rows may suppress the collector's.
Resumes == <>[](phase = "running" /\ \E r \in rows : r.kind = "real" /\ r.ts >= since)
=============================================================================
