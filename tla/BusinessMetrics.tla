-------------------------- MODULE BusinessMetrics --------------------------
(***************************************************************************)
(* BusinessMetrics of one replica: the gauges of a scrape call snapshot(), *)
(* which serves a cache, joins the load in flight or starts one.  A load   *)
(* races the database against a timer; the loser is not cancelled, so a    *)
(* read that timed out goes on running and its answer is dropped.  The     *)
(* exporter is cumulative: a series keeps its last value until a callback  *)
(* observes a new one.                                                     *)
(*                                                                         *)
(* A snapshot is represented by its age, the ticks since its load started: *)
(* that is the cached.at the code compares.  The settling of a load and    *)
(* the callbacks that awaited it are one step: only microtasks lie between.*)
(***************************************************************************)
EXTENDS Naturals

CONSTANTS
  Series,        \* the gauges read from the snapshot
  UpGauge,       \* the gauge soat_business_metrics_up
  CacheTicks,    \* CACHE_MS
  TimeoutTicks,  \* QUERY_TIMEOUT_MS
  MaxLag         \* bound: how late the event loop runs a timer that is due

ASSUME GaugeAssumption == UpGauge \notin Series
ASSUME TicksAssumption ==
  /\ CacheTicks \in Nat /\ TimeoutTicks \in Nat \ {0} /\ TimeoutTicks < CacheTicks
  /\ MaxLag \in Nat

VARIABLES
  cached,     \* age of the cached snapshot, or Never
  load,       \* age of the load in flight, or Never
  lastLoadOk,
  gauge,      \* where the callback of each gauge stands in the scrape
  exported,   \* age of the snapshot behind the exported value of each series
  up,         \* the exported value of UpGauge
  sinceRead,  \* ticks since a read was last started
  slipped     \* the clock moved between two callbacks of this scrape

vars == <<cached, load, lastLoadOk, gauge, exported, up, sinceRead, slipped>>

Gauges == Series \union {UpGauge}
MaxAge == 2 * CacheTicks + TimeoutTicks + MaxLag + 1  \* ages are not told apart beyond it
Never == MaxAge + 1
Age == 0..MaxAge

Init ==
  /\ cached = Never /\ load = Never /\ lastLoadOk = FALSE
  /\ gauge = [g \in Gauges |-> "idle"]
  /\ exported = [s \in Series |-> Never]
  /\ up = 0 /\ sinceRead = Never /\ slipped = FALSE

-----------------------------------------------------------------------------
\* The exporter collects: it calls every callback, in one synchronous pass (in
\* the order of registration; any order here).
BeginScrape ==
  /\ \A g \in Gauges : gauge[g] = "idle"
  /\ gauge' = [g \in Gauges |-> "called"]
  /\ slipped' = FALSE
  /\ UNCHANGED <<cached, load, lastLoadOk, exported, up, sinceRead>>

\* Every callback has returned: the response is written at once.
Collected == \A g \in Gauges : gauge[g] = "done"

EndScrape ==
  /\ Collected
  /\ gauge' = [g \in Gauges |-> "idle"]
  /\ UNCHANGED <<cached, load, lastLoadOk, exported, up, sinceRead, slipped>>

\* What the callbacks of the gauges in gs observe of a snapshot of that age.
Observe(gs, age, ok) ==
  /\ exported' = [s \in Series |-> IF s \in gs /\ age # Never THEN age ELSE exported[s]]
  /\ up' = IF UpGauge \in gs THEN (IF ok THEN 1 ELSE 0) ELSE up
  /\ gauge' = [g \in Gauges |-> IF g \in gs THEN "done" ELSE gauge[g]]

Fresh == cached < CacheTicks

\* Fault: a callback that finds a load in flight starts its own.
StartAlways == TRUE

\* A load is started only if none is in flight.
StartsLoad == load = Never

\* snapshot(), called by the callback of g.
Snapshot(g) ==
  /\ gauge[g] = "called"
  /\ IF Fresh
     THEN /\ Observe({g}, cached, lastLoadOk)
          /\ UNCHANGED <<load, sinceRead>>
     ELSE /\ gauge' = [gauge EXCEPT ![g] = "waiting"]
          /\ load' = IF StartsLoad THEN 0 ELSE load
          /\ sinceRead' = IF StartsLoad THEN 0 ELSE sinceRead
          /\ UNCHANGED <<exported, up>>
  /\ UNCHANGED <<cached, lastLoadOk, slipped>>

\* The synchronous pass is not over: nothing settles before it is.
Passing == \E g \in Gauges : gauge[g] = "called"

Waiting == {g \in Gauges : gauge[g] = "waiting"}

\* Fault: after a failure, success is not noted any more.
LoadedQuietly ==
  /\ cached' = load
  /\ lastLoadOk' = (cached = Never \/ lastLoadOk)
  /\ Observe(Waiting, load, lastLoadOk')

\* The read answers first: cached.at is the time the load started.
Loaded ==
  /\ cached' = load
  /\ lastLoadOk' = TRUE
  /\ Observe(Waiting, load, TRUE)

\* Fault: a failed load leaves lastLoadOk as it was.
FailedQuietly ==
  /\ Observe(Waiting, Never, lastLoadOk)
  /\ UNCHANGED <<cached, lastLoadOk>>

\* The catch of load(): the cache is kept, whoever waited gets null.
Failed ==
  /\ lastLoadOk' = FALSE
  /\ Observe(Waiting, Never, FALSE)
  /\ UNCHANGED cached

ReadAnswers ==
  /\ load # Never /\ ~Passing
  /\ Loaded
  /\ load' = Never
  /\ UNCHANGED <<sinceRead, slipped>>

\* One of the three queries fails; what the others answer is dropped.
ReadFails ==
  /\ load # Never /\ ~Passing
  /\ Failed
  /\ load' = Never
  /\ UNCHANGED <<sinceRead, slipped>>

\* Fault: the timer is not armed.
TimerMissing == FALSE

TimerDue == load # Never /\ load >= TimeoutTicks

\* The timer fires first; the read goes on in the database.
Timeout ==
  /\ TimerDue /\ ~Passing
  /\ Failed
  /\ load' = Never
  /\ UNCHANGED <<sinceRead, slipped>>

Older(age) == IF age < MaxAge THEN age + 1 ELSE age

\* Time passes: at most once within the synchronous pass over the callbacks,
\* and not beyond MaxLag while a timer is due.
Tick ==
  /\ ~Collected
  /\ Passing => ~slipped
  /\ TimerDue => load < TimeoutTicks + MaxLag
  /\ cached' = Older(cached)
  /\ load' = Older(load)
  /\ exported' = [s \in Series |-> Older(exported[s])]
  /\ sinceRead' = Older(sinceRead)
  /\ slipped' = (slipped \/ Passing)
  /\ UNCHANGED <<lastLoadOk, gauge, up>>

Next ==
  \/ BeginScrape \/ EndScrape \/ \E g \in Gauges : Snapshot(g)
  \/ ReadAnswers \/ ReadFails \/ Timeout \/ Tick

\* Time passes, callbacks and timers run.  The database need not answer, and
\* nobody is obliged to scrape.
Fairness ==
  /\ WF_vars(Tick) /\ WF_vars(Timeout) /\ WF_vars(EndScrape)
  /\ \A g \in Gauges : WF_vars(Snapshot(g))

Spec == Init /\ [][Next]_vars /\ Fairness

-----------------------------------------------------------------------------
\* soat_business_metrics_up tells whether the numbers hold: a scrape that ends
\* with it at 1 exports no series older than two caches, one timeout and the
\* lag of the event loop, although the exporter keeps old values for ever.
\* (Two: a series served just before the cache expires can miss the next load,
\* if that scrape, too, straddles the expiry and its load fails.)
UpMeansCurrent ==
  (up = 1 /\ Collected) =>
    \A s \in Series : exported[s] <= 2 * CacheTicks + TimeoutTicks + MaxLag

\* The database is read more than once per CACHE_MS only after a load that failed
\* (failures are not cached); and also then at most once per scrape: no callback
\* that awaited a read is followed by one that starts another, and whoever was
\* answered before the start had the cache, which expired within the pass.
ReadsAreRationed ==
  [][(\E g \in Gauges : Snapshot(g)) /\ (load' # load \/ sinceRead' # sinceRead)
       => /\ lastLoadOk => sinceRead >= CacheTicks
          /\ \A g \in Gauges : gauge[g] # "waiting"
          /\ (\E g \in Gauges : gauge[g] = "done") => cached <= CacheTicks]_vars

\* A scrape ends even if the database never answers.
ScrapesEnd == (\E g \in Gauges : gauge[g] # "idle") ~> (\A g \in Gauges : gauge[g] = "idle")

\* Once reads stop failing, the gauge comes back to 1 and stays, however the
\* earlier loads ended, as long as somebody scrapes.
Recovers ==
  (<>[][~ReadFails /\ ~Timeout]_vars /\ []<><<EndScrape>>_vars) => <>[](up = 1)
=============================================================================
