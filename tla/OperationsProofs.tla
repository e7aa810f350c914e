--------------------------- MODULE OperationsProofs ---------------------------
(***************************************************************************)
(* What operators rely on: the business metrics, for any set of gauges,    *)
(* any cache, any timeout shorter than it and any lag of the event loop,   *)
(* and the deployments, for any number of replicas.  The two share no      *)
(* state.                                                                  *)
(***************************************************************************)
EXTENDS BusinessMetrics, Deployment, SequenceTheorems, SumTheorems, TLAPS

-----------------------------------------------------------------------------
(* Business metrics: the invariant.                                        *)

TypeOK ==
  /\ cached \in 0..Never
  /\ load \in (0..TimeoutTicks + MaxLag) \union {Never}
  /\ lastLoadOk \in BOOLEAN /\ slipped \in BOOLEAN
  /\ gauge \in [Gauges -> {"idle", "called", "waiting", "done"}]
  /\ exported \in [Series -> 0..Never]
  /\ up \in {0, 1}
  /\ sinceRead \in 0..Never

\* Between scrapes nobody works; a load is in flight while somebody awaits it.
Phases ==
  /\ (\E g \in Gauges : gauge[g] = "idle") => (\A g \in Gauges : gauge[g] = "idle")
  /\ load # Never <=> Waiting # {}

\* After a load that succeeded, no series is a cache older than what is cached;
\* and that is the read that was last started.
CacheIsLastRead ==
  /\ load # Never => sinceRead = load
  /\ lastLoadOk => \A s \in Series : exported[s] <= CacheTicks + cached
  /\ lastLoadOk /\ load = Never => sinceRead = cached

\* What this scrape served from the cache was fresh, but for a slip of the clock,
\* and is a cache older than the load it then straddled.
ServedWasFresh ==
  /\ Passing =>
       /\ (\E g \in Gauges : gauge[g] = "done") =>
            cached < CacheTicks \/ (slipped /\ cached <= CacheTicks)
       /\ gauge[UpGauge] = "done" /\ up = 1 => lastLoadOk
  /\ \A s \in Series : gauge[s] = "done" =>
       /\ Passing /\ load = Never =>
            exported[s] < CacheTicks \/ (slipped /\ exported[s] <= CacheTicks)
       /\ load # Never => exported[s] <= CacheTicks + load

\* What waits while UpGauge was already served as 1 is two caches older than the load.
WaitingIsBounded ==
  gauge[UpGauge] = "done" /\ up = 1 =>
    \A s \in Series : gauge[s] = "waiting" => exported[s] <= 2 * CacheTicks + load

IInv ==
  /\ TypeOK /\ Phases /\ CacheIsLastRead /\ ServedWasFresh /\ WaitingIsBounded
  /\ UpMeansCurrent

LEMMA Bounds ==
  /\ CacheTicks \in Nat /\ TimeoutTicks \in Nat /\ MaxLag \in Nat
  /\ 2 <= CacheTicks /\ 1 <= TimeoutTicks
  /\ Never \in Nat /\ MaxAge \in Nat
  /\ MaxAge = 2 * CacheTicks + TimeoutTicks + MaxLag + 1
  /\ Never = 2 * CacheTicks + TimeoutTicks + MaxLag + 2
  /\ UpGauge \in Gauges /\ Series \subseteq Gauges /\ UpGauge \notin Series
BY TicksAssumption, GaugeAssumption DEF Never, MaxAge, Gauges

LEMMA InitIInv == Init => IInv
<1> SUFFICES ASSUME Init PROVE IInv
  OBVIOUS
<1>1. TypeOK
  <2>1. Never \in 0..Never
    BY Bounds
  <2>2. lastLoadOk \in BOOLEAN /\ slipped \in BOOLEAN
    BY Zenon DEF Init
  <2> QED
    BY <2>1, <2>2 DEF Init, TypeOK
<1>2. /\ \A g \in Gauges : gauge[g] = "idle"
      /\ load = Never /\ lastLoadOk = FALSE /\ up = 0 /\ UpGauge \in Gauges /\ Series \subseteq Gauges
  BY Bounds DEF Init
<1>3. Phases /\ CacheIsLastRead
  BY <1>2 DEF Phases, CacheIsLastRead, Waiting
<1>4. ServedWasFresh /\ WaitingIsBounded /\ UpMeansCurrent
  BY <1>2 DEF ServedWasFresh, WaitingIsBounded, UpMeansCurrent, Passing
<1> QED
  BY <1>1, <1>3, <1>4 DEF IInv

\* Ages grow together, and stay within their bound.
LEMMA OlderAge ==
  ASSUME NEW a \in 0..Never
  PROVE  /\ Older(a) \in 0..Never
         /\ a < MaxAge => Older(a) = a + 1
         /\ a >= MaxAge => Older(a) = a
BY Bounds DEF Older

-----------------------------------------------------------------------------
(* Steps.                                                                  *)

LEMMA BeginScrapeKeeps == ASSUME IInv, BeginScrape PROVE IInv'
<1>1. /\ gauge' = [g \in Gauges |-> "called"] /\ \A g \in Gauges : gauge[g] = "idle"
      /\ slipped' = FALSE
      /\ UNCHANGED <<cached, load, lastLoadOk, exported, up, sinceRead>>
  BY DEF BeginScrape
<1>2. load = Never
  BY <1>1 DEF IInv, Phases, Waiting
<1>3. TypeOK'
  BY <1>1 DEF IInv, TypeOK
<1>4. Phases'
  BY <1>1, <1>2 DEF Phases, Waiting
<1>5. CacheIsLastRead'
  BY <1>1 DEF IInv, CacheIsLastRead
<1>6. ServedWasFresh' /\ WaitingIsBounded' /\ UpMeansCurrent'
  BY <1>1, Bounds DEF ServedWasFresh, WaitingIsBounded, UpMeansCurrent, Collected
<1> QED
  BY <1>3, <1>4, <1>5, <1>6 DEF IInv

LEMMA EndScrapeKeeps == ASSUME IInv, EndScrape PROVE IInv'
<1>1. /\ gauge' = [g \in Gauges |-> "idle"] /\ \A g \in Gauges : gauge[g] = "done"
      /\ UNCHANGED <<cached, load, lastLoadOk, exported, up, sinceRead, slipped>>
  BY DEF EndScrape, Collected
<1>2. load = Never
  BY <1>1 DEF IInv, Phases, Waiting
<1>3. TypeOK'
  BY <1>1 DEF IInv, TypeOK
<1>4. Phases'
  BY <1>1, <1>2 DEF Phases, Waiting
<1>5. CacheIsLastRead'
  BY <1>1 DEF IInv, CacheIsLastRead
<1>6. ServedWasFresh' /\ WaitingIsBounded' /\ UpMeansCurrent'
  BY <1>1, Bounds DEF ServedWasFresh, WaitingIsBounded, UpMeansCurrent, Collected, Passing
<1> QED
  BY <1>3, <1>4, <1>5, <1>6 DEF IInv

\* A callback that finds the cache fresh observes it.
LEMMA ServeKeeps ==
  ASSUME IInv, NEW g \in Gauges, Snapshot(g), Fresh PROVE IInv'
<1>1. /\ gauge[g] = "called" /\ cached < CacheTicks
      /\ exported' = [s \in Series |-> IF s \in {g} /\ cached # Never
                                       THEN cached ELSE exported[s]]
      /\ up' = IF UpGauge \in {g} THEN (IF lastLoadOk THEN 1 ELSE 0) ELSE up
      /\ gauge' = [h \in Gauges |-> IF h \in {g} THEN "done" ELSE gauge[h]]
      /\ UNCHANGED <<load, sinceRead, cached, lastLoadOk, slipped>>
  BY Zenon DEF Snapshot, Fresh, Observe
<1>2. cached # Never /\ cached \in Nat
  BY <1>1, Bounds DEF IInv, TypeOK
<1>3. /\ gauge'[g] = "done" /\ \A h \in Gauges \ {g} : gauge'[h] = gauge[h]
      /\ \A s \in Series : IF s = g THEN exported'[s] = cached ELSE exported'[s] = exported[s]
      /\ g = UpGauge => up' = IF lastLoadOk THEN 1 ELSE 0
      /\ g # UpGauge => up' = up
  BY <1>1, <1>2
<1>4. TypeOK'
  BY <1>1, <1>2 DEF IInv, TypeOK
<1>5. Phases'
  BY <1>1, <1>3 DEF IInv, Phases, Waiting
<1>6. CacheIsLastRead'
  BY <1>1, <1>2, <1>3, Bounds DEF IInv, TypeOK, CacheIsLastRead
<1>7. Passing
  BY <1>1 DEF Passing
<1>8. ServedWasFresh'
  <2>1. Passing' => (gauge'[UpGauge] = "done" /\ up' = 1 => lastLoadOk')
    BY <1>1, <1>3, <1>7, Bounds DEF IInv, ServedWasFresh
  <2>2. ASSUME NEW s \in Series, gauge'[s] = "done"
        PROVE  /\ Passing' /\ load' = Never =>
                    exported'[s] < CacheTicks \/ (slipped' /\ exported'[s] <= CacheTicks)
               /\ load' # Never => exported'[s] <= CacheTicks + load'
    <3>1. CASE s = g
      BY <1>1, <1>2, <1>3, <3>1, Bounds DEF IInv, TypeOK
    <3>2. CASE s # g
      <4>1. gauge[s] = "done" /\ exported'[s] = exported[s]
        BY <1>3, <2>2, <3>2, Bounds
      <4> QED
        BY <1>1, <1>7, <4>1 DEF IInv, ServedWasFresh
    <3> QED
      BY <3>1, <3>2
  <2> QED
    BY <1>1, <2>1, <2>2 DEF ServedWasFresh
<1>9. WaitingIsBounded'
  <2> SUFFICES ASSUME gauge'[UpGauge] = "done", up' = 1, NEW s \in Series, gauge'[s] = "waiting"
               PROVE  exported'[s] <= 2 * CacheTicks + load'
    BY DEF WaitingIsBounded
  <2>1. gauge[s] = "waiting" /\ exported'[s] = exported[s] /\ load # Never
    BY <1>3, Bounds DEF IInv, Phases, Waiting
  <2>2. lastLoadOk
    BY <1>3, <1>7, Bounds DEF IInv, ServedWasFresh
  <2>3. exported[s] <= CacheTicks + cached
    BY <2>2 DEF IInv, CacheIsLastRead
  <2>4. load \in Nat /\ exported[s] \in Nat
    BY <2>1 DEF IInv, TypeOK
  <2> QED
    BY <1>1, <1>2, <2>1, <2>3, <2>4, Bounds
<1>10. UpMeansCurrent'
  <2> SUFFICES ASSUME Collected', NEW s \in Series
               PROVE  exported'[s] <= 2 * CacheTicks + TimeoutTicks + MaxLag
    BY DEF UpMeansCurrent
  <2>1. load = Never
    BY <1>1, <1>3 DEF Collected, IInv, Phases, Waiting
  <2>2. CASE s = g
    BY <1>1, <1>2, <1>3, <2>2, Bounds
  <2>3. CASE s # g
    <3>1. gauge[s] = "done" /\ exported'[s] = exported[s]
      BY <1>3, <2>3, Bounds DEF Collected
    <3>2. exported[s] <= CacheTicks
      BY <1>7, <2>1, <3>1, Bounds DEF IInv, ServedWasFresh, TypeOK
    <3> QED
      BY <3>1, <3>2, Bounds DEF IInv, TypeOK
  <2> QED
    BY <2>2, <2>3
<1> QED
  BY <1>4, <1>5, <1>6, <1>8, <1>9, <1>10 DEF IInv

\* A callback that finds the cache expired joins the load, or starts it.
LEMMA WaitKeeps ==
  ASSUME IInv, NEW g \in Gauges, Snapshot(g), ~Fresh PROVE IInv'
<1>1. /\ gauge[g] = "called" /\ ~(cached < CacheTicks)
      /\ gauge' = [gauge EXCEPT ![g] = "waiting"]
      /\ load' = IF load = Never THEN 0 ELSE load
      /\ sinceRead' = IF load = Never THEN 0 ELSE sinceRead
      /\ UNCHANGED <<exported, up, cached, lastLoadOk, slipped>>
  BY Zenon DEF Snapshot, Fresh, StartsLoad
<1>2. /\ gauge'[g] = "waiting" /\ \A h \in Gauges \ {g} : gauge'[h] = gauge[h]
      /\ load' # Never /\ load' \in 0..TimeoutTicks + MaxLag
  BY <1>1, Bounds DEF IInv, TypeOK
<1>3. TypeOK'
  BY <1>1, <1>2, Bounds DEF IInv, TypeOK
<1>4. Phases'
  BY <1>1, <1>2 DEF IInv, Phases, Waiting
<1>5. CacheIsLastRead'
  BY <1>1, <1>2 DEF IInv, CacheIsLastRead
<1>6. Passing
  BY <1>1 DEF Passing
<1>7. ServedWasFresh'
  <2>1. Passing' => (gauge'[UpGauge] = "done" /\ up' = 1 => lastLoadOk')
    BY <1>1, <1>2, <1>6, Bounds DEF IInv, ServedWasFresh
  <2>2. (\E h \in Gauges : gauge'[h] = "done") => (\E h \in Gauges : gauge[h] = "done")
    BY <1>2
  <2>3. ASSUME NEW s \in Series, gauge'[s] = "done" PROVE exported'[s] <= CacheTicks + load'
    <3>1. gauge[s] = "done" /\ exported'[s] = exported[s]
      BY <1>1, <1>2, <2>3, Bounds
    <3>2. load = Never => exported[s] <= CacheTicks
      BY <1>6, <3>1, Bounds DEF IInv, ServedWasFresh, TypeOK
    <3>3. load # Never => exported[s] <= CacheTicks + load
      BY <3>1 DEF IInv, ServedWasFresh
    <3> QED
      BY <1>1, <3>1, <3>2, <3>3, Bounds DEF IInv, TypeOK
  <2> QED
    BY <1>1, <1>2, <1>6, <2>1, <2>2, <2>3 DEF IInv, ServedWasFresh
<1>8. WaitingIsBounded'
  <2> SUFFICES ASSUME gauge'[UpGauge] = "done", up' = 1, NEW s \in Series
               PROVE  exported'[s] <= 2 * CacheTicks + load'
    BY DEF WaitingIsBounded
  <2>1. gauge[UpGauge] = "done" /\ up = 1
    BY <1>1, <1>2, Bounds
  <2>2. lastLoadOk /\ cached <= CacheTicks
    BY <1>6, <2>1, Bounds DEF IInv, ServedWasFresh, TypeOK
  <2>3. exported[s] <= CacheTicks + cached
    BY <2>2 DEF IInv, CacheIsLastRead
  <2>4. load' \in Nat /\ exported[s] \in Nat /\ cached \in Nat
    BY <1>2 DEF IInv, TypeOK
  <2> QED
    BY <1>1, <2>2, <2>3, <2>4, Bounds
<1>9. UpMeansCurrent'
  BY <1>2 DEF UpMeansCurrent, Collected
<1> QED
  BY <1>3, <1>4, <1>5, <1>7, <1>8, <1>9 DEF IInv

\* A load that answers is what every gauge that waited observes.
LEMMA LoadedKeeps == ASSUME IInv, ReadAnswers PROVE IInv'
<1>1. /\ load # Never /\ ~Passing
      /\ cached' = load /\ lastLoadOk' = TRUE /\ load' = Never
      /\ exported' = [s \in Series |-> IF s \in Waiting /\ load # Never
                                       THEN load ELSE exported[s]]
      /\ up' = IF UpGauge \in Waiting THEN (IF TRUE THEN 1 ELSE 0) ELSE up
      /\ gauge' = [g \in Gauges |-> IF g \in Waiting THEN "done" ELSE gauge[g]]
      /\ UNCHANGED <<sinceRead, slipped>>
  BY Zenon DEF ReadAnswers, Loaded, Observe
<1>2. load \in 0..TimeoutTicks + MaxLag /\ sinceRead = load
  BY <1>1 DEF IInv, TypeOK, CacheIsLastRead
<1>3. \A g \in Gauges : gauge[g] \in {"waiting", "done"}
  BY <1>1 DEF IInv, TypeOK, Phases, Waiting, Passing
<1>4. \A g \in Gauges : gauge'[g] = "done"
  BY <1>1, <1>3 DEF Waiting
<1>5. \A s \in Series : exported'[s] <= CacheTicks + load
  <2> SUFFICES ASSUME NEW s \in Series PROVE exported'[s] <= CacheTicks + load
    OBVIOUS
  <2>1. CASE gauge[s] = "waiting"
    BY <1>1, <1>2, <2>1, Bounds DEF Waiting
  <2>2. CASE gauge[s] = "done"
    BY <1>1, <2>2 DEF Waiting, IInv, ServedWasFresh
  <2> QED
    BY <1>3, <2>1, <2>2, Bounds
<1>6. exported' \in [Series -> 0..Never] /\ up' \in {0, 1}
  BY <1>1, <1>2, Bounds DEF IInv, TypeOK
<1>7. TypeOK'
  BY <1>1, <1>2, <1>4, <1>6, Bounds DEF IInv, TypeOK
<1>8. Phases'
  BY <1>1, <1>4 DEF Phases, Waiting
<1>9. CacheIsLastRead'
  BY <1>1, <1>2, <1>5 DEF CacheIsLastRead
<1>10. ServedWasFresh' /\ WaitingIsBounded'
  BY <1>1, <1>4, Bounds DEF ServedWasFresh, WaitingIsBounded, Passing
<1>11. UpMeansCurrent'
  BY <1>2, <1>5, <1>6, Bounds DEF UpMeansCurrent
<1> QED
  BY <1>7, <1>8, <1>9, <1>10, <1>11 DEF IInv

\* A load that fails or is given up leaves the series as they were: if UpGauge had
\* been served as 1 by then, they are two caches older than the load at most.
LEMMA FailedKeeps ==
  ASSUME IInv, load # Never, ~Passing, Failed, load' = Never, UNCHANGED <<sinceRead, slipped>>
  PROVE  IInv'
<1>1. /\ cached' = cached /\ lastLoadOk' = FALSE
      /\ exported' = [s \in Series |-> IF s \in Waiting /\ Never # Never
                                       THEN Never ELSE exported[s]]
      /\ up' = IF UpGauge \in Waiting THEN (IF FALSE THEN 1 ELSE 0) ELSE up
      /\ gauge' = [g \in Gauges |-> IF g \in Waiting THEN "done" ELSE gauge[g]]
  BY Zenon DEF Failed, Observe
<1>2. load \in 0..TimeoutTicks + MaxLag
  BY DEF IInv, TypeOK
<1>3. \A g \in Gauges : gauge[g] \in {"waiting", "done"}
  BY DEF IInv, TypeOK, Phases, Waiting, Passing
<1>4. \A g \in Gauges : gauge'[g] = "done"
  BY <1>1, <1>3 DEF Waiting
<1>5. exported' = exported
  BY <1>1 DEF IInv, TypeOK
<1>6. TypeOK'
  BY <1>1, <1>4, <1>5, Bounds DEF IInv, TypeOK
<1>7. Phases'
  BY <1>4 DEF Phases, Waiting
<1>8. CacheIsLastRead'
  BY <1>1 DEF CacheIsLastRead
<1>9. ServedWasFresh' /\ WaitingIsBounded'
  BY <1>4, Bounds DEF ServedWasFresh, WaitingIsBounded, Passing
<1>10. UpMeansCurrent'
  <2> SUFFICES ASSUME up' = 1, NEW s \in Series
               PROVE  exported[s] <= 2 * CacheTicks + TimeoutTicks + MaxLag
    BY <1>5 DEF UpMeansCurrent
  <2>1. gauge[UpGauge] = "done" /\ up = 1
    BY <1>1, <1>3, Bounds DEF Waiting
  <2>2. exported[s] <= 2 * CacheTicks + load
    <3>1. CASE gauge[s] = "waiting"
      BY <2>1, <3>1 DEF IInv, WaitingIsBounded
    <3>2. CASE gauge[s] = "done"
      BY <1>2, <3>2, Bounds DEF IInv, TypeOK, ServedWasFresh
    <3> QED
      BY <1>3, <3>1, <3>2, Bounds
  <2> QED
    BY <1>2, <2>2, Bounds DEF IInv, TypeOK
<1> QED
  BY <1>6, <1>7, <1>8, <1>9, <1>10 DEF IInv

\* Time passes for the caches and the loads alike.
LEMMA TickKeeps == ASSUME IInv, Tick PROVE IInv'
<1>1. /\ ~Collected /\ (Passing => ~slipped)
      /\ TimerDue => load < TimeoutTicks + MaxLag
      /\ cached' = Older(cached) /\ load' = Older(load) /\ sinceRead' = Older(sinceRead)
      /\ exported' = [s \in Series |-> Older(exported[s])]
      /\ slipped' = (slipped \/ Passing)
      /\ UNCHANGED <<lastLoadOk, gauge, up>>
  BY DEF Tick
<1>2. /\ cached \in 0..Never /\ load \in 0..Never /\ sinceRead \in 0..Never
      /\ \A s \in Series : exported[s] \in 0..Never /\ exported'[s] = Older(exported[s])
  BY <1>1, Bounds DEF IInv, TypeOK
<1>3. IF load = Never THEN load' = Never
      ELSE load' = load + 1 /\ load' \in 0..TimeoutTicks + MaxLag
  <2>1. CASE load = Never
    BY <1>1, <2>1, Bounds, OlderAge
  <2>2. CASE load # Never
    <3>1. load \in 0..TimeoutTicks + MaxLag /\ load < TimeoutTicks + MaxLag
      BY <1>1, <2>2, Bounds DEF IInv, TypeOK, TimerDue
    <3> QED
      BY <1>1, <1>2, <2>2, <3>1, Bounds, OlderAge
  <2> QED
    BY <2>1, <2>2
<1>4. \A s \in Series : exported'[s] \in 0..Never /\ exported'[s] <= exported[s] + 1
  BY <1>2, Bounds, OlderAge
<1>5. TypeOK'
  <2>1. cached' \in 0..Never /\ sinceRead' \in 0..Never
    BY <1>1, <1>2, OlderAge
  <2>2. exported' \in [Series -> 0..Never]
    BY <1>1, <1>2, OlderAge
  <2>3. slipped' \in BOOLEAN
    BY <1>1
  <2> QED
    BY <1>1, <1>3, <2>1, <2>2, <2>3 DEF IInv, TypeOK
<1>6. Phases'
  BY <1>1, <1>3, Bounds DEF IInv, TypeOK, Phases, Waiting
<1>7. CacheIsLastRead'
  <2>1. load' # Never => sinceRead' = load'
    BY <1>1, <1>3 DEF IInv, CacheIsLastRead
  <2>2. lastLoadOk => \A s \in Series : exported'[s] <= CacheTicks + cached'
    <3> SUFFICES ASSUME lastLoadOk, NEW s \in Series PROVE exported'[s] <= CacheTicks + cached'
      OBVIOUS
    <3>1. exported[s] <= CacheTicks + cached
      BY DEF IInv, CacheIsLastRead
    <3>2. CASE cached < MaxAge
      BY <1>1, <1>2, <1>4, <3>1, <3>2, Bounds, OlderAge
    <3>3. CASE cached >= MaxAge
      BY <1>1, <1>2, <1>4, <3>3, Bounds, OlderAge
    <3> QED
      BY <1>2, <3>2, <3>3, Bounds
  <2>3. lastLoadOk /\ load' = Never => sinceRead' = cached'
    BY <1>1, <1>3, Bounds DEF IInv, TypeOK, CacheIsLastRead
  <2> QED
    BY <1>1, <2>1, <2>2, <2>3 DEF CacheIsLastRead
<1>8. ServedWasFresh'
  <2>1. Passing' => Passing /\ ~slipped /\ slipped'
    BY <1>1 DEF Passing
  <2>2. ASSUME Passing, NEW g \in Gauges, gauge[g] = "done"
        PROVE  cached' <= CacheTicks
    BY <1>1, <1>2, <2>2, Bounds, OlderAge DEF IInv, ServedWasFresh
  <2>3. Passing /\ gauge[UpGauge] = "done" /\ up = 1 => lastLoadOk
    BY DEF IInv, ServedWasFresh
  <2>4. ASSUME Passing, load = Never, NEW s \in Series, gauge[s] = "done"
        PROVE  exported'[s] <= CacheTicks
    BY <1>1, <1>2, <1>4, <2>4, Bounds DEF IInv, ServedWasFresh
  <2>5. ASSUME load # Never, NEW s \in Series, gauge[s] = "done"
        PROVE  exported'[s] <= CacheTicks + load'
    BY <1>2, <1>3, <1>4, <2>5, Bounds DEF IInv, ServedWasFresh
  <2>6. load' = Never <=> load = Never
    BY <1>3, Bounds
  <2> QED
    BY <1>1, <2>1, <2>2, <2>3, <2>4, <2>5, <2>6 DEF ServedWasFresh
<1>9. WaitingIsBounded'
  <2> SUFFICES ASSUME gauge[UpGauge] = "done", up = 1, NEW s \in Series, gauge[s] = "waiting"
               PROVE  exported'[s] <= 2 * CacheTicks + load'
    BY <1>1 DEF WaitingIsBounded
  <2>1. load # Never
    BY Bounds DEF IInv, Phases, Waiting
  <2>2. exported[s] <= 2 * CacheTicks + load
    BY DEF IInv, WaitingIsBounded
  <2> QED
    BY <1>2, <1>3, <1>4, <2>1, <2>2, Bounds
<1>10. UpMeansCurrent'
  BY <1>1 DEF UpMeansCurrent, Collected
<1> QED
  BY <1>5, <1>6, <1>7, <1>8, <1>9, <1>10 DEF IInv

LEMMA StepKeeps == IInv /\ [Next]_vars => IInv'
<1> SUFFICES ASSUME IInv, [Next]_vars PROVE IInv'
  OBVIOUS
<1>1. ASSUME NEW g \in Gauges, Snapshot(g) PROVE IInv'
  BY <1>1, ServeKeeps, WaitKeeps
<1>2. CASE ReadFails \/ Timeout
  BY <1>2, FailedKeeps DEF ReadFails, Timeout, TimerDue
<1>3. CASE UNCHANGED vars
  <2>1. TypeOK' /\ Phases' /\ CacheIsLastRead'
    BY <1>3 DEF vars, IInv, TypeOK, Phases, Waiting, CacheIsLastRead
  <2>2. ServedWasFresh' /\ WaitingIsBounded' /\ UpMeansCurrent'
    BY <1>3 DEF vars, IInv, ServedWasFresh, Passing, WaitingIsBounded, UpMeansCurrent, Collected
  <2> QED
    BY <2>1, <2>2 DEF IInv
<1> QED
  BY <1>1, <1>2, <1>3, BeginScrapeKeeps, EndScrapeKeeps, LoadedKeeps, TickKeeps DEF Next

-----------------------------------------------------------------------------
(* Theorems.                                                               *)

LEMMA Invariance == Spec => []IInv
BY InitIInv, StepKeeps, PTL DEF Spec

\* The state keeps its types: no load outlives its timeout and the lag.
THEOREM TypeCorrect == Spec => []TypeOK
<1>1. IInv => TypeOK
  BY DEF IInv
<1> QED
  BY <1>1, Invariance, PTL

\* soat_business_metrics_up at 1 means that no series of the scrape is older
\* than two caches, one timeout and the lag, for any gauges and any ticks.
THEOREM UpTellsCurrent == Spec => []UpMeansCurrent
<1>1. IInv => UpMeansCurrent
  BY DEF IInv
<1> QED
  BY <1>1, Invariance, PTL

\* While loads succeed, the database is read once per cache, and while they fail
\* once per scrape, whatever the number of gauges.
THEOREM ReadsAreRare == Spec => ReadsAreRationed
<1> DEFINE Starts == (\E g \in Gauges : Snapshot(g)) /\ (load' # load \/ sinceRead' # sinceRead)
           Rationed == /\ lastLoadOk => sinceRead >= CacheTicks
                       /\ \A g \in Gauges : gauge[g] # "waiting"
                       /\ (\E g \in Gauges : gauge[g] = "done") => cached <= CacheTicks
<1>1. IInv /\ [Next]_vars => [Starts => Rationed]_vars
  <2> SUFFICES ASSUME IInv, NEW g \in Gauges, Snapshot(g), load' # load \/ sinceRead' # sinceRead
               PROVE  Rationed
    OBVIOUS
  <2>1. load = Never /\ ~(cached < CacheTicks) /\ gauge[g] = "called"
    BY Zenon DEF Snapshot, Fresh, StartsLoad
  <2>2. ASSUME lastLoadOk PROVE sinceRead >= CacheTicks
    <3>1. sinceRead = cached
      BY <2>1, <2>2 DEF IInv, CacheIsLastRead
    <3> QED
      BY <2>1, <3>1, Bounds DEF IInv, TypeOK
  <2>3. \A h \in Gauges : gauge[h] # "waiting"
    BY <2>1 DEF IInv, Phases, Waiting
  <2>4. ASSUME \E h \in Gauges : gauge[h] = "done" PROVE cached <= CacheTicks
    <3>1. Passing
      BY <2>1 DEF Passing
    <3> QED
      BY <2>4, <3>1, Bounds DEF IInv, ServedWasFresh, TypeOK
  <2> QED
    BY <2>2, <2>3, <2>4
<1> QED
  BY <1>1, Invariance, PTL DEF Spec, ReadsAreRationed

-----------------------------------------------------------------------------
(* Deployments: no replica of this release serves before the migrations.   *)

DeployTypes ==
  /\ journal \in Seq(1..5) /\ onBoot \in BOOLEAN /\ image \in {"none", "old", "new"}
  /\ runner \in [Runners -> [mode : Mode, todo : Seq(1..5)]]
  /\ pods \in [Pods -> [image : {"none", "old", "new"}, at : Stage, load : Nat]]

Complete == DOMAIN Up \subseteq ToSet(journal)

\* Whoever migrates leaves out no migration that nobody else recorded.
RunsCover ==
  \A r \in Runners : runner[r].mode \in {"each", "all"} =>
    DOMAIN Up \subseteq ToSet(journal) \union ToSet(runner[r].todo)

\* With a Job, the image is only applied when the Job is through.
JobMigrated ==
  ~onBoot /\ (step = "apply" \/ image = "new" \/ (step = "job" /\ runner[Job].mode = "done")) =>
    Complete

\* Without one, a replica listens when its own run is through.
PodsMigrated ==
  \A p \in Pods : pods[p].image = "new" /\ (~onBoot \/ pods[p].at = "up" \/ runner[p].mode = "done") =>
    Complete

DeployInv == DeployTypes /\ RunsCover /\ JobMigrated /\ PodsMigrated

\* A replica of this release that answers finds every migration recorded.
MigratedBeforeServing ==
  \A p \in Pods : pods[p].at = "up" /\ pods[p].image = "new" => Complete

LEMMA UpIs == Len(Up) = 5 /\ DOMAIN Up = 1..5
  BY DEF Up

\* Two sequences, one after the other, have the elements of both.
LEMMA Joined ==
  ASSUME NEW S, NEW s \in Seq(S), NEW t \in Seq(S)
  PROVE  s \o t \in Seq(S) /\ ToSet(s \o t) = ToSet(s) \union ToSet(t)
<1>1. /\ s \o t \in Seq(S) /\ Len(s \o t) = Len(s) + Len(t)
      /\ \A i \in 1..Len(s \o t) : (s \o t)[i] = IF i <= Len(s) THEN s[i] ELSE t[i - Len(s)]
      /\ Len(s) \in Nat /\ Len(t) \in Nat
      /\ DOMAIN (s \o t) = 1..Len(s \o t) /\ DOMAIN s = 1..Len(s) /\ DOMAIN t = 1..Len(t)
  BY ConcatProperties, LenProperties
<1> DEFINE u == s \o t
<1> HIDE DEF u
<1>2. ASSUME NEW x \in ToSet(u)  PROVE  x \in ToSet(s) \union ToSet(t)
  <2>1. PICK i \in 1..Len(u) : x = u[i]
    BY <1>1 DEF ToSet, u
  <2>2. CASE i <= Len(s)
    BY <1>1, <2>1, <2>2 DEF ToSet, u
  <2>3. CASE ~(i <= Len(s))
    <3>1. i - Len(s) \in DOMAIN t /\ x = t[i - Len(s)]
      BY <1>1, <2>1, <2>3 DEF u
    <3> QED
      BY <3>1 DEF ToSet
  <2> QED
    BY <2>2, <2>3
<1>3. ASSUME NEW x \in ToSet(s)  PROVE  x \in ToSet(u)
  <2>1. PICK i \in 1..Len(s) : x = s[i]
    BY <1>1 DEF ToSet
  <2>2. i \in DOMAIN u /\ u[i] = x
    BY <1>1, <2>1 DEF u
  <2> QED
    BY <2>2 DEF ToSet
<1>4. ASSUME NEW x \in ToSet(t)  PROVE  x \in ToSet(u)
  <2>1. PICK i \in 1..Len(t) : x = t[i]
    BY <1>1 DEF ToSet
  <2>2. i + Len(s) \in DOMAIN u /\ u[i + Len(s)] = x
    BY <1>1, <2>1 DEF u
  <2> QED
    BY <2>2 DEF ToSet
<1> QED
  BY <1>1, <1>2, <1>3, <1>4 DEF u

\* What a runner reads covers what the journal lacks.
LEMMA PendingCovers ==
  ASSUME journal \in Seq(1..5)
  PROVE  Pending \in Seq(1..5) /\ DOMAIN Up \subseteq ToSet(journal) \union ToSet(Pending)
<1> DEFINE Add1(m, s) == IF m \in ToSet(journal) THEN s ELSE <<m>> \o s
           Next5(f) == [m \in 1..6 |-> IF m > 5 THEN <<>> ELSE Add1(m, f[m + 1])]
           s5 == Add1(5, <<>>)
           s4 == Add1(4, s5)
           s3 == Add1(3, s4)
           s2 == Add1(2, s3)
           s1 == Add1(1, s2)
           G == [m \in 1..6 |-> CASE m = 1 -> s1 [] m = 2 -> s2 [] m = 3 -> s3
                                  [] m = 4 -> s4 [] m = 5 -> s5 [] OTHER -> <<>>]
           from == CHOOSE f : f = Next5(f)
<1>1. Pending = from[1]
  BY UpIs DEF Pending
<1> HIDE DEF s1, s2, s3, s4, s5
<1>2. \A m \in 1..6 : m = 1 \/ m = 2 \/ m = 3 \/ m = 4 \/ m = 5 \/ m = 6
  OBVIOUS
<1> HIDE DEF Add1
<1>3. G = Next5(G)
  <2>1. /\ G[6] = <<>> /\ G[5] = s5 /\ G[4] = s4 /\ G[3] = s3 /\ G[2] = s2 /\ G[1] = s1
        /\ DOMAIN G = 1..6
    OBVIOUS
  <2> HIDE DEF G
  <2>2. G[6] = Next5(G)[6]
    BY <2>1
  <2>3. G[5] = Next5(G)[5] /\ G[4] = Next5(G)[4] /\ G[3] = Next5(G)[3]
    BY <2>1 DEF s5, s4, s3
  <2>4. G[2] = Next5(G)[2] /\ G[1] = Next5(G)[1]
    BY <2>1 DEF s2, s1
  <2>5. \A m \in 1..6 : G[m] = Next5(G)[m]
    BY <1>2, <2>2, <2>3, <2>4
  <2> DEFINE V == Next5(G)
  <2>6. DOMAIN V = 1..6 /\ V = [m \in DOMAIN V |-> V[m]]
    OBVIOUS
  <2>7. G = [m \in DOMAIN G |-> G[m]]
    BY <2>1 DEF G
  <2>8. \A m \in 1..6 : G[m] = V[m]
    BY <2>5
  <2> HIDE DEF V
  <2>9. G = V
    BY <2>1, <2>6, <2>7, <2>8
  <2> QED
    BY <2>9 DEF V
<1>4. from = Next5(from)
  <2> HIDE DEF G, Next5
  <2> QED
    BY <1>3
<1> HIDE DEF from
<1>5. /\ from[6] = <<>> /\ from[5] = Add1(5, from[6]) /\ from[4] = Add1(4, from[5])
      /\ from[3] = Add1(3, from[4]) /\ from[2] = Add1(2, from[3]) /\ from[1] = Add1(1, from[2])
  <2>1. \A m \in 1..6 : from[m] = Next5(from)[m]
    <3> HIDE DEF Next5
    <3> QED
      BY <1>4
  <2> QED
    BY <2>1
<1>6. ASSUME NEW m \in 1..5, NEW s \in Seq(1..5)
      PROVE  /\ Add1(m, s) \in Seq(1..5) /\ ToSet(s) \subseteq ToSet(Add1(m, s))
             /\ m \in ToSet(journal) \union ToSet(Add1(m, s))
  <2>1. <<m>> \in Seq(1..5) /\ ToSet(<<m>>) = {m}
    BY DEF ToSet
  <2>2. <<m>> \o s \in Seq(1..5) /\ ToSet(<<m>> \o s) = {m} \union ToSet(s)
    <3> DEFINE one == <<m>>
    <3>1. one \in Seq(1..5) /\ ToSet(one) = {m}
      BY <2>1
    <3> HIDE DEF one
    <3>2. one \o s \in Seq(1..5) /\ ToSet(one \o s) = ToSet(one) \union ToSet(s)
      BY <3>1, Joined
    <3> QED
      BY <3>1, <3>2 DEF one
  <2> QED
    BY <2>2 DEF Add1
<1>7. from[6] \in Seq(1..5)
  BY <1>5
<1>8. from[5] \in Seq(1..5) /\ {5} \subseteq ToSet(journal) \union ToSet(from[5])
  <2>1. /\ Add1(5, from[6]) \in Seq(1..5) /\ ToSet(from[6]) \subseteq ToSet(Add1(5, from[6]))
        /\ 5 \in ToSet(journal) \union ToSet(Add1(5, from[6]))
    BY <1>6, <1>7
  <2> QED
    BY <1>5, <1>7, <2>1
<1>9. from[4] \in Seq(1..5) /\ {4, 5} \subseteq ToSet(journal) \union ToSet(from[4])
  <2>1. /\ Add1(4, from[5]) \in Seq(1..5) /\ ToSet(from[5]) \subseteq ToSet(Add1(4, from[5]))
        /\ 4 \in ToSet(journal) \union ToSet(Add1(4, from[5]))
    BY <1>6, <1>8
  <2> QED
    BY <1>5, <1>8, <2>1
<1>10. from[3] \in Seq(1..5) /\ {3, 4, 5} \subseteq ToSet(journal) \union ToSet(from[3])
  <2>1. /\ Add1(3, from[4]) \in Seq(1..5) /\ ToSet(from[4]) \subseteq ToSet(Add1(3, from[4]))
        /\ 3 \in ToSet(journal) \union ToSet(Add1(3, from[4]))
    BY <1>6, <1>9
  <2> QED
    BY <1>5, <1>9, <2>1
<1>11. from[2] \in Seq(1..5) /\ {2, 3, 4, 5} \subseteq ToSet(journal) \union ToSet(from[2])
  <2>1. /\ Add1(2, from[3]) \in Seq(1..5) /\ ToSet(from[3]) \subseteq ToSet(Add1(2, from[3]))
        /\ 2 \in ToSet(journal) \union ToSet(Add1(2, from[3]))
    BY <1>6, <1>10
  <2> QED
    BY <1>5, <1>10, <2>1
<1>12. from[1] \in Seq(1..5) /\ {1, 2, 3, 4, 5} \subseteq ToSet(journal) \union ToSet(from[1])
  <2>1. /\ Add1(1, from[2]) \in Seq(1..5) /\ ToSet(from[2]) \subseteq ToSet(Add1(1, from[2]))
        /\ 1 \in ToSet(journal) \union ToSet(Add1(1, from[2]))
    BY <1>6, <1>11
  <2> QED
    BY <1>5, <1>11, <2>1
<1>13. 1..5 \subseteq {1, 2, 3, 4, 5}
  OBVIOUS
<1> QED
  BY <1>1, <1>12, <1>13, UpIs

\* A transaction takes the front of what its runner has left to do.
LEMMA Taken ==
  ASSUME NEW s \in Seq(1..5), s # <<>>, NEW b, b = <<Head(s)>> \/ b = s
  PROVE  /\ b \in Seq(1..5) /\ SubSeq(s, Len(b) + 1, Len(s)) \in Seq(1..5)
         /\ ToSet(s) \subseteq ToSet(b) \union ToSet(SubSeq(s, Len(b) + 1, Len(s)))
<1> DEFINE rest == SubSeq(s, Len(b) + 1, Len(s))
<1>1. Len(s) \in Nat \ {0} /\ DOMAIN s = 1..Len(s) /\ Head(s) = s[1] /\ s[1] \in 1..5
  BY EmptySeq, LenProperties, HeadTailProperties, ElementOfSeq
<1>2. /\ b \in Seq(1..5) /\ Len(b) \in 1..Len(s)
      /\ \A i \in 1..Len(b) : b[i] = s[i]
  <2>1. CASE b = <<Head(s)>>
    BY <1>1, <2>1
  <2>2. CASE b = s
    BY <1>1, <2>2
  <2> QED
    BY <2>1, <2>2
<1>3. /\ rest \in Seq(1..5) /\ DOMAIN rest = 1..(Len(s) - Len(b))
      /\ \A i \in 1..(Len(s) - Len(b)) : rest[i] = s[i + Len(b)]
  <2>1. \A i \in (Len(b) + 1)..Len(s) : s[i] \in 1..5
    BY <1>1, <1>2, ElementOfSeq
  <2> QED
    BY <1>1, <1>2, <2>1, SubSeqProperties
<1> HIDE DEF rest
<1>4. ASSUME NEW x \in ToSet(s)  PROVE  x \in ToSet(b) \union ToSet(rest)
  <2>1. PICK i \in 1..Len(s) : x = s[i]
    BY <1>1 DEF ToSet
  <2>2. CASE i <= Len(b)
    BY <1>2, <2>1, <2>2 DEF ToSet
  <2>3. CASE ~(i <= Len(b))
    <3>1. i - Len(b) \in DOMAIN rest /\ rest[i - Len(b)] = x
      BY <1>1, <1>2, <1>3, <2>1, <2>3
    <3> QED
      BY <3>1 DEF ToSet
  <2> QED
    BY <2>2, <2>3
<1> QED
  BY <1>2, <1>3, <1>4 DEF rest

\* Beginning a run.
LEMMA BeginCovers ==
  ASSUME DeployInv, NEW r \in Runners, NEW mode \in {"each", "all"}, Begin(r, mode)
  PROVE  /\ runner' \in [Runners -> [mode : Mode, todo : Seq(1..5)]]
         /\ runner'[r].mode = mode /\ \A q \in Runners \ {r} : runner'[q] = runner[q]
         /\ journal' = journal /\ RunsCover'
<1>1. DeployTypes /\ RunsCover
  BY DEF DeployInv
<1>2. /\ runner' = [runner EXCEPT ![r] = [mode |-> mode, todo |-> Pending]] /\ journal' = journal
      /\ mode \in Mode
  BY DEF Begin, Mode
<1>3. Pending \in Seq(1..5) /\ DOMAIN Up \subseteq ToSet(journal) \union ToSet(Pending)
  BY <1>1, PendingCovers DEF DeployTypes
<1>4. runner' \in [Runners -> [mode : Mode, todo : Seq(1..5)]]
  BY <1>1, <1>2, <1>3 DEF DeployTypes
<1>5. /\ runner'[r] = [mode |-> mode, todo |-> Pending]
      /\ \A q \in Runners \ {r} : runner'[q] = runner[q]
  BY <1>1, <1>2 DEF DeployTypes
<1>6. RunsCover'
  BY <1>1, <1>2, <1>3, <1>5 DEF RunsCover
<1> QED
  BY <1>2, <1>4, <1>5, <1>6

\* A transaction of any runner: what it has done is recorded, or it has failed.
LEMMA RunNextKeeps ==
  ASSUME DeployInv, NEW r \in Runners, RunNext(r), UNCHANGED dvars
  PROVE  DeployInv'
<1> DEFINE todo == runner[r].todo
           batch == Transaction(r)
           rest == SubSeq(todo, Len(batch) + 1, Len(todo))
<1>1. /\ DeployTypes /\ RunsCover /\ JobMigrated /\ PodsMigrated
      /\ runner[r].mode \in {"each", "all"} /\ todo # <<>> /\ todo \in Seq(1..5)
  BY DEF DeployInv, DeployTypes, RunNext
<1>2. batch = <<Head(todo)>> \/ batch = todo
  BY DEF Transaction
<1>3. /\ batch \in Seq(1..5) /\ rest \in Seq(1..5)
      /\ ToSet(todo) \subseteq ToSet(batch) \union ToSet(rest)
  <2> HIDE DEF todo, batch
  <2> QED
    BY <1>1, <1>2, Taken
<1>4. CASE /\ journal' = journal \o batch
           /\ runner' = [runner EXCEPT ![r].todo = SubSeq(@, Len(batch) + 1, Len(@))]
  <2> HIDE DEF batch
  <2>1. runner' = [runner EXCEPT ![r].todo = rest]
    BY <1>4, <1>1 DEF DeployTypes
  <2> HIDE DEF rest
  <2>2. journal' \in Seq(1..5) /\ ToSet(journal') = ToSet(journal) \union ToSet(batch)
    BY <1>1, <1>3, <1>4, Joined DEF DeployTypes
  <2>3. /\ runner' \in [Runners -> [mode : Mode, todo : Seq(1..5)]]
        /\ \A q \in Runners : runner'[q].mode = runner[q].mode
        /\ \A q \in Runners \ {r} : runner'[q] = runner[q]
        /\ runner'[r].todo = rest
    BY <1>1, <1>3, <2>1 DEF DeployTypes
  <2>4. DeployTypes'
    BY <1>1, <2>2, <2>3 DEF DeployTypes, dvars
  <2>5. RunsCover'
    <3>1. ASSUME NEW q \in Runners, runner'[q].mode \in {"each", "all"}
          PROVE  DOMAIN Up \subseteq ToSet(journal') \union ToSet(runner'[q].todo)
      <4>1. DOMAIN Up \subseteq ToSet(journal) \union ToSet(runner[q].todo)
        BY <1>1, <2>3, <3>1 DEF RunsCover
      <4> QED
        BY <1>3, <2>2, <2>3, <4>1
    <3> QED
      BY <3>1 DEF RunsCover
  <2>6. Complete => Complete'
    BY <2>2 DEF Complete
  <2>7. JobMigrated' /\ PodsMigrated'
    BY <1>1, <2>3, <2>6, RunnersAssumption DEF JobMigrated, PodsMigrated, dvars
  <2> QED
    BY <2>4, <2>5, <2>7 DEF DeployInv
<1>5. CASE runner' = [runner EXCEPT ![r].mode = "failed"] /\ journal' = journal
  <2>1. /\ runner' \in [Runners -> [mode : Mode, todo : Seq(1..5)]]
        /\ \A q \in Runners : runner'[q] = runner[q] \/ runner'[q].mode = "failed"
    BY <1>1, <1>5 DEF DeployTypes, Mode
  <2>2. DeployTypes' /\ RunsCover' /\ (Complete => Complete')
    BY <1>1, <1>5, <2>1 DEF DeployTypes, RunsCover, Complete, dvars
  <2>3. JobMigrated' /\ PodsMigrated'
    BY <1>1, <2>1, <2>2, RunnersAssumption DEF JobMigrated, PodsMigrated, dvars
  <2> QED
    BY <2>2, <2>3 DEF DeployInv
<1> QED
  BY <1>4, <1>5 DEF RunNext

\* Whoever is through has recorded, or found recorded, every migration.
LEMMA EndRunKeeps ==
  ASSUME DeployInv, NEW r \in Runners, EndRun(r), UNCHANGED dvars
  PROVE  DeployInv'
<1>1. /\ DeployTypes /\ RunsCover /\ JobMigrated /\ PodsMigrated
      /\ runner[r].mode \in {"each", "all"} /\ runner[r].todo = <<>>
      /\ runner' = [runner EXCEPT ![r].mode = "done"] /\ journal' = journal
  BY DEF DeployInv, EndRun
<1>2. Complete /\ Complete'
  <2>1. ToSet(<<>>) = {}
    BY DEF ToSet
  <2> QED
    BY <1>1, <2>1 DEF RunsCover, Complete
<1>3. /\ runner' \in [Runners -> [mode : Mode, todo : Seq(1..5)]]
      /\ \A q \in Runners : runner'[q] = runner[q] \/ runner'[q].mode = "done"
  BY <1>1 DEF DeployTypes, Mode
<1>4. DeployTypes' /\ RunsCover'
  BY <1>1, <1>3 DEF DeployTypes, RunsCover, dvars
<1> QED
  BY <1>2, <1>4 DEF DeployInv, JobMigrated, PodsMigrated

\* The pipeline, one case per action.
LEMMA PipelineKeeps ==
  ASSUME DeployInv, Pipeline
  PROVE  DeployInv'
<1> USE RunnersAssumption
<1>1. DeployTypes /\ RunsCover /\ JobMigrated /\ PodsMigrated /\ Job \in Runners /\ Job \notin Pods
  BY DEF DeployInv
<1>2. CASE Push
  <2>1. /\ runner' \in [Runners -> [mode : Mode, todo : Seq(1..5)]]
        /\ \A q \in Runners \ {Job} : runner'[q] = runner[q]
    BY <1>1, <1>2 DEF Push, DeployTypes, Mode, Resting
  <2>2. runner'[Job].mode = "idle"
    BY <1>1, <1>2 DEF Push, DeployTypes, Resting
  <2>3. DeployTypes' /\ RunsCover' /\ (Complete => Complete')
    BY <1>1, <1>2, <2>1, <2>2 DEF Push, DeployTypes, RunsCover, Complete
  <2>4. JobMigrated'
    BY <1>1, <1>2, <2>2, <2>3 DEF Push, JobMigrated
  <2>5. PodsMigrated'
    BY <1>1, <1>2, <2>1, <2>3 DEF Push, PodsMigrated
  <2> QED
    BY <2>3, <2>4, <2>5 DEF DeployInv
<1>3. CASE StartJob \/ RetryJob
  <2>1. Begin(Job, "each") /\ step' = step /\ onBoot' = onBoot /\ image' = image /\ pods' = pods
    BY <1>3 DEF StartJob, RetryJob, dvars
  <2>2. /\ runner' \in [Runners -> [mode : Mode, todo : Seq(1..5)]]
        /\ runner'[Job].mode = "each" /\ \A q \in Runners \ {Job} : runner'[q] = runner[q]
        /\ journal' = journal /\ RunsCover'
    BY <1>1, <2>1, BeginCovers
  <2>3. DeployTypes' /\ (Complete => Complete')
    BY <1>1, <2>1, <2>2 DEF DeployTypes, Complete
  <2>4. JobMigrated' /\ PodsMigrated'
    BY <1>1, <2>1, <2>2, <2>3 DEF JobMigrated, PodsMigrated
  <2> QED
    BY <2>2, <2>3, <2>4 DEF DeployInv
<1>4. CASE JobFails \/ JobCompletes \/ Apply \/ RolloutEnds \/ RollBack
  <2>1. UNCHANGED <<journal, runner, onBoot, pods>>
    BY <1>4 DEF JobFails, JobCompletes, Apply, RolloutEnds, RollBack, mvars
  <2>2. image' \in {"none", "old", "new"}
    BY <1>1, <1>4 DEF JobFails, JobCompletes, Apply, RolloutEnds, RollBack, DeployTypes
  <2>3. DeployTypes' /\ RunsCover' /\ PodsMigrated' /\ (Complete => Complete')
    BY <1>1, <2>1, <2>2 DEF DeployTypes, RunsCover, PodsMigrated, Complete
  <2>4. ASSUME JobFails  PROVE JobMigrated'
    BY <1>1, <2>1, <2>3, <2>4 DEF JobFails, JobMigrated
  <2>5. ASSUME JobCompletes  PROVE JobMigrated'
    BY <1>1, <2>1, <2>3, <2>5 DEF JobCompletes, JobMigrated
  <2>6. ASSUME Apply  PROVE JobMigrated'
    BY <1>1, <2>1, <2>3, <2>6 DEF Apply, JobMigrated
  <2>7. ASSUME RolloutEnds  PROVE JobMigrated'
    BY <1>1, <2>1, <2>3, <2>7 DEF RolloutEnds, JobMigrated
  <2>8. ASSUME RollBack  PROVE JobMigrated'
    BY <1>1, <2>1, <2>3, <2>8 DEF RollBack, JobMigrated
  <2>9. JobMigrated'
    BY <1>4, <2>4, <2>5, <2>6, <2>7, <2>8
  <2> QED
    BY <2>3, <2>9 DEF DeployInv
<1> QED
  BY <1>2, <1>3, <1>4 DEF Pipeline

\* What a replica does, and what is done to it, one case per kind of change.
LEMMA ReplicaKeeps ==
  ASSUME DeployInv, NEW p \in Pods, Replace(p) \/ Crash(p) \/ Request(p) \/ Answer(p)
  PROVE  DeployInv'
<1> USE RunnersAssumption
<1>1. /\ DeployTypes /\ RunsCover /\ JobMigrated /\ PodsMigrated
      /\ p \in Runners /\ Pods \subseteq Runners /\ Job \in Runners /\ p # Job
  BY DEF DeployInv
<1>2. CASE MigrateOnBoot(p)
  <2>1. /\ Begin(p, "all") /\ UNCHANGED dvars /\ onBoot /\ pods[p].at = "booting"
    BY <1>2 DEF MigrateOnBoot, Migrates
  <2>2. /\ runner' \in [Runners -> [mode : Mode, todo : Seq(1..5)]]
        /\ runner'[p].mode = "all" /\ \A q \in Runners \ {p} : runner'[q] = runner[q]
        /\ journal' = journal /\ RunsCover'
    BY <1>1, <2>1, BeginCovers
  <2>3. DeployTypes' /\ (Complete => Complete')
    BY <1>1, <2>1, <2>2 DEF DeployTypes, Complete, dvars
  <2>4. JobMigrated' /\ PodsMigrated'
    BY <1>1, <2>1, <2>2, <2>3 DEF JobMigrated, PodsMigrated, dvars
  <2> QED
    BY <2>2, <2>3, <2>4 DEF DeployInv
<1>3. CASE StartPod(p) \/ Crash(p) \/ Terminate(p)
  <2>1. /\ runner' = [runner EXCEPT ![p] = Resting]
        /\ UNCHANGED <<journal, onBoot, step, image>>
    BY <1>3 DEF StartPod, Crash, Terminate
  <2>2. /\ runner' \in [Runners -> [mode : Mode, todo : Seq(1..5)]]
        /\ \A q \in Runners \ {p} : runner'[q] = runner[q]
        /\ runner'[p].mode = "idle"
    BY <1>1, <2>1 DEF DeployTypes, Mode, Resting
  <2>3. /\ pods' \in [Pods -> [image : {"none", "old", "new"}, at : Stage, load : Nat]]
        /\ \A q \in Pods \ {p} : pods'[q] = pods[q]
        /\ pods'[p].image = "new" => pods[p].image = "new" \/ image = "new"
        /\ pods'[p].at # "up"
    <3>1. CASE StartPod(p)
      BY <1>1, <3>1 DEF StartPod, DeployTypes, Stage
    <3>2. CASE Crash(p)
      BY <1>1, <3>2 DEF Crash, DeployTypes, Stage
    <3>3. CASE Terminate(p)
      <4>1. pods[p] \in [image : {"none", "old", "new"}, at : Stage, load : Nat]
        BY <1>1 DEF DeployTypes
      <4>2. CASE pods[p].at = "up"
        <5>1. pods' = [pods EXCEPT ![p] = [pods[p] EXCEPT !.at = "closing"]]
          BY <1>1, <3>3, <4>2 DEF Terminate, DeployTypes
        <5> QED
          BY <1>1, <4>1, <5>1 DEF DeployTypes, Stage
      <4>3. CASE pods[p].at # "up"
        <5>1. pods' = [pods EXCEPT ![p] = Absent]
          BY <1>1, <3>3, <4>3 DEF Terminate, DeployTypes
        <5> QED
          BY <1>1, <5>1 DEF DeployTypes, Absent, Stage
      <4> QED
        BY <4>2, <4>3
    <3> QED
      BY <1>3, <3>1, <3>2, <3>3
  <2>4. DeployTypes' /\ RunsCover' /\ (Complete => Complete')
    BY <1>1, <2>1, <2>2, <2>3 DEF DeployTypes, RunsCover, Complete
  <2>5. JobMigrated'
    BY <1>1, <2>1, <2>2, <2>4 DEF JobMigrated
  <2>6. PodsMigrated'
    BY <1>1, <2>1, <2>2, <2>3, <2>4 DEF PodsMigrated, JobMigrated
  <2> QED
    BY <2>4, <2>5, <2>6 DEF DeployInv
<1>4. CASE Boot(p) \/ Request(p) \/ Answer(p) \/ CloseServer(p) \/ FlushTelemetry(p)
  <2>1. UNCHANGED <<journal, runner, onBoot, step, image>>
    BY <1>4 DEF Boot, Request, Answer, CloseServer, FlushTelemetry, mvars
  <2>2. /\ pods' \in [Pods -> [image : {"none", "old", "new"}, at : Stage, load : Nat]]
        /\ \A q \in Pods \ {p} : pods'[q] = pods[q]
        /\ pods'[p].image = "new" => pods[p].image = "new"
        /\ pods'[p].image = "new" /\ pods'[p].at = "up" =>
             pods[p].at = "up" \/ ~onBoot \/ runner[p].mode = "done"
    <3>1. CASE Boot(p)
      BY <1>1, <3>1 DEF Boot, Migrates, DeployTypes, Stage
    <3>2. CASE Request(p) \/ Answer(p)
      BY <1>1, <3>2 DEF Request, Answer, DeployTypes
    <3>3. CASE CloseServer(p) \/ FlushTelemetry(p)
      <4>1. pods' = [pods EXCEPT ![p] = Absent]
        BY <3>3 DEF CloseServer, FlushTelemetry
      <4> QED
        BY <1>1, <4>1 DEF DeployTypes, Absent, Stage
    <3> QED
      BY <1>4, <3>1, <3>2, <3>3
  <2>3. DeployTypes' /\ RunsCover' /\ JobMigrated' /\ (Complete => Complete')
    BY <1>1, <2>1, <2>2 DEF DeployTypes, RunsCover, JobMigrated, Complete
  <2>4. PodsMigrated'
    BY <1>1, <2>1, <2>2, <2>3 DEF PodsMigrated
  <2> QED
    BY <2>3, <2>4 DEF DeployInv
<1> QED
  BY <1>2, <1>3, <1>4 DEF Replace

\* Every other step leaves the journal alone, or is taken where nothing serves or runs.
LEMMA OthersKeep ==
  ASSUME DeployInv,
         \/ \E r \in Runners : DatabaseFails(r)
         \/ (ImportOrphans \/ ReuseKey \/ MendOrphans) /\ UNCHANGED dvars
         \/ Maintained /\ UndoLast /\ UNCHANGED dvars
         \/ UNCHANGED allvars
  PROVE  DeployInv'
<1>1. DeployTypes /\ RunsCover /\ JobMigrated /\ PodsMigrated
  BY DEF DeployInv
<1>2. ASSUME NEW r \in Runners, DatabaseFails(r)  PROVE DeployInv'
  <2>1. /\ runner' = [runner EXCEPT ![r].mode = "failed"]
        /\ UNCHANGED <<journal, onBoot, step, image, pods>>
    BY <1>2 DEF DatabaseFails, InterruptRun
  <2>2. /\ runner' \in [Runners -> [mode : Mode, todo : Seq(1..5)]]
        /\ \A q \in Runners : runner'[q] = runner[q] \/ runner'[q].mode = "failed"
    BY <1>1, <2>1 DEF DeployTypes, Mode
  <2>3. DeployTypes' /\ RunsCover' /\ (Complete => Complete')
    BY <1>1, <2>1, <2>2 DEF DeployTypes, RunsCover, Complete
  <2>4. JobMigrated' /\ PodsMigrated'
    BY <1>1, <2>1, <2>2, <2>3, RunnersAssumption DEF JobMigrated, PodsMigrated
  <2> QED
    BY <2>3, <2>4 DEF DeployInv
<1>3. CASE UNCHANGED <<journal, runner, onBoot, step, image, pods>>
  BY <1>1, <1>3 DEF DeployInv, DeployTypes, RunsCover, JobMigrated, PodsMigrated, Complete
<1>4. CASE (ImportOrphans \/ ReuseKey \/ MendOrphans) /\ UNCHANGED dvars
  BY <1>3, <1>4 DEF ImportOrphans, ReuseKey, MendOrphans, dvars
<1>5. CASE Maintained /\ UndoLast /\ UNCHANGED dvars
  <2>1. journal # <<>> /\ journal' = Front(journal) /\ runner' = runner
    BY <1>5 DEF UndoLast
  <2>2. journal' \in Seq(1..5)
    <3>1. Len(journal) \in Nat /\ \A i \in 1..(Len(journal) - 1) : journal[i] \in 1..5
      BY <1>1, LenProperties, ElementOfSeq DEF DeployTypes
    <3>2. SubSeq(journal, 1, Len(journal) - 1) \in Seq(1..5)
      BY <1>1, <3>1, SubSeqProperties DEF DeployTypes
    <3> QED
      BY <2>1, <3>2 DEF Front
  <2>3. DeployTypes'
    BY <1>1, <1>5, <2>1, <2>2 DEF DeployTypes, dvars
  <2>4. RunsCover' /\ JobMigrated' /\ PodsMigrated'
    BY <1>1, <1>5, <2>1, RunnersAssumption DEF Maintained, RunsCover, JobMigrated, PodsMigrated, dvars
  <2> QED
    BY <2>3, <2>4 DEF DeployInv
<1>6. CASE UNCHANGED allvars
  BY <1>3, <1>6 DEF allvars, mvars, dvars
<1> QED
  BY <1>2, <1>4, <1>5, <1>6

\* The invariant holds of every deployment.
LEMMA DeployInvariant == DeploySpec => []DeployInv
<1>1. ASSUME DeployInit  PROVE DeployInv
  <2>1. journal \in Seq(1..5) /\ image \in {"none", "old"}
    <3>1. <<>> \in Seq(1..5) /\ <<1, 2>> \in Seq(1..5)
      OBVIOUS
    <3> QED
      BY <1>1, <3>1 DEF DeployInit
  <2>2. runner \in [Runners -> [mode : Mode, todo : Seq(1..5)]]
    BY <1>1 DEF DeployInit, Resting, Mode
  <2>3. /\ pods \in [Pods -> [image : {"none", "old", "new"}, at : Stage, load : Nat]]
        /\ \A p \in Pods : pods[p].image # "new"
    BY <1>1 DEF DeployInit, Serves, Absent, Stage
  <2>4. DeployTypes
    BY <1>1, <2>1, <2>2, <2>3 DEF DeployInit, DeployTypes
  <2>5. RunsCover
    BY <1>1 DEF DeployInit, RunsCover, Resting
  <2>6. JobMigrated
    BY <1>1, <2>1 DEF DeployInit, JobMigrated
  <2>7. PodsMigrated
    BY <2>3 DEF PodsMigrated
  <2> QED
    BY <2>4, <2>5, <2>6, <2>7 DEF DeployInv
<1>2. ASSUME DeployInv, [DeployNext]_allvars  PROVE DeployInv'
  <2>1. CASE Pipeline
    BY <1>2, <2>1, PipelineKeeps
  <2>2. ASSUME NEW p \in Pods, Replace(p) \/ Crash(p) \/ Request(p) \/ Answer(p)
        PROVE  DeployInv'
    BY <1>2, <2>2, ReplicaKeeps
  <2>3. ASSUME NEW r \in Runners, Migrate(r)  PROVE DeployInv'
    BY <1>2, <2>3, RunNextKeeps, EndRunKeeps DEF Migrate
  <2> QED
    BY <1>2, <2>1, <2>2, <2>3, OthersKeep DEF DeployNext
<1> QED
  BY <1>1, <1>2, PTL DEF DeploySpec

\* "If a migration fails the new version does not come up": whoever ran them, how
\* often, against whomever, and whatever failed, was interrupted, rolled back or
\* reverted, a replica of this release that answers finds every migration recorded.
THEOREM MigratedFirst == DeploySpec => []MigratedBeforeServing
<1>1. DeployInv => MigratedBeforeServing
  BY DEF DeployInv, PodsMigrated, MigratedBeforeServing
<1> QED
  BY <1>1, DeployInvariant, PTL

-----------------------------------------------------------------------------
(* What the statements of a migration do, one after the other.             *)

\* What the first n statements create, and drop.
AddsTo(ss, n) == UNION {ss[i].adds : i \in 1..n}
DropsTo(ss, n) == UNION {ss[i].drops : i \in 1..n}

Adds(ss) == AddsTo(ss, Len(ss))
Drops(ss) == DropsTo(ss, Len(ss))

\* What is left of db without the objects dropped and what is on their tables.
Cleared(db, dropped) ==
  {o \in db : o \notin dropped /\ \A d \in dropped : d.kind = "table" => o.on # d.on}

\* The statements that f follows from acc on, and those it carries out.
Follows(f, ss, acc) == f[0] = acc /\ \A n \in 1..Len(ss) : f[n] = Try(ss[n], f[n - 1])
Makes(f, ss, db) == f[0] = db /\ \A n \in 1..Len(ss) : f[n] = Effect(ss[n], f[n - 1])

LEMMA EffectIs ==
  ASSUME NEW s, NEW db
  PROVE  /\ Effect(s, db) = Cleared(db, s.drops) \union s.adds
         /\ Effect(s, db) \subseteq db \union s.adds
<1>1. \A o : o.on \in {d.on : d \in {e \in s.drops : e.kind = "table"}}
               <=> \E d \in s.drops : d.kind = "table" /\ o.on = d.on
  OBVIOUS
<1> QED
  BY <1>1 DEF Effect, Cleared

\* Whoever follows the same statements from the same state gets to the same state.
LEMMA ExecuteIs ==
  ASSUME NEW ss, Len(ss) \in Nat, NEW db
  PROVE  /\ \E f : Follows(f, ss, [ok |-> TRUE, db |-> db])
         /\ \A f : Follows(f, ss, [ok |-> TRUE, db |-> db]) => Execute(ss, db) = f[Len(ss)]
<1> DEFINE L == Len(ss)
           X == [ok : BOOLEAN, db : SUBSET (db \union Adds(ss))]
           first == [ok |-> TRUE, db |-> db]
           stepOf == [n \in 1..L |-> [x \in X |-> Try(ss[n], x)]]
           Def(f) == [n \in 0..L |-> IF n = 0 THEN first ELSE Try(ss[n], f[n - 1])]
           run == CHOOSE f : f = Def(f)
<1>1. first \in X
  OBVIOUS
<1>2. ASSUME NEW n \in 1..L, NEW x \in X  PROVE Try(ss[n], x) \in X
  <2>1. ss[n].adds \subseteq Adds(ss)
    BY DEF Adds, AddsTo
  <2>2. Effect(ss[n], x.db) \subseteq x.db \union ss[n].adds
    BY EffectIs
  <2> QED
    BY <2>1, <2>2 DEF Try
<1>3. \A n \in 1..L : \A x \in X : stepOf[n][x] = Try(ss[n], x) /\ stepOf[n][x] \in X
  BY <1>2
<1>4. PICK g \in [0..L -> X] : Steps(g, L, first, stepOf)
  <2> HIDE DEF first, X, stepOf
  <2> QED
    BY <1>1, <1>3, StepsExist
<1>5. Follows(g, ss, first)
  <2>1. ASSUME NEW n \in 1..L  PROVE g[n] = Try(ss[n], g[n - 1])
    <3>1. n - 1 \in 0..L
      OBVIOUS
    <3>2. g[n - 1] \in X
      BY <3>1
    <3> HIDE DEF X, stepOf, first
    <3> QED
      BY <1>3, <1>4, <3>2 DEF Steps
  <2> HIDE DEF X, stepOf, first
  <2> QED
    BY <1>4, <2>1 DEF Follows, Steps
<1> HIDE DEF X, stepOf, first
<1>6. g = Def(g)
  <2>1. DOMAIN g = 0..L /\ g = [n \in 0..L |-> g[n]]
    OBVIOUS
  <2>2. \A n \in 0..L : g[n] = IF n = 0 THEN first ELSE Try(ss[n], g[n - 1])
    BY <1>5 DEF Follows
  <2> QED
    BY <2>1, <2>2
<1>7. run = Def(run)
  <2> HIDE DEF Def
  <2> QED
    BY <1>6
<1>8. Execute(ss, db) = run[L]
  BY Zenon DEF Execute, first
<1> HIDE DEF run
<1>9. ASSUME NEW f, Follows(f, ss, first)  PROVE Execute(ss, db) = f[L]
  <2> DEFINE P == {n \in 0..L : f[n] = run[n]}
  <2>1. \A n \in 0..L : run[n] = IF n = 0 THEN first ELSE Try(ss[n], run[n - 1])
    BY <1>7
  <2>2. 0 \in P
    BY <1>9, <2>1 DEF Follows
  <2>3. ASSUME NEW n \in 1..L, n - 1 \in P  PROVE n \in P
    BY <1>9, <2>1, <2>3 DEF Follows
  <2> HIDE DEF P
  <2>4. 0..L \subseteq P
    BY <2>2, <2>3, GoesOn
  <2>5. f[L] = run[L]
    BY <2>4 DEF P
  <2> QED
    BY <1>8, <2>5
<1> QED
  BY <1>5, <1>9 DEF first

LEMMA EffectsIs ==
  ASSUME NEW ss, Len(ss) \in Nat, NEW db
  PROVE  /\ \E f : Makes(f, ss, db)
         /\ \A f : Makes(f, ss, db) => Effects(ss, db) = f[Len(ss)]
<1> DEFINE L == Len(ss)
           X == SUBSET (db \union Adds(ss))
           stepOf == [n \in 1..L |-> [x \in X |-> Effect(ss[n], x)]]
           Def(f) == [n \in 0..L |-> IF n = 0 THEN db ELSE Effect(ss[n], f[n - 1])]
           made == CHOOSE f : f = Def(f)
<1>1. db \in X
  OBVIOUS
<1>2. ASSUME NEW n \in 1..L, NEW x \in X  PROVE Effect(ss[n], x) \in X
  <2>1. ss[n].adds \subseteq Adds(ss)
    BY DEF Adds, AddsTo
  <2> QED
    BY <2>1, EffectIs
<1>3. \A n \in 1..L : \A x \in X : stepOf[n][x] = Effect(ss[n], x) /\ stepOf[n][x] \in X
  BY <1>2
<1>4. PICK g \in [0..L -> X] : Steps(g, L, db, stepOf)
  <2> HIDE DEF X, stepOf
  <2> QED
    BY <1>1, <1>3, StepsExist
<1>5. Makes(g, ss, db)
  <2>1. ASSUME NEW n \in 1..L  PROVE g[n] = Effect(ss[n], g[n - 1])
    <3>1. n - 1 \in 0..L
      OBVIOUS
    <3>2. g[n - 1] \in X
      BY <3>1
    <3> HIDE DEF X, stepOf
    <3> QED
      BY <1>3, <1>4, <3>2 DEF Steps
  <2> HIDE DEF X, stepOf
  <2> QED
    BY <1>4, <2>1 DEF Makes, Steps
<1> HIDE DEF X, stepOf
<1>6. g = Def(g)
  <2>1. DOMAIN g = 0..L /\ g = [n \in 0..L |-> g[n]]
    OBVIOUS
  <2>2. \A n \in 0..L : g[n] = IF n = 0 THEN db ELSE Effect(ss[n], g[n - 1])
    BY <1>5 DEF Makes
  <2> QED
    BY <2>1, <2>2
<1>7. made = Def(made)
  <2> HIDE DEF Def
  <2> QED
    BY <1>6
<1>8. Effects(ss, db) = made[L]
  BY Zenon DEF Effects
<1> HIDE DEF made
<1>9. ASSUME NEW f, Makes(f, ss, db)  PROVE Effects(ss, db) = f[L]
  <2> DEFINE P == {n \in 0..L : f[n] = made[n]}
  <2>1. \A n \in 0..L : made[n] = IF n = 0 THEN db ELSE Effect(ss[n], made[n - 1])
    BY <1>7
  <2>2. 0 \in P
    BY <1>9, <2>1 DEF Makes
  <2>3. ASSUME NEW n \in 1..L, n - 1 \in P  PROVE n \in P
    BY <1>9, <2>1, <2>3 DEF Makes
  <2> HIDE DEF P
  <2>4. 0..L \subseteq P
    BY <2>2, <2>3, GoesOn
  <2>5. f[L] = made[L]
    BY <2>4 DEF P
  <2> QED
    BY <1>8, <2>5
<1> QED
  BY <1>5, <1>9

\* Statements that bring nothing back: what they create they do not drop, and
\* those that drop tables create nothing.
Plain(ss) ==
  /\ Adds(ss) \intersect Drops(ss) = {}
  /\ (\E o \in Drops(ss) : o.kind = "table") => Adds(ss) = {}

\* One statement more.
LEMMA OneMore ==
  ASSUME NEW ss, NEW n \in Nat
  PROVE  /\ AddsTo(ss, n + 1) = AddsTo(ss, n) \union ss[n + 1].adds
         /\ DropsTo(ss, n + 1) = DropsTo(ss, n) \union ss[n + 1].drops
         /\ AddsTo(ss, 0) = {} /\ DropsTo(ss, 0) = {}
<1>1. 1..n + 1 = (1..n) \union {n + 1} /\ 1..0 = {}
  OBVIOUS
<1> QED
  BY <1>1 DEF AddsTo, DropsTo

\* Plain statements, with nothing refused: what they drop goes, what they create comes.
LEMMA EffectsPlain ==
  ASSUME NEW ss, Len(ss) \in Nat, NEW db, Plain(ss)
  PROVE  Effects(ss, db) = Cleared(db, Drops(ss)) \union Adds(ss)
<1> DEFINE L == Len(ss)
<1>1. PICK f : Makes(f, ss, db) /\ Effects(ss, db) = f[L]
  BY EffectsIs
<1> DEFINE Q == {n \in 0..L : f[n] = Cleared(db, DropsTo(ss, n)) \union AddsTo(ss, n)}
<1>2. 0 \in Q
  <2>1. AddsTo(ss, 0) = {} /\ DropsTo(ss, 0) = {}
    BY DEF AddsTo, DropsTo
  <2>2. f[0] = Cleared(db, DropsTo(ss, 0)) \union AddsTo(ss, 0)
    BY <1>1, <2>1 DEF Makes, Cleared
  <2> QED
    BY <2>2
<1>3. ASSUME NEW n \in 1..L, n - 1 \in Q  PROVE n \in Q
  <2> DEFINE a == AddsTo(ss, n - 1)
             d == DropsTo(ss, n - 1)
  <2>1. /\ AddsTo(ss, n) = a \union ss[n].adds /\ DropsTo(ss, n) = d \union ss[n].drops
        /\ n - 1 \in Nat
    BY OneMore
  <2>2. /\ a \subseteq Adds(ss) /\ ss[n].adds \subseteq Adds(ss) /\ ss[n].drops \subseteq Drops(ss)
    BY DEF Adds, Drops, AddsTo, DropsTo
  <2>3. f[n] = Cleared(f[n - 1], ss[n].drops) \union ss[n].adds
    BY <1>1, EffectIs DEF Makes
  <2>4. f[n - 1] = Cleared(db, d) \union a
    BY <1>3
  <2>5. Cleared(f[n - 1], ss[n].drops) = Cleared(Cleared(db, d), ss[n].drops) \union a
    <3> HIDE DEF a, d
    <3> QED
      BY <2>2, <2>4 DEF Cleared, Plain
  <2>6. Cleared(Cleared(db, d), ss[n].drops) = Cleared(db, d \union ss[n].drops)
    BY DEF Cleared
  <2>7. f[n] = Cleared(db, DropsTo(ss, n)) \union AddsTo(ss, n)
    <3> HIDE DEF a, d
    <3> QED
      BY <2>1, <2>3, <2>5, <2>6
  <2> QED
    BY <2>7
<1> HIDE DEF Q
<1>4. 0..L \subseteq Q
  BY <1>2, <1>3, GoesOn
<1>5. L \in Q
  BY <1>4
<1> QED
  BY <1>1, <1>5 DEF Q, Adds, Drops

\* And carried out: what they drop was there, what they create was not, and has
\* its table; the rest is as if nothing could be refused.
LEMMA ExecutePlain ==
  ASSUME NEW ss, Len(ss) \in Nat, NEW db, Plain(ss), Execute(ss, db).ok
  PROVE  /\ Drops(ss) \subseteq db /\ Adds(ss) \intersect db = {}
         /\ \A o \in Adds(ss) : o.kind # "table" =>
               Obj("table", o.on, o.on) \in db \union Adds(ss)
         /\ Execute(ss, db).db = Cleared(db, Drops(ss)) \union Adds(ss)
<1> DEFINE L == Len(ss)
           first == [ok |-> TRUE, db |-> db]
<1>1. PICK f : Follows(f, ss, first) /\ Execute(ss, db) = f[L]
  BY ExecuteIs
<1> HIDE DEF first
<1> DEFINE
  Q(n) == /\ f[n].db = Cleared(db, DropsTo(ss, n)) \union AddsTo(ss, n)
          /\ DropsTo(ss, n) \subseteq db /\ AddsTo(ss, n) \intersect db = {}
          /\ \A o \in AddsTo(ss, n) : o.kind # "table" =>
                Obj("table", o.on, o.on) \in db \union Adds(ss)
  P == {n \in 0..L : f[n].ok => Q(n)}
<1>2. 0 \in P
  <2>1. AddsTo(ss, 0) = {} /\ DropsTo(ss, 0) = {}
    BY DEF AddsTo, DropsTo
  <2>2. f[0].db = db
    BY <1>1 DEF Follows, first
  <2>3. Q(0)
    BY <2>1, <2>2 DEF Cleared
  <2> QED
    BY <2>3
<1>3. ASSUME NEW n \in 1..L, n - 1 \in P  PROVE n \in P
  <2> DEFINE a == AddsTo(ss, n - 1)
             d == DropsTo(ss, n - 1)
             s == ss[n]
  <2> SUFFICES ASSUME f[n].ok PROVE Q(n)
    OBVIOUS
  <2>1. /\ AddsTo(ss, n) = a \union s.adds /\ DropsTo(ss, n) = d \union s.drops
        /\ n - 1 \in Nat
    BY OneMore
  <2>2. /\ a \subseteq Adds(ss) /\ s.adds \subseteq Adds(ss) /\ s.drops \subseteq Drops(ss)
        /\ d \subseteq Drops(ss)
    BY DEF Adds, Drops, AddsTo, DropsTo
  <2>3. f[n] = Try(s, f[n - 1])
    BY <1>1 DEF Follows
  <2>4. f[n - 1].ok /\ Accepts(s, f[n - 1].db) /\ f[n].db = Effect(s, f[n - 1].db)
    <3>1. CASE f[n - 1].ok /\ Accepts(s, f[n - 1].db) /\ s.unless \intersect flaws = {}
      BY <2>3, <3>1 DEF Try
    <3>2. CASE ~(f[n - 1].ok /\ Accepts(s, f[n - 1].db) /\ s.unless \intersect flaws = {})
      BY <2>3, <3>2 DEF Try
    <3> QED
      BY <3>1, <3>2
  <2>5. Q(n - 1)
    BY <1>3, <2>4
  <2> DEFINE e == f[n - 1].db
  <2>6. e = Cleared(db, d) \union a /\ d \subseteq db /\ a \intersect db = {}
    BY <2>5
  <2>7. f[n].db = Cleared(e, s.drops) \union s.adds
    BY <2>4, EffectIs
  <2> HIDE DEF a, d, s, e
  <2>8. Cleared(e, s.drops) = Cleared(Cleared(db, d), s.drops) \union a
    BY <2>2, <2>6 DEF Cleared, Plain
  <2>9. Cleared(Cleared(db, d), s.drops) = Cleared(db, d \union s.drops)
    BY DEF Cleared
  <2>10. s.drops \subseteq db
    <3>1. s.drops \subseteq e
      BY <2>4 DEF Accepts, e
    <3> QED
      BY <2>2, <2>6, <3>1 DEF Plain, Cleared
  <2>11. s.adds \intersect e = {} /\ \A o \in s.adds : o.kind # "table" => Obj("table", o.on, o.on) \in e \union s.adds
    BY <2>4 DEF Accepts, Clash, e
  <2>12. s.adds \intersect db = {}
    BY <2>2, <2>6, <2>11 DEF Plain, Cleared
  <2>13. e \subseteq db \union Adds(ss)
    BY <2>2, <2>6 DEF Cleared
  <2>14. \A o \in a : o.kind # "table" => Obj("table", o.on, o.on) \in db \union Adds(ss)
    BY <2>5 DEF a
  <2> QED
    BY <2>1, <2>2, <2>6, <2>7, <2>8, <2>9, <2>10, <2>11, <2>12, <2>13, <2>14
<1> HIDE DEF P
<1>4. 0..L \subseteq P
  BY <1>2, <1>3, GoesOn
<1>5. L \in P
  BY <1>4
<1> HIDE DEF L
<1>6. Q(L)
  BY <1>1, <1>5 DEF P
<1> QED
  BY <1>1, <1>6 DEF Adds, Drops, L

LEMMA TryIs ==
  ASSUME NEW s, NEW acc, Try(s, acc).ok
  PROVE  /\ acc.ok /\ Accepts(s, acc.db)
         /\ Try(s, acc) = [ok |-> TRUE, db |-> Effect(s, acc.db)]
<1>1. CASE acc.ok /\ Accepts(s, acc.db) /\ s.unless \intersect flaws = {}
  BY <1>1 DEF Try
<1>2. CASE ~(acc.ok /\ Accepts(s, acc.db) /\ s.unless \intersect flaws = {})
  BY <1>2 DEF Try
<1> QED
  BY <1>1, <1>2

\* Two sequences of statements, one after the other.
LEMMA ExecuteBoth ==
  ASSUME NEW S, NEW s \in Seq(S), NEW t \in Seq(S), NEW db, Execute(s \o t, db).ok
  PROVE  /\ Execute(s, db).ok /\ Execute(t, Execute(s, db).db).ok
         /\ Execute(s \o t, db).db = Execute(t, Execute(s, db).db).db
<1> DEFINE k == Len(s)
           l == Len(t)
           u == s \o t
           first == [ok |-> TRUE, db |-> db]
<1>1. /\ k \in Nat /\ l \in Nat /\ Len(u) = k + l
      /\ \A n \in 1..k : u[n] = s[n]
      /\ \A n \in 1..l : u[k + n] = t[n]
  BY ConcatProperties, LenProperties
<1> HIDE DEF u, k, l
<1> HIDE DEF first
<1>2. PICK f : Follows(f, u, first) /\ Execute(u, db) = f[k + l]
  <2>1. Len(u) \in Nat
    BY <1>1
  <2>2. \E f : Follows(f, u, first) /\ Execute(u, db) = f[Len(u)]
    BY <2>1, ExecuteIs DEF first
  <2> QED
    BY <1>1, <2>2
<1>3. Follows(f, s, first)
  BY <1>1, <1>2 DEF Follows, k
<1>4. Execute(s, db) = f[k]
  BY <1>1, <1>3, ExecuteIs DEF k, first
<1>5. \A n \in 1..l : f[k + n] = Try(t[n], f[k + (n - 1)])
  <2> SUFFICES ASSUME NEW n \in 1..l PROVE f[k + n] = Try(t[n], f[k + (n - 1)])
    OBVIOUS
  <2>1. k + n \in 1..k + l /\ (k + n) - 1 = k + (n - 1)
    BY <1>1
  <2> QED
    BY <1>1, <1>2, <2>1 DEF Follows
<1>6. f[k].ok
  <2> DEFINE P == {n \in 0..l : f[k + n].ok => f[k].ok}
  <2>1. 0 \in P
    BY <1>1
  <2>2. ASSUME NEW n \in 1..l, n - 1 \in P  PROVE n \in P
    <3>1. f[k + n].ok => f[k + (n - 1)].ok
      BY <1>5, TryIs
    <3> QED
      BY <2>2, <3>1
  <2> HIDE DEF P
  <2>3. 0..l \subseteq P
    BY <1>1, <2>1, <2>2, GoesOn
  <2>4. f[k + l].ok => f[k].ok
    <3>1. l \in P
      BY <1>1, <2>3
    <3> QED
      BY <3>1 DEF P
  <2>5. f[k + l].ok
    BY <1>2 DEF u
  <2> QED
    BY <2>4, <2>5
<1>7. f[k] = [ok |-> TRUE, db |-> f[k].db]
  <2>1. CASE k = 0
    <3>1. f[k] = first
      BY <1>2, <2>1 DEF Follows
    <3> QED
      BY <3>1 DEF first
  <2>2. CASE k # 0
    <3>1. k \in 1..k + l
      BY <1>1, <2>2
    <3>2. f[k] = Try(u[k], f[k - 1])
      BY <1>1, <1>2, <3>1 DEF Follows
    <3>3. f[k] = [ok |-> TRUE, db |-> f[k].db]
      <4>1. f[k] = [ok |-> TRUE, db |-> Effect(u[k], f[k - 1].db)]
        BY <1>6, <3>2, TryIs
      <4> QED
        BY <4>1
    <3> QED
      BY <3>3
  <2> QED
    BY <2>1, <2>2
<1> DEFINE h == [n \in 0..l |-> f[k + n]]
<1>8. Follows(h, t, [ok |-> TRUE, db |-> f[k].db]) /\ h[l] = f[k + l]
  <2>1. h[0] = [ok |-> TRUE, db |-> f[k].db] /\ h[l] = f[k + l]
    BY <1>1, <1>7
  <2>2. ASSUME NEW n \in 1..l  PROVE h[n] = Try(t[n], h[n - 1])
    <3>1. n \in 0..l /\ n - 1 \in 0..l
      BY <1>1
    <3> QED
      BY <1>5, <3>1
  <2> HIDE DEF h
  <2> QED
    BY <2>1, <2>2 DEF Follows, l
<1> HIDE DEF h
<1>9. Execute(t, f[k].db) = f[k + l]
  BY <1>1, <1>8, ExecuteIs DEF l
<1> QED
  BY <1>2, <1>4, <1>6, <1>9 DEF u

\* Sequences joined, one after the other.
LEMMA FlattenIs ==
  ASSUME NEW S, NEW ss, Len(ss) \in Nat \ {0}, \A i \in 1..Len(ss) : ss[i] \in Seq(S)
  PROVE  \E f : /\ f[1] = ss[1] /\ \A i \in 2..Len(ss) : f[i] = f[i - 1] \o ss[i]
                /\ \A i \in 1..Len(ss) : f[i] \in Seq(S)
                /\ FlattenSeq(ss) = f[Len(ss)]
<1> DEFINE L == Len(ss)
           X == Seq(S)
           stepOf == [n \in 1..(L - 1) |-> [x \in X |-> x \o ss[n + 1]]]
           Def(f) == [i \in 1..L |-> IF i = 1 THEN ss[i] ELSE f[i - 1] \o ss[i]]
           flatten == CHOOSE f : f = Def(f)
<1>1. L - 1 \in Nat /\ ss[1] \in X
  OBVIOUS
<1>2. \A n \in 1..(L - 1) : \A x \in X : stepOf[n][x] = x \o ss[n + 1] /\ stepOf[n][x] \in X
  <2> SUFFICES ASSUME NEW n \in 1..(L - 1), NEW x \in X PROVE x \o ss[n + 1] \in X
    OBVIOUS
  <2>1. ss[n + 1] \in Seq(S)
    OBVIOUS
  <2> QED
    BY <2>1, ConcatProperties
<1>3. PICK g \in [0..(L - 1) -> X] : Steps(g, L - 1, ss[1], stepOf)
  <2> HIDE DEF X, stepOf, L
  <2> QED
    BY <1>1, <1>2, StepsExist
<1> DEFINE h == [i \in 1..L |-> g[i - 1]]
<1>4. h[1] = ss[1] /\ \A i \in 1..L : h[i] \in X
  <2>1. \A i \in 1..L : i - 1 \in 0..(L - 1)
    OBVIOUS
  <2> QED
    <3>1. h[1] = ss[1]
      BY <1>3 DEF Steps
    <3> HIDE DEF X
    <3>2. \A i \in 1..L : h[i] \in X
      BY <1>3, <2>1
    <3> QED
      BY <3>1, <3>2
<1>5. ASSUME NEW i \in 2..L  PROVE h[i] = h[i - 1] \o ss[i]
  <2>1. i - 1 \in 1..(L - 1) /\ (i - 1) - 1 \in 0..(L - 1) /\ (i - 1) + 1 = i /\ i \in 1..L /\ i - 1 \in 1..L
    OBVIOUS
  <2>2. g[(i - 1) - 1] \in X
    BY <2>1
  <2>3. g[i - 1] = stepOf[i - 1][g[(i - 1) - 1]]
    BY <1>3, <2>1 DEF Steps
  <2>4. g[i - 1] = g[(i - 1) - 1] \o ss[i]
    <3> HIDE DEF stepOf, X, L
    <3> QED
      BY <1>2, <2>1, <2>2, <2>3
  <2> QED
    BY <2>1, <2>4
<1>6. h = Def(h)
  <2>1. \A i \in 1..L : h[i] = IF i = 1 THEN ss[i] ELSE h[i - 1] \o ss[i]
    <3> HIDE DEF h
    <3> SUFFICES ASSUME NEW i \in 1..L
                 PROVE  h[i] = IF i = 1 THEN ss[i] ELSE h[i - 1] \o ss[i]
      OBVIOUS
    <3>1. CASE i = 1
      BY <1>4, <3>1
    <3>2. CASE i # 1
      <4>1. i \in 2..L
        BY <3>2
      <4> QED
        BY <1>5, <3>2, <4>1
    <3> QED
      BY <3>1, <3>2
  <2>2. h = [i \in 1..L |-> h[i]]
    OBVIOUS
  <2> HIDE DEF h
  <2> QED
    BY <2>1, <2>2
<1> HIDE DEF h, X, L, stepOf
<1>7. flatten = Def(flatten)
  <2> HIDE DEF Def
  <2> QED
    BY <1>6
<1>8. FlattenSeq(ss) = flatten[L]
  BY Zenon DEF FlattenSeq, L
<1> HIDE DEF flatten
<1>9. \A i \in 1..L : flatten[i] = IF i = 1 THEN ss[i] ELSE flatten[i - 1] \o ss[i]
  BY <1>7
<1>10. L \in Nat \ {0}
  BY DEF L
<1>11. flatten[1] = ss[1] /\ \A i \in 2..L : flatten[i] = flatten[i - 1] \o ss[i]
  <2>1. 1 \in 1..L /\ \A i \in 2..L : i \in 1..L /\ i # 1
    BY <1>10
  <2> QED
    BY <1>9, <2>1
<1>12. \A i \in 1..L : flatten[i] \in X
  <2> DEFINE P == {n \in 0..L : n = 0 \/ flatten[n] \in X}
  <2>1. 0 \in P
    BY <1>10
  <2>2. ASSUME NEW n \in 1..L, n - 1 \in P  PROVE n \in P
    <3>1. ss[n] \in Seq(S)
      BY DEF L
    <3>2. CASE n = 1
      BY <1>10, <1>11, <3>1, <3>2 DEF X
    <3>3. CASE n # 1
      <4>1. n \in 2..L /\ flatten[n - 1] \in X
        BY <1>10, <2>2, <3>3
      <4>2. flatten[n - 1] \o ss[n] \in X
        BY <3>1, <4>1, ConcatProperties DEF X
      <4>3. flatten[n] \in X
        BY <1>11, <4>1, <4>2
      <4> QED
        BY <4>3
    <3> QED
      BY <3>2, <3>3
  <2> HIDE DEF P
  <2>3. 0..L \subseteq P
    BY <1>10, <2>1, <2>2, GoesOn
  <2> QED
    BY <2>3 DEF P
<1> QED
  BY <1>8, <1>11, <1>12 DEF X, L

-----------------------------------------------------------------------------
(* What each migration creates and drops.                                  *)

TableName ==
  {"admins", "clients", "vehicles", "services", "parts", "service_orders", "budgets"}

TableObjects == {Obj("table", t, t) : t \in TableName}
ColumnObjects == UNION {{Obj("column", t, c) : c \in COLUMNS[t]} : t \in TableName}
StampObjects == {Obj("column", t, "deleted_at") : t \in TableName}
UniqueObjects == {Obj("unique", u.table, u.name) : u \in ToSet(UNIQUE_INDEXES)}
PartialObjects == {Obj("partial", u.table, u.name) : u \in ToSet(UNIQUE_INDEXES)}
KeyObjects == {Obj("fk", k.table, k.name) : k \in ToSet(FOREIGN_KEYS)}

Object ==
  UNION {TableObjects, ColumnObjects, StampObjects, UniqueObjects, PartialObjects, KeyObjects,
         ToSet(LOGICAL_KEY_INDEXES), ToSet(CLIENT_STATUS), ToSet(NEW_INDEXES), {VEHICLE_IDS}}
Statement ==
  [adds : SUBSET Object, drops : SUBSET Object, unless : SUBSET {"orphans", "twins"}]

LEMMA AddsAre ==
  ASSUME NEW S, NEW ss \in Seq(S)
  PROVE  /\ Adds(ss) = UNION {s.adds : s \in ToSet(ss)}
         /\ Drops(ss) = UNION {s.drops : s \in ToSet(ss)}
<1>1. DOMAIN ss = 1..Len(ss)
  BY LenProperties
<1> QED
  BY <1>1 DEF Adds, Drops, AddsTo, DropsTo, ToSet

LEMMA BothAdd ==
  ASSUME NEW S, NEW s \in Seq(S), NEW t \in Seq(S)
  PROVE  /\ s \o t \in Seq(S)
         /\ Adds(s \o t) = Adds(s) \union Adds(t) /\ Drops(s \o t) = Drops(s) \union Drops(t)
<1>1. s \o t \in Seq(S) /\ ToSet(s \o t) = ToSet(s) \union ToSet(t)
  BY Joined
<1>2. /\ Adds(s) = UNION {x.adds : x \in ToSet(s)} /\ Drops(s) = UNION {x.drops : x \in ToSet(s)}
      /\ Adds(t) = UNION {x.adds : x \in ToSet(t)} /\ Drops(t) = UNION {x.drops : x \in ToSet(t)}
  BY AddsAre
<1>3. /\ Adds(s \o t) = UNION {x.adds : x \in ToSet(s \o t)}
      /\ Drops(s \o t) = UNION {x.drops : x \in ToSet(s \o t)}
  BY <1>1, AddsAre
<1> QED
  BY <1>1, <1>2, <1>3

LEMMA ReversedIs ==
  ASSUME NEW S, NEW s \in Seq(S)
  PROVE  Reverse(s) \in Seq(S) /\ ToSet(Reverse(s)) = ToSet(s)
<1> DEFINE r == Reverse(s)
           L == Len(s)
<1>1. L \in Nat /\ DOMAIN s = 1..L /\ \A i \in 1..L : s[i] \in S
  BY LenProperties, ElementOfSeq
<1>2. \A i \in 1..L : (L - i) + 1 \in 1..L /\ (L - ((L - i) + 1)) + 1 = i
  BY <1>1
<1>3. r \in [1..L -> S] /\ \A i \in 1..L : r[i] = s[(L - i) + 1]
  BY <1>1, <1>2 DEF Reverse
<1> HIDE DEF r, L
<1>4. r \in Seq(S) /\ DOMAIN r = 1..L
  BY <1>1, <1>3, IsASeq
<1>5. ASSUME NEW x \in ToSet(s)  PROVE x \in ToSet(r)
  <2>1. PICK i \in 1..L : x = s[i]
    BY <1>1 DEF ToSet
  <2>2. (L - i) + 1 \in DOMAIN r /\ r[(L - i) + 1] = x
    BY <1>2, <1>3, <1>4, <2>1
  <2> QED
    BY <2>2 DEF ToSet
<1>6. ASSUME NEW x \in ToSet(r)  PROVE x \in ToSet(s)
  <2>1. PICK i \in 1..L : x = r[i]
    BY <1>4 DEF ToSet
  <2>2. (L - i) + 1 \in DOMAIN s /\ s[(L - i) + 1] = x
    BY <1>1, <1>2, <1>3, <2>1
  <2> QED
    BY <2>2 DEF ToSet
<1> QED
  BY <1>4, <1>5, <1>6 DEF r

\* All the sets that f gives of the elements of s.
AllOf(f, s) == UNION {f[x] : x \in s}

\* A statement for each element of a sequence.
LEMMA EachIs ==
  ASSUME NEW T, NEW seq \in Seq(T), NEW e \in [DOMAIN seq -> Statement], NEW a, NEW d,
         \A i \in DOMAIN seq : e[i].adds = a[seq[i]] /\ e[i].drops = d[seq[i]]
  PROVE  /\ e \in Seq(Statement)
         /\ Adds(e) = AllOf(a, ToSet(seq)) /\ Drops(e) = AllOf(d, ToSet(seq))
<1>1. DOMAIN seq = 1..Len(seq) /\ Len(seq) \in Nat
  BY LenProperties
<1>2. e \in Seq(Statement) /\ Len(e) = Len(seq)
  BY <1>1, IsASeq
<1>3. /\ Adds(e) = UNION {e[i].adds : i \in 1..Len(seq)}
      /\ Drops(e) = UNION {e[i].drops : i \in 1..Len(seq)}
  BY <1>2 DEF Adds, AddsTo, Drops, DropsTo
<1>4. Adds(e) = AllOf(a, ToSet(seq))
  BY <1>1, <1>3 DEF ToSet, AllOf
<1>5. Drops(e) = AllOf(d, ToSet(seq))
  BY <1>1, <1>3 DEF ToSet, AllOf
<1> QED
  BY <1>2, <1>4, <1>5

\* Each of them creates one object, or drops one.
LEMMA AddEach ==
  ASSUME NEW seq \in Seq(Object), NEW e \in [DOMAIN seq -> Statement],
         \A i \in DOMAIN seq : e[i].adds = {seq[i]} /\ e[i].drops = {}
  PROVE  e \in Seq(Statement) /\ Adds(e) = ToSet(seq) /\ Drops(e) = {}
<1> DEFINE a == [x \in Object |-> {x}]
           d == [x \in Object |-> {}]
<1>1. DOMAIN seq = 1..Len(seq) /\ \A i \in 1..Len(seq) : seq[i] \in Object
  BY LenProperties, ElementOfSeq
<1>2. ToSet(seq) \subseteq Object
  BY <1>1 DEF ToSet
<1>3. \A x \in Object : a[x] = {x} /\ d[x] = {}
  OBVIOUS
<1> HIDE DEF a, d
<1>4. \A i \in DOMAIN seq : e[i].adds = a[seq[i]] /\ e[i].drops = d[seq[i]]
  BY <1>1, <1>3
<1>5. /\ e \in Seq(Statement)
      /\ Adds(e) = AllOf(a, ToSet(seq)) /\ Drops(e) = AllOf(d, ToSet(seq))
  BY <1>4, EachIs
<1> QED
  BY <1>2, <1>3, <1>5 DEF AllOf

LEMMA DropEach ==
  ASSUME NEW seq \in Seq(Object), NEW e \in [DOMAIN seq -> Statement],
         \A i \in DOMAIN seq : e[i].adds = {} /\ e[i].drops = {seq[i]}
  PROVE  e \in Seq(Statement) /\ Adds(e) = {} /\ Drops(e) = ToSet(seq)
<1> DEFINE a == [x \in Object |-> {}]
           d == [x \in Object |-> {x}]
<1>1. DOMAIN seq = 1..Len(seq) /\ \A i \in 1..Len(seq) : seq[i] \in Object
  BY LenProperties, ElementOfSeq
<1>2. ToSet(seq) \subseteq Object
  BY <1>1 DEF ToSet
<1>3. \A x \in Object : a[x] = {} /\ d[x] = {x}
  OBVIOUS
<1> HIDE DEF a, d
<1>4. \A i \in DOMAIN seq : e[i].adds = a[seq[i]] /\ e[i].drops = d[seq[i]]
  BY <1>1, <1>3
<1>5. /\ e \in Seq(Statement)
      /\ Adds(e) = AllOf(a, ToSet(seq)) /\ Drops(e) = AllOf(d, ToSet(seq))
  BY <1>4, EachIs
<1> QED
  BY <1>2, <1>3, <1>5 DEF AllOf

LEMMA JoinedAll ==
  ASSUME NEW S, NEW ss, Len(ss) \in Nat \ {0}, \A i \in 1..Len(ss) : ss[i] \in Seq(S)
  PROVE  FlattenSeq(ss) \in Seq(S) /\ ToSet(FlattenSeq(ss)) = UNION {ToSet(ss[i]) : i \in 1..Len(ss)}
<1> DEFINE L == Len(ss)
<1>1. PICK f : /\ f[1] = ss[1] /\ \A i \in 2..L : f[i] = f[i - 1] \o ss[i]
               /\ \A i \in 1..L : f[i] \in Seq(S)
               /\ FlattenSeq(ss) = f[L]
  BY FlattenIs
<1> DEFINE P == {n \in 0..L : n = 0 \/ ToSet(f[n]) = UNION {ToSet(ss[i]) : i \in 1..n}}
<1> HIDE DEF L
<1>2. L \in Nat \ {0} /\ \A i \in 1..L : ss[i] \in Seq(S)
  BY DEF L
<1>3. 0 \in P
  BY <1>2
<1>4. ASSUME NEW n \in 1..L, n - 1 \in P  PROVE n \in P
  <2>1. CASE n = 1
    <3>1. 1..1 = {1} /\ ToSet(f[1]) = ToSet(ss[1])
      BY <1>1
    <3> QED
      BY <1>2, <2>1, <3>1
  <2>2. CASE n # 1
    <3>1. /\ n \in 2..L /\ n - 1 \in 1..L /\ 1..n = (1..(n - 1)) \union {n}
      BY <1>2, <2>2
    <3>2. ToSet(f[n]) = ToSet(f[n - 1]) \union ToSet(ss[n])
      <4>1. f[n] = f[n - 1] \o ss[n] /\ f[n - 1] \in Seq(S) /\ ss[n] \in Seq(S)
        BY <1>1, <1>2, <3>1
      <4> QED
        BY <4>1, Joined
    <3>3. ToSet(f[n - 1]) = UNION {ToSet(ss[i]) : i \in 1..(n - 1)}
      BY <1>4, <2>2
    <3> DEFINE X(m) == UNION {ToSet(ss[i]) : i \in 1..m}
    <3>4. X(n) = X(n - 1) \union ToSet(ss[n])
      BY <3>1
    <3> HIDE DEF X
    <3>5. ToSet(f[n]) = X(n)
      BY <3>2, <3>3, <3>4 DEF X
    <3> QED
      BY <3>1, <3>5 DEF X
  <2> QED
    BY <2>1, <2>2
<1> HIDE DEF P
<1>5. 0..L \subseteq P
  BY <1>2, <1>3, <1>4, GoesOn
<1>6. L \in P
  BY <1>2, <1>5
<1> QED
  BY <1>1, <1>2, <1>6 DEF P, L

\* Sequences written out.
LEMMA Two ==
  ASSUME NEW a, NEW b
  PROVE  ToSet(<<a, b>>) = {a, b} /\ \A S : {a, b} \subseteq S => <<a, b>> \in Seq(S)
<1>1. ToSet(<<a, b>>) = {a, b}
  BY DEF ToSet
<1> QED
  BY <1>1

LEMMA Four ==
  ASSUME NEW a, NEW b, NEW c, NEW d
  PROVE  ToSet(<<a, b, c, d>>) = {a, b, c, d} /\ \A S : {a, b, c, d} \subseteq S => <<a, b, c, d>> \in Seq(S)
<1>1. ToSet(<<a, b, c, d>>) = {a, b, c, d}
  BY DEF ToSet
<1> QED
  BY <1>1

LEMMA Five ==
  ASSUME NEW a, NEW b, NEW c, NEW d, NEW e
  PROVE  /\ ToSet(<<a, b, c, d, e>>) = {a, b, c, d, e}
         /\ \A S : {a, b, c, d, e} \subseteq S => <<a, b, c, d, e>> \in Seq(S)
<1>1. ToSet(<<a, b, c, d, e>>) = {a, b, c, d, e}
  BY DEF ToSet
<1> QED
  BY <1>1

LEMMA Seven ==
  ASSUME NEW a, NEW b, NEW c, NEW d, NEW e, NEW f, NEW g
  PROVE  /\ ToSet(<<a, b, c, d, e, f, g>>) = {a, b, c, d, e, f, g}
         /\ \A S : {a, b, c, d, e, f, g} \subseteq S => <<a, b, c, d, e, f, g>> \in Seq(S)
<1>1. ToSet(<<a, b, c, d, e, f, g>>) = {a, b, c, d, e, f, g}
  BY DEF ToSet
<1> QED
  BY <1>1

LEMMA ObjIs ==
  ASSUME NEW kind, NEW on, NEW name
  PROVE  /\ Obj(kind, on, name).kind = kind /\ Obj(kind, on, name).on = on
         /\ Obj(kind, on, name).name = name
BY DEF Obj

LEMMA TablesAre == TABLES \in Seq(TableName) /\ ToSet(TABLES) = TableName
<1> DEFINE a == "admins"
           b == "clients"
           c == "vehicles"
           d == "services"
           e == "parts"
           f == "service_orders"
           g == "budgets"
<1>1. TABLES = <<a, b, c, d, e, f, g>> /\ TableName = {a, b, c, d, e, f, g}
  BY Zenon DEF TABLES, TableName
<1> HIDE DEF a, b, c, d, e, f, g
<1> QED
  BY <1>1, Seven

LEMMA UniqueIndexesAre ==
  /\ UNIQUE_INDEXES \in Seq(ToSet(UNIQUE_INDEXES))
  /\ ToSet(UNIQUE_INDEXES) =
       {[table |-> "admins",   name |-> "UQ_admins_email"],
        [table |-> "clients",  name |-> "UQ_clients_cpf_cnpj"],
        [table |-> "vehicles", name |-> "UQ_vehicles_plate"],
        [table |-> "services", name |-> "UQ_services_name"],
        [table |-> "parts",    name |-> "UQ_parts_sku"]}
<1> DEFINE a == [table |-> "admins",   name |-> "UQ_admins_email"]
           b == [table |-> "clients",  name |-> "UQ_clients_cpf_cnpj"]
           c == [table |-> "vehicles", name |-> "UQ_vehicles_plate"]
           d == [table |-> "services", name |-> "UQ_services_name"]
           e == [table |-> "parts",    name |-> "UQ_parts_sku"]
<1>2. UNIQUE_INDEXES = <<a, b, c, d, e>>
  BY Zenon DEF UNIQUE_INDEXES
<1> HIDE DEF a, b, c, d, e
<1>3. UNIQUE_INDEXES \in Seq(ToSet(UNIQUE_INDEXES)) /\ ToSet(UNIQUE_INDEXES) = {a, b, c, d, e}
  BY <1>2, Five
<1> QED
  BY <1>3, Zenon DEF a, b, c, d, e

LEMMA ForeignKeysAre ==
  /\ FOREIGN_KEYS \in Seq(ToSet(FOREIGN_KEYS))
  /\ ToSet(FOREIGN_KEYS) =
       {[table |-> "vehicles",       name |-> "FK_vehicles_owner_client_id"],
        [table |-> "service_orders", name |-> "FK_service_orders_client_id"],
        [table |-> "service_orders", name |-> "FK_service_orders_vehicle_id"],
        [table |-> "service_orders", name |-> "FK_service_orders_budget_id"],
        [table |-> "budgets",        name |-> "FK_budgets_service_order_id"]}
<1> DEFINE a == [table |-> "vehicles",       name |-> "FK_vehicles_owner_client_id"]
           b == [table |-> "service_orders", name |-> "FK_service_orders_client_id"]
           c == [table |-> "service_orders", name |-> "FK_service_orders_vehicle_id"]
           d == [table |-> "service_orders", name |-> "FK_service_orders_budget_id"]
           e == [table |-> "budgets",        name |-> "FK_budgets_service_order_id"]
<1>2. FOREIGN_KEYS = <<a, b, c, d, e>>
  BY Zenon DEF FOREIGN_KEYS
<1> HIDE DEF a, b, c, d, e
<1>3. FOREIGN_KEYS \in Seq(ToSet(FOREIGN_KEYS)) /\ ToSet(FOREIGN_KEYS) = {a, b, c, d, e}
  BY <1>2, Five
<1> QED
  BY <1>3, Zenon DEF a, b, c, d, e

LEMMA ObjectsAre ==
  /\ LOGICAL_KEY_INDEXES \in Seq(Object) /\ CLIENT_STATUS \in Seq(Object)
  /\ NEW_INDEXES \in Seq(Object)
  /\ ToSet(LOGICAL_KEY_INDEXES) =
       {Obj("index", "vehicles", "IDX_vehicles_owner_client_id"),
        Obj("index", "service_orders", "IDX_service_orders_client_id"),
        Obj("index", "service_orders", "IDX_service_orders_status"),
        Obj("index", "budgets", "IDX_budgets_service_order_id")}
  /\ ToSet(CLIENT_STATUS) =
       {Obj("column", "clients", "status"), Obj("check", "clients", "CHK_clients_status")}
  /\ ToSet(NEW_INDEXES) =
       {Obj("index", "service_orders", "IDX_service_orders_vehicle_id"),
        Obj("index", "service_orders", "IDX_service_orders_budget_id")}
<1> DEFINE a == Obj("index", "vehicles", "IDX_vehicles_owner_client_id")
           b == Obj("index", "service_orders", "IDX_service_orders_client_id")
           c == Obj("index", "service_orders", "IDX_service_orders_status")
           d == Obj("index", "budgets", "IDX_budgets_service_order_id")
           e == Obj("column", "clients", "status")
           f == Obj("check", "clients", "CHK_clients_status")
           g == Obj("index", "service_orders", "IDX_service_orders_vehicle_id")
           h == Obj("index", "service_orders", "IDX_service_orders_budget_id")
<1>2. /\ LOGICAL_KEY_INDEXES = <<a, b, c, d>> /\ CLIENT_STATUS = <<e, f>>
      /\ NEW_INDEXES = <<g, h>>
  BY Zenon DEF LOGICAL_KEY_INDEXES, CLIENT_STATUS, NEW_INDEXES
<1> HIDE DEF a, b, c, d, e, f, g, h
<1>3. LOGICAL_KEY_INDEXES \in Seq(Object) /\ ToSet(LOGICAL_KEY_INDEXES) = {a, b, c, d}
  <2>1. ToSet(LOGICAL_KEY_INDEXES) = {a, b, c, d}
    BY <1>2, Four
  <2>2. ToSet(LOGICAL_KEY_INDEXES) \subseteq Object
    BY DEF Object
  <2> QED
    BY <1>2, <2>1, <2>2, Four
<1>4. CLIENT_STATUS \in Seq(Object) /\ ToSet(CLIENT_STATUS) = {e, f}
  <2>1. ToSet(CLIENT_STATUS) = {e, f}
    BY <1>2, Two
  <2>2. ToSet(CLIENT_STATUS) \subseteq Object
    BY DEF Object
  <2> QED
    BY <1>2, <2>1, <2>2, Two
<1>5. NEW_INDEXES \in Seq(Object) /\ ToSet(NEW_INDEXES) = {g, h}
  <2>1. ToSet(NEW_INDEXES) = {g, h}
    BY <1>2, Two
  <2>2. ToSet(NEW_INDEXES) \subseteq Object
    BY DEF Object
  <2> QED
    BY <1>2, <2>1, <2>2, Two
<1> QED
  BY <1>3, <1>4, <1>5, Zenon DEF a, b, c, d, e, f, g, h

LEMMA ColumnsAre ==
  /\ \A t \in TableName : "deleted_at" \notin COLUMNS[t]
  /\ "status" \notin COLUMNS["clients"] /\ "vehicle_ids" \in COLUMNS["clients"]
<1>1. /\ COLUMNS["admins"] = {"id", "name", "email", "password_hash", "created_at", "updated_at"}
      /\ COLUMNS["clients"] = {"id", "name", "cpf_cnpj", "email", "phone", "vehicle_ids",
                               "created_at", "updated_at"}
      /\ COLUMNS["vehicles"] = {"id", "plate", "brand", "model", "year", "owner_client_id",
                                "created_at", "updated_at"}
  BY DEF COLUMNS
<1>2. /\ COLUMNS["services"] = {"id", "name", "base_price", "estimated_minutes", "created_at",
                                "updated_at"}
      /\ COLUMNS["parts"] = {"id", "name", "sku", "unit_price", "stock_quantity",
                             "created_at", "updated_at"}
  BY DEF COLUMNS
<1>3. /\ COLUMNS["service_orders"] = {"id", "client_id", "vehicle_id", "description", "status",
                                      "budget_id", "status_history", "created_at", "updated_at"}
      /\ COLUMNS["budgets"] = {"id", "service_order_id", "lines", "status", "version", "total",
                               "frozen_at", "created_at"}
  BY DEF COLUMNS
<1> QED
  BY <1>1, <1>2, <1>3 DEF TableName

LEMMA CreateTableIs ==
  ASSUME NEW t \in TableName
  PROVE  /\ CreateTable(t) \in Statement /\ CreateTable(t).drops = {}
         /\ CreateTable(t).adds =
              {Obj("table", t, t)} \union {Obj("column", t, c) : c \in COLUMNS[t]}
                \union {Obj("unique", t, u.name) : u \in {v \in ToSet(UNIQUE_INDEXES) : v.table = t}}
<1> DEFINE objects ==
      {Obj("table", t, t)} \union {Obj("column", t, c) : c \in COLUMNS[t]}
        \union {Obj("unique", t, u.name) : u \in {v \in ToSet(UNIQUE_INDEXES) : v.table = t}}
<1>1. objects \subseteq Object
  <2>1. Obj("table", t, t) \in TableObjects
    BY DEF TableObjects
  <2>2. {Obj("column", t, c) : c \in COLUMNS[t]} \subseteq ColumnObjects
    BY DEF ColumnObjects
  <2>3. {Obj("unique", t, u.name) : u \in {v \in ToSet(UNIQUE_INDEXES) : v.table = t}}
          \subseteq UniqueObjects
    BY DEF UniqueObjects
  <2> QED
    BY <2>1, <2>2, <2>3 DEF Object
<1>2. CreateTable(t) = Add(objects)
  BY Zenon DEF CreateTable
<1> HIDE DEF objects
<1>3. Add(objects) \in Statement /\ Add(objects).drops = {} /\ Add(objects).adds = objects
  BY <1>1 DEF Add, Statement
<1> QED
  BY <1>2, <1>3 DEF objects

\* The tables, with their columns and the constraints of their keys.
LEMMA CreateTables ==
  ASSUME NEW e \in [DOMAIN TABLES -> Statement],
         \A i \in DOMAIN TABLES : e[i] = CreateTable(TABLES[i])
  PROVE  /\ e \in Seq(Statement) /\ Drops(e) = {}
         /\ Adds(e) = TableObjects \union ColumnObjects \union UniqueObjects
<1> DEFINE a == [t \in TableName |-> CreateTable(t).adds]
           d == [t \in TableName |-> {}]
<1>1. \A i \in DOMAIN TABLES : TABLES[i] \in TableName
  BY TablesAre, ElementOfSeq, LenProperties
<1>2. \A t \in TableName : a[t] = CreateTable(t).adds /\ d[t] = {}
  OBVIOUS
<1> HIDE DEF a, d
<1>3. \A i \in DOMAIN TABLES : e[i].adds = a[TABLES[i]] /\ e[i].drops = d[TABLES[i]]
  BY <1>1, <1>2, CreateTableIs
<1>4. e \in Seq(Statement) /\ Adds(e) = AllOf(a, TableName) /\ Drops(e) = AllOf(d, TableName)
  BY <1>3, EachIs, TablesAre
<1>5. Drops(e) = {}
  BY <1>2, <1>4 DEF AllOf
<1>6. ASSUME NEW o \in Adds(e)  PROVE o \in TableObjects \union ColumnObjects \union UniqueObjects
  <2>1. PICK t \in TableName : o \in CreateTable(t).adds
    BY <1>2, <1>4 DEF AllOf
  <2> QED
    BY <2>1, CreateTableIs DEF TableObjects, ColumnObjects, UniqueObjects
<1>7. ASSUME NEW o \in TableObjects \union ColumnObjects \union UniqueObjects  PROVE o \in Adds(e)
  <2>1. \E t \in TableName : o \in CreateTable(t).adds
    <3>1. CASE o \in TableObjects
      BY CreateTableIs, <3>1 DEF TableObjects
    <3>2. CASE o \in ColumnObjects
      BY CreateTableIs, <3>2 DEF ColumnObjects
    <3>3. CASE o \in UniqueObjects
      <4>1. PICK u \in ToSet(UNIQUE_INDEXES) : o = Obj("unique", u.table, u.name)
        BY <3>3 DEF UniqueObjects
      <4>2. u.table \in TableName
        BY UniqueIndexesAre DEF TableName
      <4> QED
        BY CreateTableIs, <4>1, <4>2
    <3> QED
      BY <3>1, <3>2, <3>3
  <2> QED
    BY <1>2, <1>4, <2>1 DEF AllOf
<1> QED
  BY <1>4, <1>5, <1>6, <1>7

\* Each of them drops something, and then creates something.
Replaces(e, seq, a, d) ==
  \A i \in DOMAIN seq : \E s, t \in Statement :
    /\ e[i] = <<s, t>>
    /\ s.adds = {} /\ s.drops = d[seq[i]] /\ t.adds = a[seq[i]] /\ t.drops = {}

LEMMA ReplaceEach ==
  ASSUME NEW T, NEW seq \in Seq(T), Len(seq) # 0, NEW e \in [DOMAIN seq -> Seq(Statement)],
         NEW a, NEW d, Replaces(e, seq, a, d)
  PROVE  /\ FlattenSeq(e) \in Seq(Statement)
         /\ Adds(FlattenSeq(e)) = AllOf(a, ToSet(seq)) /\ Drops(FlattenSeq(e)) = AllOf(d, ToSet(seq))
<1> DEFINE L == Len(seq)
           all == FlattenSeq(e)
<1>1. DOMAIN seq = 1..L /\ L \in Nat \ {0}
  BY LenProperties
<1>2. e \in Seq(Seq(Statement)) /\ Len(e) = L
  BY <1>1, IsASeq
<1>3. \A i \in 1..L : e[i] \in Seq(Statement)
  BY <1>1
<1>4. all \in Seq(Statement) /\ ToSet(all) = UNION {ToSet(e[i]) : i \in 1..L}
  <2> HIDE DEF L
  <2>1. Len(e) \in Nat \ {0} /\ \A i \in 1..Len(e) : e[i] \in Seq(Statement)
    BY <1>1, <1>2, <1>3
  <2>2. all \in Seq(Statement) /\ ToSet(all) = UNION {ToSet(e[i]) : i \in 1..Len(e)}
    BY <2>1, JoinedAll
  <2> QED
    BY <1>2, <2>2
<1> HIDE DEF all, L
<1>5. Adds(all) = UNION {s.adds : s \in ToSet(all)} /\ Drops(all) = UNION {s.drops : s \in ToSet(all)}
  BY <1>4, AddsAre
<1>6. ASSUME NEW i \in 1..L
      PROVE  \E s, t \in Statement : /\ ToSet(e[i]) = {s, t}
                                     /\ s.adds = {} /\ s.drops = d[seq[i]]
                                     /\ t.adds = a[seq[i]] /\ t.drops = {}
  <2>1. i \in DOMAIN seq
    BY <1>1
  <2>2. PICK s \in Statement, t \in Statement :
          /\ e[i] = <<s, t>>
          /\ s.adds = {} /\ s.drops = d[seq[i]] /\ t.adds = a[seq[i]] /\ t.drops = {}
    BY <2>1 DEF Replaces
  <2>3. ToSet(e[i]) = {s, t}
    BY <2>2, Two
  <2> QED
    BY <2>2, <2>3
<1>7. ASSUME NEW s \in ToSet(all)
      PROVE  \E i \in 1..L : s.adds \subseteq a[seq[i]] /\ s.drops \subseteq d[seq[i]]
  <2>1. PICK i \in 1..L : s \in ToSet(e[i])
    BY <1>4
  <2>2. PICK x \in Statement, y \in Statement :
          /\ ToSet(e[i]) = {x, y}
          /\ x.adds = {} /\ x.drops = d[seq[i]] /\ y.adds = a[seq[i]] /\ y.drops = {}
    BY <1>6
  <2>3. s = x \/ s = y
    BY <2>1, <2>2
  <2>4. s.adds \subseteq a[seq[i]] /\ s.drops \subseteq d[seq[i]]
    BY <2>2, <2>3
  <2> QED
    BY <2>4
<1>8. ASSUME NEW i \in 1..L
      PROVE  /\ \E t \in ToSet(all) : t.adds = a[seq[i]]
             /\ \E s \in ToSet(all) : s.drops = d[seq[i]]
  <2>1. ToSet(e[i]) \subseteq ToSet(all)
    BY <1>4
  <2> QED
    BY <1>6, <2>1
<1>9. /\ \A i \in 1..L : seq[i] \in ToSet(seq)
      /\ \A x \in ToSet(seq) : \E i \in 1..L : x = seq[i]
  <2>1. ToSet(seq) = {seq[i] : i \in 1..L}
    BY <1>1, Zenon DEF ToSet
  <2> QED
    BY <2>1
<1>10. Adds(all) = AllOf(a, ToSet(seq))
  <2>1. Adds(all) \subseteq AllOf(a, ToSet(seq))
    BY <1>5, <1>7, <1>9 DEF AllOf
  <2>2. AllOf(a, ToSet(seq)) \subseteq Adds(all)
    BY <1>5, <1>8, <1>9 DEF AllOf
  <2> QED
    BY <2>1, <2>2
<1>11. Drops(all) = AllOf(d, ToSet(seq))
  <2>1. Drops(all) \subseteq AllOf(d, ToSet(seq))
    BY <1>5, <1>7, <1>9 DEF AllOf
  <2>2. AllOf(d, ToSet(seq)) \subseteq Drops(all)
    BY <1>5, <1>8, <1>9 DEF AllOf
  <2> QED
    BY <2>1, <2>2
<1> QED
  BY <1>4, <1>10, <1>11 DEF all

LEMMA SinglesAre ==
  ASSUME NEW o \in Object
  PROVE  /\ Add({o}) \in Statement /\ Add({o}).adds = {o} /\ Add({o}).drops = {}
         /\ Drop(o) \in Statement /\ Drop(o).adds = {} /\ Drop(o).drops = {o}
         /\ \A flaw \in {"orphans", "twins"} :
              /\ AddUnless(o, flaw) \in Statement
              /\ AddUnless(o, flaw).adds = {o} /\ AddUnless(o, flaw).drops = {}
BY DEF Add, Drop, AddUnless, Statement

LEMMA InitialSchema ==
  /\ InitialSchemaUp \in Seq(Statement) /\ Drops(InitialSchemaUp) = {}
  /\ Adds(InitialSchemaUp) = TableObjects \union ColumnObjects \union UniqueObjects
                               \union ToSet(LOGICAL_KEY_INDEXES)
  /\ InitialSchemaDown \in Seq(Statement) /\ Adds(InitialSchemaDown) = {}
  /\ Drops(InitialSchemaDown) = ToSet(LOGICAL_KEY_INDEXES) \union TableObjects
<1> DEFINE e == [i \in DOMAIN TABLES |-> CreateTable(TABLES[i])]
           f == [i \in DOMAIN LOGICAL_KEY_INDEXES |-> Add({LOGICAL_KEY_INDEXES[i]})]
           g == [i \in DOMAIN Reverse(LOGICAL_KEY_INDEXES) |-> Drop(Reverse(LOGICAL_KEY_INDEXES)[i])]
           h == [i \in DOMAIN Reverse(TABLES) |-> Drop(Obj("table", Reverse(TABLES)[i], Reverse(TABLES)[i]))]
<1>1. InitialSchemaUp = e \o f /\ InitialSchemaDown = g \o h
  BY Zenon DEF InitialSchemaUp, InitialSchemaDown, Each
<1>2. /\ \A i \in DOMAIN TABLES : TABLES[i] \in TableName
      /\ \A i \in DOMAIN LOGICAL_KEY_INDEXES : LOGICAL_KEY_INDEXES[i] \in Object
  BY TablesAre, ObjectsAre, ElementOfSeq, LenProperties
<1>3. /\ Reverse(LOGICAL_KEY_INDEXES) \in Seq(Object)
      /\ ToSet(Reverse(LOGICAL_KEY_INDEXES)) = ToSet(LOGICAL_KEY_INDEXES)
      /\ \A i \in DOMAIN Reverse(LOGICAL_KEY_INDEXES) : Reverse(LOGICAL_KEY_INDEXES)[i] \in Object
  <2>1. /\ Reverse(LOGICAL_KEY_INDEXES) \in Seq(Object)
        /\ ToSet(Reverse(LOGICAL_KEY_INDEXES)) = ToSet(LOGICAL_KEY_INDEXES)
    BY ObjectsAre, ReversedIs
  <2> QED
    BY <2>1, ElementOfSeq, LenProperties
<1>4. /\ Reverse(TABLES) \in Seq(TableName) /\ ToSet(Reverse(TABLES)) = TableName
      /\ \A i \in DOMAIN Reverse(TABLES) : Reverse(TABLES)[i] \in TableName
  <2>1. Reverse(TABLES) \in Seq(TableName) /\ ToSet(Reverse(TABLES)) = TableName
    BY TablesAre, ReversedIs
  <2> QED
    BY <2>1, ElementOfSeq, LenProperties
<1>5. \A t \in TableName : Obj("table", t, t) \in Object
  BY DEF Object, TableObjects
<1>6. /\ e \in [DOMAIN TABLES -> Statement]
      /\ \A i \in DOMAIN TABLES : e[i] = CreateTable(TABLES[i])
  BY <1>2, CreateTableIs
<1>7. /\ f \in [DOMAIN LOGICAL_KEY_INDEXES -> Statement]
      /\ \A i \in DOMAIN LOGICAL_KEY_INDEXES :
           f[i].adds = {LOGICAL_KEY_INDEXES[i]} /\ f[i].drops = {}
  BY <1>2, SinglesAre
<1>8. /\ g \in [DOMAIN Reverse(LOGICAL_KEY_INDEXES) -> Statement]
      /\ \A i \in DOMAIN Reverse(LOGICAL_KEY_INDEXES) :
           g[i].adds = {} /\ g[i].drops = {Reverse(LOGICAL_KEY_INDEXES)[i]}
  BY <1>3, SinglesAre
<1> DEFINE a == [t \in TableName |-> {}]
           d == [t \in TableName |-> {Obj("table", t, t)}]
<1>9. /\ h \in [DOMAIN Reverse(TABLES) -> Statement]
      /\ \A i \in DOMAIN Reverse(TABLES) :
           h[i].adds = a[Reverse(TABLES)[i]] /\ h[i].drops = d[Reverse(TABLES)[i]]
  BY <1>4, <1>5, SinglesAre
<1>10. \A t \in TableName : a[t] = {} /\ d[t] = {Obj("table", t, t)}
  OBVIOUS
<1> HIDE DEF e, f, g, h, a, d
<1>11. /\ e \in Seq(Statement) /\ Drops(e) = {}
       /\ Adds(e) = TableObjects \union ColumnObjects \union UniqueObjects
  BY <1>6, CreateTables
<1>12. f \in Seq(Statement) /\ Adds(f) = ToSet(LOGICAL_KEY_INDEXES) /\ Drops(f) = {}
  BY <1>7, AddEach, ObjectsAre
<1>13. g \in Seq(Statement) /\ Adds(g) = {} /\ Drops(g) = ToSet(LOGICAL_KEY_INDEXES)
  BY <1>3, <1>8, DropEach
<1>14. h \in Seq(Statement) /\ Adds(h) = {} /\ Drops(h) = TableObjects
  <2>1. h \in Seq(Statement) /\ Adds(h) = AllOf(a, TableName) /\ Drops(h) = AllOf(d, TableName)
    BY <1>4, <1>9, EachIs
  <2>2. AllOf(a, TableName) = {} /\ AllOf(d, TableName) = TableObjects
    BY <1>10 DEF AllOf, TableObjects
  <2> QED
    BY <2>1, <2>2
<1>15. /\ e \o f \in Seq(Statement) /\ Adds(e \o f) = Adds(e) \union Adds(f)
       /\ Drops(e \o f) = Drops(e) \union Drops(f)
  BY <1>11, <1>12, BothAdd
<1>16. /\ g \o h \in Seq(Statement) /\ Adds(g \o h) = Adds(g) \union Adds(h)
       /\ Drops(g \o h) = Drops(g) \union Drops(h)
  BY <1>13, <1>14, BothAdd
<1> QED
  BY <1>1, <1>11, <1>12, <1>13, <1>14, <1>15, <1>16

LEMMA AddSoftDelete ==
  /\ AddSoftDeleteUp \in Seq(Statement)
  /\ Adds(AddSoftDeleteUp) = StampObjects \union PartialObjects
  /\ Drops(AddSoftDeleteUp) = UniqueObjects
  /\ AddSoftDeleteDown \in Seq(Statement) /\ Adds(AddSoftDeleteDown) = UniqueObjects
  /\ Drops(AddSoftDeleteDown) = StampObjects \union PartialObjects
<1> DEFINE T == ToSet(UNIQUE_INDEXES)
           P(u) == Obj("partial", u.table, u.name)
           U(u) == Obj("unique", u.table, u.name)
           S(t) == Obj("column", t, "deleted_at")
           e == [i \in DOMAIN TABLES |-> Add({S(TABLES[i])})]
           du == [i \in DOMAIN UNIQUE_INDEXES |-> Drop(U(UNIQUE_INDEXES[i]))]
           ap == [i \in DOMAIN UNIQUE_INDEXES |-> Add({P(UNIQUE_INDEXES[i])})]
           dp == [i \in DOMAIN UNIQUE_INDEXES |-> Drop(P(UNIQUE_INDEXES[i]))]
           au == [i \in DOMAIN UNIQUE_INDEXES |-> AddUnless(U(UNIQUE_INDEXES[i]), "twins")]
           f == [i \in DOMAIN UNIQUE_INDEXES |-> <<Drop(U(UNIQUE_INDEXES[i])), Add({P(UNIQUE_INDEXES[i])})>>]
           g == [i \in DOMAIN UNIQUE_INDEXES |->
                   <<Drop(P(UNIQUE_INDEXES[i])), AddUnless(U(UNIQUE_INDEXES[i]), "twins")>>]
           h == [i \in DOMAIN TABLES |-> Drop(S(TABLES[i]))]
<1>1. AddSoftDeleteUp = e \o FlattenSeq(f) /\ AddSoftDeleteDown = FlattenSeq(g) \o h
  BY Zenon DEF AddSoftDeleteUp, AddSoftDeleteDown, Each
<1>2. /\ \A i \in DOMAIN TABLES : TABLES[i] \in TableName
      /\ \A i \in DOMAIN UNIQUE_INDEXES : UNIQUE_INDEXES[i] \in T
      /\ Len(UNIQUE_INDEXES) # 0
  <2>1. Len(UNIQUE_INDEXES) # 0
    BY DEF UNIQUE_INDEXES
  <2> QED
    BY <2>1, TablesAre, UniqueIndexesAre, ElementOfSeq, LenProperties
<1>3. /\ \A u \in T : P(u) \in Object /\ U(u) \in Object
      /\ \A t \in TableName : S(t) \in Object
  BY DEF Object, PartialObjects, UniqueObjects, StampObjects
<1> DEFINE pa == [u \in T |-> {P(u)}]
           ua == [u \in T |-> {U(u)}]
           sa == [t \in TableName |-> {S(t)}]
           no == [t \in TableName |-> {}]
<1>4. /\ \A u \in T : pa[u] = {P(u)} /\ ua[u] = {U(u)}
      /\ \A t \in TableName : sa[t] = {S(t)} /\ no[t] = {}
  OBVIOUS
<1> HIDE DEF P, U, S
<1>5. /\ e \in [DOMAIN TABLES -> Statement] /\ h \in [DOMAIN TABLES -> Statement]
      /\ \A i \in DOMAIN TABLES : e[i].adds = sa[TABLES[i]] /\ e[i].drops = no[TABLES[i]]
      /\ \A i \in DOMAIN TABLES : h[i].adds = no[TABLES[i]] /\ h[i].drops = sa[TABLES[i]]
  BY <1>2, <1>3, SinglesAre
<1>6. \A i \in DOMAIN UNIQUE_INDEXES :
        /\ du[i] \in Statement /\ ap[i] \in Statement /\ f[i] = <<du[i], ap[i]>>
        /\ du[i].adds = {} /\ du[i].drops = ua[UNIQUE_INDEXES[i]]
        /\ ap[i].adds = pa[UNIQUE_INDEXES[i]] /\ ap[i].drops = {}
  <2> SUFFICES ASSUME NEW i \in DOMAIN UNIQUE_INDEXES
               PROVE  /\ du[i] \in Statement /\ ap[i] \in Statement
                      /\ du[i].adds = {} /\ du[i].drops = ua[UNIQUE_INDEXES[i]]
                      /\ ap[i].adds = pa[UNIQUE_INDEXES[i]] /\ ap[i].drops = {}
    OBVIOUS
  <2>1. LET u == UNIQUE_INDEXES[i]
        IN  u \in T /\ P(u) \in Object /\ U(u) \in Object
    BY <1>2, <1>3
  <2> QED
    BY <1>4, <2>1, SinglesAre
<1>7. \A i \in DOMAIN UNIQUE_INDEXES :
        /\ dp[i] \in Statement /\ au[i] \in Statement /\ g[i] = <<dp[i], au[i]>>
        /\ dp[i].adds = {} /\ dp[i].drops = pa[UNIQUE_INDEXES[i]]
        /\ au[i].adds = ua[UNIQUE_INDEXES[i]] /\ au[i].drops = {}
  <2> SUFFICES ASSUME NEW i \in DOMAIN UNIQUE_INDEXES
               PROVE  /\ dp[i] \in Statement /\ au[i] \in Statement
                      /\ dp[i].adds = {} /\ dp[i].drops = pa[UNIQUE_INDEXES[i]]
                      /\ au[i].adds = ua[UNIQUE_INDEXES[i]] /\ au[i].drops = {}
    OBVIOUS
  <2>1. LET u == UNIQUE_INDEXES[i]
        IN  u \in T /\ P(u) \in Object /\ U(u) \in Object
    BY <1>2, <1>3
  <2> QED
    BY <1>4, <2>1, SinglesAre
<1> DEFINE D == DOMAIN UNIQUE_INDEXES
<1>8. f \in [D -> Seq(Statement)] /\ g \in [D -> Seq(Statement)]
  <2>1. DOMAIN f = D /\ DOMAIN g = D /\ f = [i \in D |-> f[i]] /\ g = [i \in D |-> g[i]]
    OBVIOUS
  <2> HIDE DEF f, g, du, ap, dp, au
  <2>2. ASSUME NEW i \in D  PROVE f[i] \in Seq(Statement) /\ g[i] \in Seq(Statement)
    <3>1. f[i] = <<du[i], ap[i]>> /\ du[i] \in Statement /\ ap[i] \in Statement
      BY <1>6
    <3>2. g[i] = <<dp[i], au[i]>> /\ dp[i] \in Statement /\ au[i] \in Statement
      BY <1>7
    <3> QED
      BY <3>1, <3>2
  <2> QED
    BY <2>1, <2>2
<1> HIDE DEF e, f, g, h, pa, ua, sa, no, T, du, ap, dp, au
<1>9. /\ e \in Seq(Statement) /\ Adds(e) = AllOf(sa, TableName) /\ Drops(e) = AllOf(no, TableName)
  <2>1. \A i \in DOMAIN TABLES : e[i].adds = sa[TABLES[i]] /\ e[i].drops = no[TABLES[i]]
    BY <1>5
  <2>2. e \in [DOMAIN TABLES -> Statement] /\ TABLES \in Seq(TableName)
    BY <1>5, TablesAre
  <2>3. /\ e \in Seq(Statement)
        /\ Adds(e) = AllOf(sa, ToSet(TABLES)) /\ Drops(e) = AllOf(no, ToSet(TABLES))
    BY <2>1, <2>2, EachIs
  <2> QED
    BY <2>3, TablesAre
<1>10. /\ h \in Seq(Statement) /\ Adds(h) = AllOf(no, TableName) /\ Drops(h) = AllOf(sa, TableName)
  <2>1. \A i \in DOMAIN TABLES : h[i].adds = no[TABLES[i]] /\ h[i].drops = sa[TABLES[i]]
    BY <1>5
  <2>2. h \in [DOMAIN TABLES -> Statement] /\ TABLES \in Seq(TableName)
    BY <1>5, TablesAre
  <2>3. /\ h \in Seq(Statement)
        /\ Adds(h) = AllOf(no, ToSet(TABLES)) /\ Drops(h) = AllOf(sa, ToSet(TABLES))
    BY <2>1, <2>2, EachIs
  <2> QED
    BY <2>3, TablesAre
<1>11. /\ FlattenSeq(f) \in Seq(Statement)
       /\ Adds(FlattenSeq(f)) = AllOf(pa, T) /\ Drops(FlattenSeq(f)) = AllOf(ua, T)
  <2>1. UNIQUE_INDEXES \in Seq(T) /\ Len(UNIQUE_INDEXES) # 0
    BY <1>2, UniqueIndexesAre DEF T
  <2>2. f \in [DOMAIN UNIQUE_INDEXES -> Seq(Statement)]
    BY <1>8
  <2> DEFINE q == UNIQUE_INDEXES
  <2> HIDE DEF q
  <2>3. /\ q \in Seq(T) /\ Len(q) # 0 /\ f \in [DOMAIN q -> Seq(Statement)]
    BY <2>1, <2>2 DEF q
  <2>4. Replaces(f, q, pa, ua)
    <3> SUFFICES ASSUME NEW i \in DOMAIN UNIQUE_INDEXES
                 PROVE  \E s, t \in Statement :
                          /\ f[i] = <<s, t>>
                          /\ s.adds = {} /\ s.drops = ua[UNIQUE_INDEXES[i]]
                          /\ t.adds = pa[UNIQUE_INDEXES[i]] /\ t.drops = {}
      BY Zenon DEF Replaces, q
    <3>1. /\ du[i] \in Statement /\ ap[i] \in Statement /\ f[i] = <<du[i], ap[i]>>
          /\ du[i].adds = {} /\ du[i].drops = ua[UNIQUE_INDEXES[i]]
          /\ ap[i].adds = pa[UNIQUE_INDEXES[i]] /\ ap[i].drops = {}
      BY <1>6
    <3> QED
      BY <3>1
  <2>5. /\ FlattenSeq(f) \in Seq(Statement)
        /\ Adds(FlattenSeq(f)) = AllOf(pa, ToSet(q)) /\ Drops(FlattenSeq(f)) = AllOf(ua, ToSet(q))
    BY <2>3, <2>4, ReplaceEach
  <2> QED
    BY <2>5 DEF q, T
<1>12. /\ FlattenSeq(g) \in Seq(Statement)
       /\ Adds(FlattenSeq(g)) = AllOf(ua, T) /\ Drops(FlattenSeq(g)) = AllOf(pa, T)
  <2>1. UNIQUE_INDEXES \in Seq(T) /\ Len(UNIQUE_INDEXES) # 0
    BY <1>2, UniqueIndexesAre DEF T
  <2>2. g \in [DOMAIN UNIQUE_INDEXES -> Seq(Statement)]
    BY <1>8
  <2> DEFINE q == UNIQUE_INDEXES
  <2> HIDE DEF q
  <2>3. /\ q \in Seq(T) /\ Len(q) # 0 /\ g \in [DOMAIN q -> Seq(Statement)]
    BY <2>1, <2>2 DEF q
  <2>4. Replaces(g, q, ua, pa)
    <3> SUFFICES ASSUME NEW i \in DOMAIN UNIQUE_INDEXES
                 PROVE  \E s, t \in Statement :
                          /\ g[i] = <<s, t>>
                          /\ s.adds = {} /\ s.drops = pa[UNIQUE_INDEXES[i]]
                          /\ t.adds = ua[UNIQUE_INDEXES[i]] /\ t.drops = {}
      BY Zenon DEF Replaces, q
    <3>1. /\ dp[i] \in Statement /\ au[i] \in Statement /\ g[i] = <<dp[i], au[i]>>
          /\ dp[i].adds = {} /\ dp[i].drops = pa[UNIQUE_INDEXES[i]]
          /\ au[i].adds = ua[UNIQUE_INDEXES[i]] /\ au[i].drops = {}
      BY <1>7
    <3> QED
      BY <3>1
  <2>5. /\ FlattenSeq(g) \in Seq(Statement)
        /\ Adds(FlattenSeq(g)) = AllOf(ua, ToSet(q)) /\ Drops(FlattenSeq(g)) = AllOf(pa, ToSet(q))
    BY <2>3, <2>4, ReplaceEach
  <2> QED
    BY <2>5 DEF q, T
<1>13. AllOf(sa, TableName) = StampObjects /\ AllOf(no, TableName) = {}
  BY <1>4 DEF AllOf, StampObjects, S
<1>14. AllOf(pa, T) = PartialObjects
  BY <1>4 DEF AllOf, PartialObjects, P, T
<1>15. AllOf(ua, T) = UniqueObjects
  BY <1>4 DEF AllOf, UniqueObjects, U, T
<1> DEFINE k == FlattenSeq(f)
           l == FlattenSeq(g)
<1> HIDE DEF k, l
<1>16. /\ e \o k \in Seq(Statement) /\ Adds(e \o k) = Adds(e) \union Adds(k)
       /\ Drops(e \o k) = Drops(e) \union Drops(k)
  BY <1>9, <1>11, BothAdd DEF k
<1>17. /\ l \o h \in Seq(Statement) /\ Adds(l \o h) = Adds(l) \union Adds(h)
       /\ Drops(l \o h) = Drops(l) \union Drops(h)
  BY <1>10, <1>12, BothAdd DEF l
<1> QED
  BY <1>1, <1>9, <1>10, <1>11, <1>12, <1>13, <1>14, <1>15, <1>16, <1>17 DEF k, l

LEMMA AddClientStatus ==
  /\ AddClientStatusUp \in Seq(Statement) /\ Drops(AddClientStatusUp) = {}
  /\ Adds(AddClientStatusUp) = ToSet(CLIENT_STATUS)
  /\ AddClientStatusDown \in Seq(Statement) /\ Adds(AddClientStatusDown) = {}
  /\ Drops(AddClientStatusDown) = ToSet(CLIENT_STATUS)
<1> DEFINE c == Reverse(CLIENT_STATUS)
           e == [i \in DOMAIN CLIENT_STATUS |-> Add({CLIENT_STATUS[i]})]
           f == [i \in DOMAIN c |-> Drop(c[i])]
<1>1. AddClientStatusUp = e /\ AddClientStatusDown = f
  BY Zenon DEF AddClientStatusUp, AddClientStatusDown, Each
<1>2. c \in Seq(Object) /\ ToSet(c) = ToSet(CLIENT_STATUS)
  BY ObjectsAre, ReversedIs
<1> HIDE DEF c
<1>3. /\ \A i \in DOMAIN CLIENT_STATUS : CLIENT_STATUS[i] \in Object
      /\ \A i \in DOMAIN c : c[i] \in Object
  BY <1>2, ObjectsAre, ElementOfSeq, LenProperties
<1>4. /\ e \in [DOMAIN CLIENT_STATUS -> Statement]
      /\ \A i \in DOMAIN CLIENT_STATUS : e[i].adds = {CLIENT_STATUS[i]} /\ e[i].drops = {}
  BY <1>3, SinglesAre
<1>5. /\ f \in [DOMAIN c -> Statement]
      /\ \A i \in DOMAIN c : f[i].adds = {} /\ f[i].drops = {c[i]}
  BY <1>3, SinglesAre
<1> HIDE DEF e, f
<1>6. e \in Seq(Statement) /\ Adds(e) = ToSet(CLIENT_STATUS) /\ Drops(e) = {}
  <2>1. CLIENT_STATUS \in Seq(Object)
    BY ObjectsAre
  <2> QED
    BY <1>4, <2>1, AddEach
<1>7. f \in Seq(Statement) /\ Adds(f) = {} /\ Drops(f) = ToSet(c)
  BY <1>2, <1>5, DropEach
<1> QED
  BY <1>1, <1>2, <1>6, <1>7

LEMMA AddForeignKeys ==
  /\ AddForeignKeysUp \in Seq(Statement) /\ Drops(AddForeignKeysUp) = {}
  /\ Adds(AddForeignKeysUp) = KeyObjects \union ToSet(NEW_INDEXES)
  /\ AddForeignKeysDown \in Seq(Statement) /\ Adds(AddForeignKeysDown) = {}
  /\ Drops(AddForeignKeysDown) = KeyObjects \union ToSet(NEW_INDEXES)
<1> DEFINE T == ToSet(FOREIGN_KEYS)
           K(k) == Obj("fk", k.table, k.name)
           n == Reverse(NEW_INDEXES)
           r == Reverse(FOREIGN_KEYS)
           e == [i \in DOMAIN FOREIGN_KEYS |-> AddUnless(K(FOREIGN_KEYS[i]), "orphans")]
           f == [i \in DOMAIN NEW_INDEXES |-> Add({NEW_INDEXES[i]})]
           g == [i \in DOMAIN n |-> Drop(n[i])]
           h == [i \in DOMAIN r |-> Drop(K(r[i]))]
<1>1. AddForeignKeysUp = e \o f /\ AddForeignKeysDown = g \o h
  BY Zenon DEF AddForeignKeysUp, AddForeignKeysDown, Each
<1>2. FOREIGN_KEYS \in Seq(T) /\ NEW_INDEXES \in Seq(Object)
  BY ForeignKeysAre, ObjectsAre
<1>3. n \in Seq(Object) /\ ToSet(n) = ToSet(NEW_INDEXES)
  BY <1>2, ReversedIs
<1>4. r \in Seq(T) /\ ToSet(r) = T
  <2> DEFINE k == FOREIGN_KEYS
  <2>1. k \in Seq(T) /\ ToSet(k) = T
    BY <1>2
  <2> HIDE DEF k, T
  <2> QED
    BY <2>1, ReversedIs DEF k
<1> DEFINE ka == [k \in T |-> {K(k)}]
           no == [k \in T |-> {}]
<1>5. \A k \in T : ka[k] = {K(k)} /\ no[k] = {} /\ K(k) \in Object
  BY DEF Object, KeyObjects
<1> HIDE DEF K, n, r
<1>6. /\ \A i \in DOMAIN FOREIGN_KEYS : FOREIGN_KEYS[i] \in T
      /\ \A i \in DOMAIN NEW_INDEXES : NEW_INDEXES[i] \in Object
  BY <1>2, ElementOfSeq, LenProperties
<1>7. (\A i \in DOMAIN n : n[i] \in Object) /\ (\A i \in DOMAIN r : r[i] \in T)
  BY <1>3, <1>4, ElementOfSeq, LenProperties
<1> HIDE DEF T, ka, no
<1>8. /\ e \in [DOMAIN FOREIGN_KEYS -> Statement]
      /\ \A i \in DOMAIN FOREIGN_KEYS :
           e[i].adds = ka[FOREIGN_KEYS[i]] /\ e[i].drops = no[FOREIGN_KEYS[i]]
  BY <1>5, <1>6, SinglesAre
<1>9. /\ f \in [DOMAIN NEW_INDEXES -> Statement]
      /\ \A i \in DOMAIN NEW_INDEXES : f[i].adds = {NEW_INDEXES[i]} /\ f[i].drops = {}
  BY <1>6, SinglesAre
<1>10. /\ g \in [DOMAIN n -> Statement]
       /\ \A i \in DOMAIN n : g[i].adds = {} /\ g[i].drops = {n[i]}
  BY <1>7, SinglesAre
<1>11. /\ h \in [DOMAIN r -> Statement]
       /\ \A i \in DOMAIN r : h[i].adds = no[r[i]] /\ h[i].drops = ka[r[i]]
  BY <1>5, <1>7, SinglesAre
<1> HIDE DEF e, f, g, h
<1>12. e \in Seq(Statement) /\ Adds(e) = AllOf(ka, T) /\ Drops(e) = AllOf(no, T)
  <2>1. T = ToSet(FOREIGN_KEYS)
    BY DEF T
  <2> DEFINE k == FOREIGN_KEYS
  <2>2. /\ k \in Seq(T) /\ e \in [DOMAIN k -> Statement]
        /\ \A i \in DOMAIN k : e[i].adds = ka[k[i]] /\ e[i].drops = no[k[i]]
    BY <1>2, <1>8
  <2> HIDE DEF k
  <2>3. e \in Seq(Statement) /\ Adds(e) = AllOf(ka, ToSet(k)) /\ Drops(e) = AllOf(no, ToSet(k))
    BY <2>2, EachIs
  <2> QED
    BY <2>1, <2>3 DEF k
<1>13. f \in Seq(Statement) /\ Adds(f) = ToSet(NEW_INDEXES) /\ Drops(f) = {}
  BY <1>2, <1>9, AddEach
<1>14. g \in Seq(Statement) /\ Adds(g) = {} /\ Drops(g) = ToSet(n)
  BY <1>3, <1>10, DropEach
<1>15. h \in Seq(Statement) /\ Adds(h) = AllOf(no, T) /\ Drops(h) = AllOf(ka, T)
  BY <1>4, <1>11, EachIs
<1>16. AllOf(ka, T) = KeyObjects /\ AllOf(no, T) = {}
  BY <1>5 DEF AllOf, KeyObjects, K, T
<1>17. /\ e \o f \in Seq(Statement) /\ Adds(e \o f) = Adds(e) \union Adds(f)
       /\ Drops(e \o f) = Drops(e) \union Drops(f)
  <2>1. e \in Seq(Statement) /\ f \in Seq(Statement)
    BY <1>12, <1>13
  <2> QED
    BY <2>1, BothAdd
<1>18. /\ g \o h \in Seq(Statement) /\ Adds(g \o h) = Adds(g) \union Adds(h)
       /\ Drops(g \o h) = Drops(g) \union Drops(h)
  <2>1. g \in Seq(Statement) /\ h \in Seq(Statement)
    BY <1>14, <1>15
  <2> QED
    BY <2>1, BothAdd
<1> QED
  BY <1>1, <1>3, <1>12, <1>13, <1>14, <1>15, <1>16, <1>17, <1>18

LEMMA DropClientVehicleIds ==
  /\ DropClientVehicleIdsUp \in Seq(Statement)
  /\ Adds(DropClientVehicleIdsUp) = {} /\ Drops(DropClientVehicleIdsUp) = {VEHICLE_IDS}
  /\ DropClientVehicleIdsDown \in Seq(Statement)
  /\ Adds(DropClientVehicleIdsDown) = {VEHICLE_IDS} /\ Drops(DropClientVehicleIdsDown) = {}
<1> DEFINE s == Drop(VEHICLE_IDS)
           t == Add({VEHICLE_IDS})
<1>1. DropClientVehicleIdsUp = <<s>> /\ DropClientVehicleIdsDown = <<t>>
  BY Zenon DEF DropClientVehicleIdsUp, DropClientVehicleIdsDown
<1>2. /\ s \in Statement /\ s.adds = {} /\ s.drops = {VEHICLE_IDS}
      /\ t \in Statement /\ t.adds = {VEHICLE_IDS} /\ t.drops = {}
  BY SinglesAre DEF Object
<1> HIDE DEF s, t
<1>3. \A x : Adds(<<x>>) = x.adds /\ Drops(<<x>>) = x.drops
  <2>1. \A x : Len(<<x>>) = 1 /\ <<x>>[1] = x
    OBVIOUS
  <2>2. 1..1 = {1}
    OBVIOUS
  <2> QED
    BY <2>1, <2>2 DEF Adds, Drops, AddsTo, DropsTo
<1>4. <<s>> \in Seq(Statement) /\ <<t>> \in Seq(Statement)
  BY <1>2
<1>5. /\ Adds(<<s>>) = s.adds /\ Drops(<<s>>) = s.drops
      /\ Adds(<<t>>) = t.adds /\ Drops(<<t>>) = t.drops
  BY <1>3
<1> QED
  BY <1>1, <1>2, <1>4, <1>5

\* What a migration creates, and what it drops.
Added(m) == Adds(Up[m])
Removed(m) == Drops(Up[m])

LEMMA AddedAre ==
  /\ Added(1) = TableObjects \union ColumnObjects \union UniqueObjects
                  \union ToSet(LOGICAL_KEY_INDEXES)
  /\ Removed(1) = {}
  /\ Added(2) = StampObjects \union PartialObjects /\ Removed(2) = UniqueObjects
  /\ Added(3) = ToSet(CLIENT_STATUS) /\ Removed(3) = {}
  /\ Added(4) = KeyObjects \union ToSet(NEW_INDEXES) /\ Removed(4) = {}
  /\ Added(5) = {} /\ Removed(5) = {VEHICLE_IDS}
<1>1. /\ Up[1] = InitialSchemaUp /\ Up[2] = AddSoftDeleteUp /\ Up[3] = AddClientStatusUp
      /\ Up[4] = AddForeignKeysUp /\ Up[5] = DropClientVehicleIdsUp
  BY DEF Up
<1> QED
  BY <1>1, InitialSchema, AddSoftDelete, AddClientStatus, AddForeignKeys, DropClientVehicleIds
     DEF Added, Removed

LEMMA KindsAre ==
  /\ \A o \in TableObjects : o.kind = "table" /\ o.on \in TableName
  /\ \A o \in ColumnObjects : o.kind = "column" /\ o.on \in TableName /\ o.name \in COLUMNS[o.on]
  /\ \A o \in StampObjects : o.kind = "column" /\ o.on \in TableName /\ o.name = "deleted_at"
  /\ \A o \in UniqueObjects : o.kind = "unique" /\ o.on \in TableName
  /\ \A o \in PartialObjects : o.kind = "partial" /\ o.on \in TableName
  /\ \A o \in KeyObjects : o.kind = "fk" /\ o.on \in TableName
<1>1. \A u \in ToSet(UNIQUE_INDEXES) : u.table \in TableName
  BY UniqueIndexesAre DEF TableName
<1>2. \A k \in ToSet(FOREIGN_KEYS) : k.table \in TableName
  BY ForeignKeysAre DEF TableName
<1>3. \A o \in TableObjects : o.kind = "table" /\ o.on \in TableName
  BY ObjIs DEF TableObjects
<1>4. \A o \in ColumnObjects : o.kind = "column" /\ o.on \in TableName /\ o.name \in COLUMNS[o.on]
  BY ObjIs DEF ColumnObjects
<1>5. \A o \in StampObjects : o.kind = "column" /\ o.on \in TableName /\ o.name = "deleted_at"
  BY ObjIs DEF StampObjects
<1>6. \A o \in UniqueObjects : o.kind = "unique" /\ o.on \in TableName
  BY <1>1, ObjIs DEF UniqueObjects
<1>7. \A o \in PartialObjects : o.kind = "partial" /\ o.on \in TableName
  BY <1>1, ObjIs DEF PartialObjects
<1>8. \A o \in KeyObjects : o.kind = "fk" /\ o.on \in TableName
  BY <1>2, ObjIs DEF KeyObjects
<1> QED
  BY <1>3, <1>4, <1>5, <1>6, <1>7, <1>8

LEMMA OthersAre ==
  /\ \A o \in ToSet(LOGICAL_KEY_INDEXES) : o.kind = "index" /\ o.on \in TableName
  /\ \A o \in ToSet(CLIENT_STATUS) :
       \/ o = Obj("column", "clients", "status")
       \/ o.kind = "check" /\ o.on \in TableName
  /\ \A o \in ToSet(NEW_INDEXES) :
       o.kind = "index" /\ o.on \in TableName /\ o \notin ToSet(LOGICAL_KEY_INDEXES)
  /\ VEHICLE_IDS \in ColumnObjects /\ VEHICLE_IDS.kind = "column"
<1>1. \A o \in ToSet(LOGICAL_KEY_INDEXES) : o.kind = "index" /\ o.on \in TableName
  BY ObjectsAre, ObjIs DEF TableName
<1>2. \A o \in ToSet(CLIENT_STATUS) :
        \/ o = Obj("column", "clients", "status")
        \/ o.kind = "check" /\ o.on \in TableName
  BY ObjectsAre, ObjIs DEF TableName
<1>3. \A o \in ToSet(LOGICAL_KEY_INDEXES) :
        o.name \notin {"IDX_service_orders_vehicle_id", "IDX_service_orders_budget_id"}
  BY ObjectsAre, ObjIs
<1>4. \A o \in ToSet(NEW_INDEXES) :
        /\ o.kind = "index" /\ o.on \in TableName
        /\ o.name \in {"IDX_service_orders_vehicle_id", "IDX_service_orders_budget_id"}
  BY ObjectsAre, ObjIs DEF TableName
<1>5. VEHICLE_IDS \in ColumnObjects /\ VEHICLE_IDS.kind = "column"
  <2>1. "clients" \in TableName /\ "vehicle_ids" \in COLUMNS["clients"]
    BY ColumnsAre DEF TableName
  <2> QED
    BY <2>1, ObjIs DEF VEHICLE_IDS, ColumnObjects
<1> QED
  BY <1>1, <1>2, <1>3, <1>4, <1>5

\* No two migrations create the same, or drop the same; what one drops the first
\* of them created, and it is no table.
LEMMA AddedApart ==
  ASSUME NEW m \in 1..5, NEW k \in 1..5, m # k
  PROVE  Added(m) \intersect Added(k) = {} /\ Removed(m) \intersect Removed(k) = {}
<1>1. /\ Added(1) \intersect Added(2) = {} /\ Added(1) \intersect Added(3) = {}
      /\ Added(1) \intersect Added(4) = {} /\ Added(2) \intersect Added(3) = {}
      /\ Added(2) \intersect Added(4) = {} /\ Added(3) \intersect Added(4) = {}
  <2>1. \A o \in Added(1) : /\ o.kind \in {"table", "column", "unique", "index"}
                            /\ o.kind = "column" => o.on \in TableName /\ o.name \in COLUMNS[o.on]
                            /\ o.kind = "index" => o \in ToSet(LOGICAL_KEY_INDEXES)
    BY AddedAre, KindsAre, OthersAre
  <2>2. \A o \in Added(2) : /\ o.kind \in {"column", "partial"}
                            /\ o.kind = "column" => o.name = "deleted_at"
    BY AddedAre, KindsAre
  <2>3. \A o \in Added(3) : /\ o.kind \in {"column", "check"}
                            /\ o.kind = "column" => o.on = "clients" /\ o.name = "status"
    BY AddedAre, OthersAre, ObjIs
  <2>4. \A o \in Added(4) : /\ o.kind \in {"fk", "index"}
                            /\ o.kind = "index" => o \notin ToSet(LOGICAL_KEY_INDEXES)
    BY AddedAre, KindsAre, OthersAre
  <2>5. /\ \A t \in TableName : "deleted_at" \notin COLUMNS[t]
        /\ "status" \notin COLUMNS["clients"]
    BY ColumnsAre
  <2>6. Added(1) \intersect Added(2) = {}
    BY <2>1, <2>2, <2>5
  <2>7. Added(1) \intersect Added(3) = {}
    BY <2>1, <2>3, <2>5
  <2>8. Added(1) \intersect Added(4) = {}
    BY <2>1, <2>4
  <2>9. Added(2) \intersect Added(3) = {}
    BY <2>2, <2>3
  <2>10. Added(2) \intersect Added(4) = {} /\ Added(3) \intersect Added(4) = {}
    BY <2>2, <2>3, <2>4
  <2> QED
    BY <2>6, <2>7, <2>8, <2>9, <2>10
<1>2. Added(5) = {}
  BY AddedAre
<1>3. Removed(1) = {} /\ Removed(3) = {} /\ Removed(4) = {} /\ Removed(2) \intersect Removed(5) = {}
  <2>1. VEHICLE_IDS \notin UniqueObjects
    BY KindsAre, OthersAre
  <2> QED
    BY <2>1, AddedAre
<1>4. m \in {1, 2, 3, 4, 5} /\ k \in {1, 2, 3, 4, 5}
  OBVIOUS
<1>5. Added(m) \intersect Added(k) = {}
  BY <1>1, <1>2, <1>4
<1>6. Removed(m) \intersect Removed(k) = {}
  BY <1>3, <1>4
<1> QED
  BY <1>5, <1>6

LEMMA RemovedAre ==
  ASSUME NEW m \in 1..5
  PROVE  /\ Removed(m) \subseteq Added(1) /\ Removed(1) = {}
         /\ \A o \in Removed(m) : o.kind # "table"
         /\ \A o \in Added(m) : o.on \in TableName
         /\ m # 1 => (\A o \in Added(m) : o.kind # "table") /\ (Added(m) # {} \/ Removed(m) # {})
<1>1. m \in {1, 2, 3, 4, 5}
  OBVIOUS
<1>2. /\ Removed(m) \subseteq Added(1) /\ Removed(1) = {} /\ \A o \in Removed(m) : o.kind # "table"
  <2>1. Removed(m) \subseteq UniqueObjects \union {VEHICLE_IDS} /\ Removed(1) = {}
    BY <1>1, AddedAre
  <2>2. UniqueObjects \union {VEHICLE_IDS} \subseteq Added(1)
    BY AddedAre, OthersAre
  <2>3. \A o \in UniqueObjects \union {VEHICLE_IDS} : o.kind # "table"
    BY KindsAre, OthersAre
  <2> QED
    BY <2>1, <2>2, <2>3
<1>3. \A o \in Added(1) : o.on \in TableName
  BY AddedAre, KindsAre, OthersAre
<1>4. \A o \in Added(2) : o.on \in TableName /\ o.kind # "table"
  BY AddedAre, KindsAre
<1>5. \A o \in Added(3) : o.on \in TableName /\ o.kind # "table"
  <2>1. "clients" \in TableName
    BY DEF TableName
  <2> QED
    BY <2>1, AddedAre, OthersAre, ObjIs
<1>6. \A o \in Added(4) : o.on \in TableName /\ o.kind # "table"
  BY AddedAre, KindsAre, OthersAre
<1>7. Added(5) = {} /\ Removed(5) # {}
  BY AddedAre
<1>8. Added(2) # {} /\ Added(3) # {} /\ Added(4) # {}
  <2>1. StampObjects # {}
    BY DEF StampObjects, TableName
  <2>2. ToSet(CLIENT_STATUS) # {} /\ ToSet(NEW_INDEXES) # {}
    BY ObjectsAre
  <2> QED
    BY <2>1, <2>2, AddedAre
<1>9. \A o \in Added(m) : o.on \in TableName
  BY <1>1, <1>3, <1>4, <1>5, <1>6, <1>7
<1>10. m # 1 => (\A o \in Added(m) : o.kind # "table") /\ (Added(m) # {} \/ Removed(m) # {})
  BY <1>1, <1>4, <1>5, <1>6, <1>7, <1>8
<1> QED
  BY <1>2, <1>9, <1>10

\* Every migration, both ways: undone, it drops what it created and creates what it
\* dropped, but for the first, which drops the tables with all there is on them.
LEMMA MigrationsAre ==
  ASSUME NEW m \in 1..5
  PROVE  /\ Up[m] \in Seq(Statement) /\ Plain(Up[m])
         /\ Down[m] \in Seq(Statement) /\ Plain(Down[m])
         /\ m # 1 => Adds(Down[m]) = Removed(m) /\ Drops(Down[m]) = Added(m)
         /\ m = 1 => Adds(Down[m]) = {} /\ TableObjects \subseteq Drops(Down[m])
<1>1. /\ Up[1] = InitialSchemaUp /\ Up[2] = AddSoftDeleteUp /\ Up[3] = AddClientStatusUp
      /\ Up[4] = AddForeignKeysUp /\ Up[5] = DropClientVehicleIdsUp
      /\ Down[1] = InitialSchemaDown /\ Down[2] = AddSoftDeleteDown
      /\ Down[3] = AddClientStatusDown /\ Down[4] = AddForeignKeysDown
      /\ Down[5] = DropClientVehicleIdsDown
  BY DEF Up, Down
<1>2. m \in {1, 2, 3, 4, 5}
  OBVIOUS
<1>3. Up[m] \in Seq(Statement) /\ Down[m] \in Seq(Statement)
  BY <1>1, <1>2, InitialSchema, AddSoftDelete, AddClientStatus, AddForeignKeys, DropClientVehicleIds
<1>4. m # 1 => Adds(Down[m]) = Removed(m) /\ Drops(Down[m]) = Added(m)
  BY <1>1, <1>2, AddedAre, AddSoftDelete, AddClientStatus, AddForeignKeys, DropClientVehicleIds
<1>5. Adds(Down[1]) = {} /\ TableObjects \subseteq Drops(Down[1])
  BY <1>1, InitialSchema
<1>6. Added(m) \intersect Removed(m) = {} /\ \A o \in Removed(m) : o.kind # "table"
  BY RemovedAre, AddedApart
<1>7. Plain(Up[m])
  BY <1>6 DEF Plain, Added, Removed
<1>8. Plain(Down[m])
  <2>1. CASE m = 1
    BY <1>5, <2>1 DEF Plain
  <2>2. CASE m # 1
    <3>1. \A o \in Added(m) : o.kind # "table"
      BY <2>2, RemovedAre
    <3> QED
      BY <1>4, <1>6, <2>2, <3>1 DEF Plain
  <2> QED
    BY <2>1, <2>2
<1> QED
  BY <1>3, <1>4, <1>5, <1>7, <1>8

\* The schema that a set of migrations makes, in whatever order after the first.
Created(M) == UNION {Added(m) : m \in M}
Gone(M) == UNION {Removed(m) : m \in M}
Closed(M) == Created(M) \ Gone(M)

LEMMA ClosedMore ==
  ASSUME NEW M \in SUBSET (1..5), NEW m \in (1..5) \ M, m = 1 => M = {}
  PROVE  Cleared(Closed(M), Removed(m)) \union Added(m) = Closed(M \union {m})
<1>1. Cleared(Closed(M), Removed(m)) = Closed(M) \ Removed(m)
  BY RemovedAre DEF Cleared
<1>2. /\ Created(M \union {m}) = Created(M) \union Added(m)
      /\ Gone(M \union {m}) = Gone(M) \union Removed(m)
  BY DEF Created, Gone
<1>3. Added(m) \intersect Removed(m) = {}
  BY RemovedAre, AddedApart
<1>4. ASSUME NEW k \in M  PROVE Added(m) \intersect Removed(k) = {}
  <2>1. m # 1 /\ Removed(k) \subseteq Added(1) /\ Added(m) \intersect Added(1) = {}
    BY RemovedAre, AddedApart
  <2> QED
    BY <2>1
<1>5. Added(m) \intersect Gone(M) = {}
  BY <1>4 DEF Gone
<1> QED
  BY <1>1, <1>2, <1>3, <1>5 DEF Closed

LEMMA ClosedLess ==
  ASSUME NEW M \in SUBSET (1..5), NEW m \in M, 1 \in M, m # 1
  PROVE  Cleared(Closed(M), Added(m)) \union Removed(m) = Closed(M \ {m})
<1> DEFINE N == M \ {m}
<1>1. Cleared(Closed(M), Added(m)) = Closed(M) \ Added(m)
  BY RemovedAre DEF Cleared
<1>2. Created(M) = Created(N) \union Added(m) /\ Gone(M) = Gone(N) \union Removed(m)
  BY DEF Created, Gone
<1>3. \A k \in N : Added(m) \intersect Added(k) = {} /\ Removed(m) \intersect Removed(k) = {}
  BY AddedApart
<1>4. Added(m) \intersect Created(N) = {} /\ Removed(m) \intersect Gone(N) = {}
  BY <1>3 DEF Created, Gone
<1>5. Removed(m) \subseteq Created(N)
  <2>1. 1 \in N /\ Removed(m) \subseteq Added(1)
    BY RemovedAre
  <2> QED
    BY <2>1 DEF Created
<1> HIDE DEF N
<1>6. Closed(N) = (Closed(M) \ Added(m)) \union Removed(m)
  BY <1>2, <1>4, <1>5 DEF Closed
<1> QED
  BY <1>1, <1>6 DEF N

LEMMA ClosedNone == Closed({}) = {}
  BY DEF Closed, Created, Gone

\* What the journal says of the schema: each migration at most once, the first of
\* them first, and the schema is the one they make together.
IsJournal(j) == j \in Seq(1..5) /\ IsInjective(j) /\ (j # <<>> => j[1] = 1)
Agrees(j, db) == IsJournal(j) /\ db = Closed(ToSet(j))

\* A migration that is carried out was not recorded, and comes after the first.
LEMMA AddOne ==
  ASSUME NEW j, NEW db, Agrees(j, db), NEW m \in 1..5, Execute(Up[m], db).ok
  PROVE  Agrees(j \o <<m>>, Execute(Up[m], db).db)
<1> DEFINE M == ToSet(j)
<1>1. /\ j \in Seq(1..5) /\ Len(j) \in Nat /\ DOMAIN j = 1..Len(j) /\ M \subseteq 1..5
      /\ db = Closed(M)
  BY LenProperties, ElementOfSeq DEF Agrees, IsJournal, ToSet
<1>2. /\ Removed(m) \subseteq db /\ Added(m) \intersect db = {}
      /\ \A o \in Added(m) : o.kind # "table" => Obj("table", o.on, o.on) \in db \union Added(m)
      /\ Execute(Up[m], db).db = Cleared(db, Removed(m)) \union Added(m)
  <2>1. Len(Up[m]) \in Nat /\ Plain(Up[m])
    BY MigrationsAre, LenProperties
  <2> QED
    BY <2>1, ExecutePlain DEF Added, Removed
<1> HIDE DEF M
<1>3. m \notin M
  <2> SUFFICES ASSUME m \in M PROVE FALSE
    OBVIOUS
  <2>1. Removed(m) \subseteq Gone(M) /\ Added(m) \subseteq Created(M)
    BY DEF Gone, Created
  <2>2. Removed(m) = {}
    BY <1>1, <1>2, <2>1 DEF Closed
  <2>3. Added(m) \subseteq Gone(M)
    BY <1>1, <1>2, <2>1 DEF Closed
  <2>4. CASE m = 1
    <3>1. PICK o \in Added(1) : o.kind = "table"
      <4>1. TableObjects # {} /\ TableObjects \subseteq Added(1)
        BY AddedAre DEF TableObjects, TableName
      <4> QED
        BY <4>1, KindsAre
    <3>2. PICK k \in M : o \in Removed(k)
      BY <2>3, <2>4, <3>1 DEF Gone
    <3> QED
      BY <1>1, <3>1, <3>2, RemovedAre
  <2>5. CASE m # 1
    <3>1. PICK o \in Added(m) : TRUE
      BY <2>2, <2>5, RemovedAre
    <3>2. PICK k \in M : o \in Removed(k)
      BY <2>3, <3>1 DEF Gone
    <3>3. k \in 1..5 /\ Removed(k) \subseteq Added(1) /\ Added(m) \intersect Added(1) = {}
      BY <1>1, <2>5, RemovedAre, AddedApart
    <3> QED
      BY <3>1, <3>2, <3>3
  <2> QED
    BY <2>4, <2>5
<1>4. j # <<>> => Len(j) \in Nat \ {0} /\ j[1] = 1 /\ 1 \in M
  <2> SUFFICES ASSUME j # <<>> PROVE Len(j) \in Nat \ {0} /\ j[1] = 1 /\ 1 \in M
    OBVIOUS
  <2>1. Len(j) \in Nat \ {0}
    BY <1>1, EmptySeq
  <2>2. j[1] = 1
    BY DEF Agrees, IsJournal
  <2> QED
    BY <1>1, <2>1, <2>2 DEF M, ToSet
<1>5. j = <<>> => M = {}
  BY DEF M, ToSet
<1>6. M = {} => m = 1
  <2> SUFFICES ASSUME M = {}, m # 1 PROVE FALSE
    OBVIOUS
  <2>1. db = {} /\ Removed(m) = {}
    BY <1>1, <1>2, ClosedNone
  <2>2. PICK o \in Added(m) : o.kind # "table"
    BY <2>1, RemovedAre
  <2>3. Obj("table", o.on, o.on) \in Added(m)
    BY <1>2, <2>1, <2>2
  <2> QED
    BY <2>3, RemovedAre, ObjIs
<1>7. m = 1 => M = {}
  BY <1>3, <1>4, <1>5
<1>8. Execute(Up[m], db).db = Closed(M \union {m})
  BY <1>1, <1>2, <1>3, <1>7, ClosedMore
<1> DEFINE k == j \o <<m>>
<1>9. /\ k \in Seq(1..5) /\ ToSet(k) = M \union {m} /\ Len(k) = Len(j) + 1 /\ DOMAIN k = 1..Len(j) + 1
      /\ k[Len(j) + 1] = m /\ \A i \in 1..Len(j) : k[i] = j[i]
  <2>1. <<m>> \in Seq(1..5) /\ ToSet(<<m>>) = {m} /\ Len(<<m>>) = 1 /\ <<m>>[1] = m
    BY DEF ToSet
  <2>2. k \in Seq(1..5) /\ ToSet(k) = M \union {m}
    <3> DEFINE one == <<m>>
    <3>1. one \in Seq(1..5) /\ ToSet(one) = {m}
      BY <2>1
    <3> HIDE DEF one
    <3>2. j \o one \in Seq(1..5) /\ ToSet(j \o one) = ToSet(j) \union ToSet(one)
      BY <1>1, <3>1, Joined
    <3> QED
      BY <3>1, <3>2 DEF M, one
  <2>3. /\ Len(k) = Len(j) + 1 /\ DOMAIN k = 1..Len(k) /\ k[Len(j) + 1] = m
        /\ \A i \in 1..Len(j) : k[i] = j[i]
    <3>1. /\ Len(k) = Len(j) + 1
          /\ \A i \in 1..Len(k) : k[i] = IF i <= Len(j) THEN j[i] ELSE <<m>>[i - Len(j)]
      BY <1>1, <2>1, ConcatProperties
    <3>2. DOMAIN k = 1..Len(k)
      BY <2>2, LenProperties
    <3> HIDE DEF k
    <3> QED
      BY <1>1, <2>1, <3>1, <3>2
  <2> QED
    BY <2>2, <2>3
<1> HIDE DEF k
<1>10. IsInjective(k)
  <2>1. \A a, b \in 1..Len(j) : j[a] = j[b] => a = b
    BY <1>1 DEF Agrees, IsJournal, IsInjective
  <2>2. \A a \in 1..Len(j) : j[a] # m
    BY <1>1, <1>3 DEF M, ToSet
  <2> QED
    BY <1>1, <1>9, <2>1, <2>2 DEF IsInjective
<1>11. k[1] = 1
  BY <1>1, <1>4, <1>5, <1>6, <1>9
<1> QED
  BY <1>8, <1>9, <1>10, <1>11 DEF Agrees, IsJournal, k

\* The last of the journal, undone, leaves what the others make.
LEMMA TakeLast ==
  ASSUME NEW j, NEW db, Agrees(j, db), j # <<>>, Execute(Down[Last(j)], db).ok
  PROVE  Agrees(Front(j), Execute(Down[Last(j)], db).db)
<1> DEFINE L == Len(j)
           m == j[L]
           k == Front(j)
           M == ToSet(j)
<1>1. /\ j \in Seq(1..5) /\ L \in Nat \ {0} /\ DOMAIN j = 1..L /\ M \subseteq 1..5
      /\ db = Closed(M) /\ m \in M /\ j[1] = 1 /\ 1 \in M
      /\ \A a, b \in 1..L : j[a] = j[b] => a = b
      /\ \A a \in 1..L : j[a] \in M /\ j[a] \in 1..5
  BY LenProperties, ElementOfSeq, EmptySeq DEF Agrees, IsJournal, ToSet, IsInjective
<1>2. Last(j) = m
  BY DEF Last
<1>3. /\ k \in Seq(1..5) /\ Len(k) = L - 1 /\ DOMAIN k = 1..(L - 1)
      /\ \A i \in 1..(L - 1) : k[i] = j[i]
  <2>1. k = SubSeq(j, 1, L - 1)
    BY DEF Front
  <2>2. \A i \in 1..(L - 1) : j[i] \in 1..5
    BY <1>1
  <2> QED
    BY <1>1, <2>1, <2>2, SubSeqProperties
<1>4. /\ Len(Down[m]) \in Nat /\ Plain(Down[m])
      /\ m # 1 => Adds(Down[m]) = Removed(m) /\ Drops(Down[m]) = Added(m)
      /\ m = 1 => Adds(Down[m]) = {} /\ TableObjects \subseteq Drops(Down[m])
  BY <1>1, MigrationsAre, LenProperties
<1>5. Execute(Down[m], db).ok
  BY <1>2
<1>6. Execute(Down[m], db).db = Cleared(db, Drops(Down[m])) \union Adds(Down[m])
  BY <1>4, <1>5, ExecutePlain
<1>7. ToSet(k) = M \ {m}
  <2>1. ASSUME NEW x \in ToSet(k)  PROVE x \in M \ {m}
    <3>1. PICK i \in 1..(L - 1) : x = j[i]
      BY <1>3, <2>1 DEF ToSet
    <3> QED
      BY <1>1, <3>1
  <2>2. ASSUME NEW x \in M \ {m}  PROVE x \in ToSet(k)
    <3>1. PICK i \in 1..L : x = j[i]
      BY <1>1 DEF ToSet
    <3>2. i \in 1..(L - 1)
      BY <1>1, <2>2, <3>1
    <3> QED
      BY <1>3, <3>1, <3>2 DEF ToSet
  <2> QED
    BY <2>1, <2>2
<1> HIDE DEF k, M
<1>8. Execute(Down[m], db).db = Closed(M \ {m})
  <2>1. CASE m # 1
    BY <1>1, <1>4, <1>6, <2>1, ClosedLess
  <2>2. CASE m = 1
    <3>1. L = 1
      BY <1>1, <2>2
    <3>2. M = {1}
      BY <1>1, <3>1 DEF M, ToSet
    <3>3. Closed({1}) \subseteq Added(1) /\ M \ {m} = {}
      BY <2>2, <3>2 DEF Closed, Created
    <3>4. \A o \in db : o.on \in TableName
      BY <1>1, <3>2, <3>3, RemovedAre
    <3>5. ASSUME NEW o \in db  PROVE \E d \in Drops(Down[m]) : d.kind = "table" /\ o.on = d.on
      <4>1. Obj("table", o.on, o.on) \in TableObjects
        BY <3>4 DEF TableObjects
      <4> QED
        BY <1>4, <2>2, <4>1, ObjIs
    <3>6. Cleared(db, Drops(Down[m])) = {}
      BY <3>5 DEF Cleared
    <3> QED
      BY <1>4, <1>6, <2>2, <3>3, <3>6, ClosedNone
  <2> QED
    BY <2>1, <2>2
<1>9. IsInjective(k)
  BY <1>1, <1>3 DEF IsInjective
<1>10. k # <<>> => k[1] = 1
  <2> SUFFICES ASSUME k # <<>> PROVE k[1] = 1
    OBVIOUS
  <2>1. Len(k) \in Nat \ {0} /\ Len(k) = L - 1
    BY <1>1, <1>3, EmptySeq
  <2> QED
    BY <1>1, <1>3, <2>1
<1> QED
  BY <1>2, <1>3, <1>7, <1>8, <1>9, <1>10 DEF Agrees, IsJournal, k

\* A transaction of several migrations is each of them, one after the other.
LEMMA AddBatch ==
  ASSUME NEW j, NEW db, Agrees(j, db), NEW b \in Seq(1..5), b # <<>>,
         NEW ss, Len(ss) = Len(b), \A i \in 1..Len(b) : ss[i] = Up[b[i]],
         Execute(FlattenSeq(ss), db).ok
  PROVE  Agrees(j \o b, Execute(FlattenSeq(ss), db).db)
<1> DEFINE L == Len(b)
           S == Statement
<1>1. /\ L \in Nat \ {0} /\ j \in Seq(1..5) /\ \A i \in 1..L : b[i] \in 1..5 /\ ss[i] = Up[b[i]]
      /\ \A i \in 1..L : ss[i] \in Seq(S)
  <2>1. L \in Nat \ {0} /\ j \in Seq(1..5) /\ \A i \in 1..L : b[i] \in 1..5 /\ ss[i] = Up[b[i]]
    BY EmptySeq, LenProperties, ElementOfSeq DEF Agrees, IsJournal
  <2>2. \A i \in 1..L : Up[b[i]] \in Seq(S)
    BY <2>1, MigrationsAre
  <2> QED
    BY <2>1, <2>2
<1> HIDE DEF S
<1>2. PICK f : /\ f[1] = ss[1] /\ \A i \in 2..L : f[i] = f[i - 1] \o ss[i]
               /\ \A i \in 1..L : f[i] \in Seq(S)
               /\ FlattenSeq(ss) = f[L]
  <2>1. Len(ss) \in Nat \ {0} /\ \A i \in 1..Len(ss) : ss[i] \in Seq(S)
    BY <1>1
  <2>2. \E f : /\ f[1] = ss[1] /\ \A i \in 2..Len(ss) : f[i] = f[i - 1] \o ss[i]
               /\ \A i \in 1..Len(ss) : f[i] \in Seq(S)
               /\ FlattenSeq(ss) = f[Len(ss)]
    BY <2>1, FlattenIs
  <2> QED
    BY <2>2
<1> DEFINE front(n) == SubSeq(b, 1, n)
           Done(n) == n = 0 \/ (Execute(f[n], db).ok => Agrees(j \o front(n), Execute(f[n], db).db))
           P == {n \in 0..L : Done(n)}
<1>3. 0 \in P
  BY <1>1
<1>4. ASSUME NEW n \in 1..L, n - 1 \in P  PROVE n \in P
  <2>1. b[n] \in 1..5 /\ ss[n] = Up[b[n]] /\ n - 1 \in Nat
    BY <1>1
  <2> SUFFICES ASSUME Execute(f[n], db).ok PROVE Agrees(j \o front(n), Execute(f[n], db).db)
    OBVIOUS
  <2>2. CASE n = 1
    <3>1. front(1) = <<b[1]>>
      <4>1. 1 \in 1..Len(b) /\ 1 \in 1..1 /\ 1 + 1 = 2 /\ SubSeq(b, 2, 1) = <<>>
        BY <1>1, SubSeqEmpty
      <4>2. SubSeq(b, 1, 1) = <<b[1]>> \o SubSeq(b, 2, 1)
        BY <4>1, SubSeqRecursiveFirst
      <4>3. <<b[1]>> \in Seq(1..5)
        BY <1>1
      <4>4. <<b[1]>> \o <<>> = <<b[1]>>
        BY <4>3, ConcatEmptySeq
      <4> QED
        BY <4>1, <4>2, <4>4
    <3>2. f[1] = Up[b[1]]
      BY <1>2, <2>1, <2>2
    <3> HIDE DEF front
    <3>3. Agrees(j \o <<b[1]>>, Execute(Up[b[1]], db).db)
      BY <2>1, <2>2, <3>2, AddOne
    <3> QED
      BY <2>2, <3>1, <3>2, <3>3
  <2>3. CASE n # 1
    <3>1. f[n] = f[n - 1] \o Up[b[n]] /\ f[n - 1] \in Seq(S) /\ Up[b[n]] \in Seq(S)
      <4>1. n \in 2..L /\ n - 1 \in 1..L
        BY <1>1, <2>3
      <4>2. f[n] = f[n - 1] \o ss[n] /\ f[n - 1] \in Seq(S)
        BY <1>2, <4>1
      <4> QED
        BY <1>1, <2>1, <4>2
    <3> DEFINE t == Up[b[n]]
               e == Execute(f[n - 1], db).db
    <3>2. /\ Execute(f[n - 1], db).ok /\ Execute(t, e).ok
          /\ Execute(f[n], db).db = Execute(t, e).db
      BY <3>1, ExecuteBoth
    <3>3. Agrees(j \o front(n - 1), e)
      BY <1>4, <2>3, <3>2
    <3>4. (j \o front(n - 1)) \o <<b[n]>> = j \o front(n)
      <4>1. front(n - 1) \in Seq(1..5) /\ <<b[n]>> \in Seq(1..5)
        BY <1>1, <2>1, SubSeqProperties
      <4>2. front(n - 1) \o <<b[n]>> = front(n)
        BY <1>1, <2>1
      <4> DEFINE u == front(n - 1)
                 one == <<b[n]>>
      <4> HIDE DEF front
      <4> HIDE DEF u, one
      <4>3. (j \o u) \o one = j \o (u \o one)
        BY <1>1, <4>1, ConcatAssociative DEF u, one
      <4> QED
        BY <4>2, <4>3 DEF u, one
    <3> HIDE DEF e, front
    <3>5. Agrees((j \o front(n - 1)) \o <<b[n]>>, Execute(t, e).db)
      BY <2>1, <3>2, <3>3, AddOne
    <3> QED
      BY <3>2, <3>4, <3>5
  <2> QED
    BY <2>2, <2>3
<1> HIDE DEF P
<1>5. 0..L \subseteq P
  BY <1>1, <1>3, <1>4, GoesOn
<1>6. L \in P
  BY <1>1, <1>5
<1>7. front(L) = b
  BY <1>1
<1> HIDE DEF front
<1> QED
  BY <1>1, <1>2, <1>6, <1>7 DEF P

\* What a journal makes of an empty database, one migration after the other.
LEMMA ReplayIs ==
  ASSUME NEW j, IsJournal(j)
  PROVE  Replay(j) = Closed(ToSet(j))
<1> DEFINE L == Len(j)
           M(n) == {j[i] : i \in 1..n}
           g == [n \in 0..L |-> Closed(M(n))]
           Def(f) == [n \in 0..L |-> IF n = 0 THEN {} ELSE Effects(Up[j[n]], f[n - 1])]
           made == CHOOSE f : f = Def(f)
<1>1. /\ L \in Nat /\ DOMAIN j = 1..L /\ \A i \in 1..L : j[i] \in 1..5
      /\ \A a, b \in 1..L : j[a] = j[b] => a = b
      /\ L # 0 => j[1] = 1
  BY LenProperties, ElementOfSeq, EmptySeq DEF IsJournal, IsInjective
<1>2. ASSUME NEW n \in 1..L  PROVE Effects(Up[j[n]], Closed(M(n - 1))) = Closed(M(n))
  <2> DEFINE m == j[n]
             N == M(n - 1)
  <2>1. M(n) = N \union {m}
    <3>1. 1..n = (1..(n - 1)) \union {n}
      BY <1>1
    <3> QED
      BY <3>1
  <2>2. N \in SUBSET (1..5) /\ m \in (1..5) \ N
    BY <1>1
  <2>3. m = 1 => N = {}
    <3> SUFFICES ASSUME m = 1 PROVE N = {}
      OBVIOUS
    <3>1. n = 1
      BY <1>1
    <3>2. 1..(n - 1) = {}
      BY <3>1
    <3> QED
      BY <3>2
  <2> HIDE DEF m, N, M
  <2>4. Cleared(Closed(N), Removed(m)) \union Added(m) = Closed(N \union {m})
    BY <2>2, <2>3, ClosedMore
  <2>5. Len(Up[m]) \in Nat /\ Plain(Up[m])
    BY <2>2, MigrationsAre, LenProperties
  <2>6. Effects(Up[m], Closed(N)) = Cleared(Closed(N), Removed(m)) \union Added(m)
    BY <2>5, EffectsPlain DEF Added, Removed
  <2> QED
    BY <2>1, <2>4, <2>6 DEF m, N
<1>3. M(0) = {} /\ M(L) = ToSet(j)
  BY <1>1 DEF ToSet
<1> HIDE DEF M
<1>4. \A n \in 0..L : g[n] = IF n = 0 THEN {} ELSE Effects(Up[j[n]], g[n - 1])
  <2>1. g[0] = {}
    <3>1. 0 \in 0..L
      BY <1>1
    <3>2. g[0] = Closed(M(0))
      BY <3>1
    <3> HIDE DEF g
    <3>3. M(0) = {}
      BY <1>3
    <3>4. Closed(M(0)) = {}
      BY Zenon, <3>3, ClosedNone
    <3> QED
      BY <3>2, <3>4
  <2>2. ASSUME NEW n \in 1..L  PROVE g[n] = Effects(Up[j[n]], g[n - 1])
    <3>1. n - 1 \in 0..L /\ n \in 0..L
      BY <1>1
    <3>2. g[n] = Closed(M(n)) /\ g[n - 1] = Closed(M(n - 1))
      BY <3>1
    <3> QED
      BY <1>2, <3>2
  <2> HIDE DEF g
  <2> QED
    BY <1>1, <2>1, <2>2
<1>5. g = Def(g)
  <2>1. g = [n \in 0..L |-> g[n]]
    OBVIOUS
  <2> HIDE DEF g
  <2> QED
    BY <1>4, <2>1
<1>6. made = Def(made)
  <2> HIDE DEF Def, g
  <2> QED
    BY <1>5
<1>7. Replay(j) = made[L]
  BY Zenon DEF Replay
<1> HIDE DEF made
<1>8. \A n \in 0..L : made[n] = IF n = 0 THEN {} ELSE Effects(Up[j[n]], made[n - 1])
  BY <1>6
<1> HIDE DEF g
<1> DEFINE P == {n \in 0..L : made[n] = g[n]}
<1>9. 0 \in P
  BY <1>1, <1>4, <1>8
<1>10. ASSUME NEW n \in 1..L, n - 1 \in P  PROVE n \in P
  <2>1. made[n - 1] = g[n - 1] /\ n \in 0..L /\ n # 0
    BY <1>1, <1>10
  <2>2. made[n] = Effects(Up[j[n]], made[n - 1]) /\ g[n] = Effects(Up[j[n]], g[n - 1])
    BY <1>4, <1>8, <2>1
  <2> QED
    BY <2>1, <2>2
<1> HIDE DEF P
<1>11. 0..L \subseteq P
  BY <1>1, <1>9, <1>10, GoesOn
<1>12. made[L] = g[L]
  BY <1>1, <1>11 DEF P
<1>13. g[L] = Closed(ToSet(j))
  BY <1>1, <1>3 DEF g
<1> QED
  BY <1>7, <1>12, <1>13

\* Two journals a deployment may start from.
LEMMA StartsAgree == \A j \in {<<>>, <<1, 2>>} : IsJournal(j)
<1>1. IsJournal(<<>>)
  BY DEF IsJournal, IsInjective
<1>2. IsJournal(<<1, 2>>)
  <2> DEFINE j == <<1, 2>>
  <2>1. j \in Seq(1..5) /\ DOMAIN j = {1, 2} /\ j[1] = 1 /\ j[2] = 2
    OBVIOUS
  <2> HIDE DEF j
  <2>2. IsJournal(j)
    BY <2>1 DEF IsJournal, IsInjective
  <2> QED
    BY <2>2 DEF j
<1> QED
  BY <1>1, <1>2

\* The invariant of whoever migrates: at any time the journal holds each migration at
\* most once, the first of them first, and the schema is what they make together.
SchemaInv == Agrees(journal, schema)

\* What a runner takes is not empty.
LEMMA BatchIs ==
  ASSUME DeployInv, NEW r \in Runners, runner[r].todo # <<>>
  PROVE  Transaction(r) \in Seq(1..5) /\ Transaction(r) # <<>>
<1>1. runner[r].todo \in Seq(1..5)
  BY DEF DeployInv, DeployTypes
<1>2. Transaction(r) = <<Head(runner[r].todo)>> \/ Transaction(r) = runner[r].todo
  BY DEF Transaction
<1> DEFINE s == runner[r].todo
           b == Transaction(r)
<1> HIDE DEF s, b
<1>3. b \in Seq(1..5)
  BY <1>1, <1>2, Taken DEF s, b
<1>4. b # <<>>
  BY <1>2 DEF s, b
<1> QED
  BY <1>3, <1>4 DEF b

\* A transaction leaves the schema its journal stands for, or leaves no trace.
LEMMA RunNextAgrees ==
  ASSUME DeployInv, SchemaInv, NEW r \in Runners, RunNext(r)
  PROVE  SchemaInv'
<1> DEFINE b == Transaction(r)
           ss == [i \in DOMAIN b |-> Up[b[i]]]
           outcome == Execute(FlattenSeq(ss), schema)
<1>1. b \in Seq(1..5) /\ b # <<>>
  BY BatchIs DEF RunNext
<1>2. IF outcome.ok THEN schema' = outcome.db /\ journal' = journal \o b
                    ELSE UNCHANGED <<schema, journal>>
  BY Zenon DEF RunNext
<1> HIDE DEF b
<1>3. Len(ss) = Len(b) /\ \A i \in 1..Len(b) : ss[i] = Up[b[i]]
  <2>1. DOMAIN b = 1..Len(b) /\ Len(b) \in Nat
    BY <1>1, LenProperties
  <2>2. ss \in [1..Len(b) -> {Up[b[i]] : i \in 1..Len(b)}]
    BY <2>1
  <2> QED
    BY <2>1, <2>2
<1> HIDE DEF ss
<1>4. CASE outcome.ok
  <2>1. Agrees(journal \o b, outcome.db)
    BY <1>1, <1>3, <1>4, AddBatch DEF SchemaInv
  <2> QED
    BY <1>2, <1>4, <2>1 DEF SchemaInv
<1>5. CASE ~outcome.ok
  BY <1>2, <1>5 DEF SchemaInv
<1> QED
  BY <1>4, <1>5

\* A migration reverted by hand leaves the schema of those before it.
LEMMA UndoLastAgrees ==
  ASSUME SchemaInv, UndoLast
  PROVE  SchemaInv'
<1>1. /\ journal # <<>> /\ Execute(Down[Last(journal)], schema).ok
      /\ schema' = Execute(Down[Last(journal)], schema).db /\ journal' = Front(journal)
  BY DEF UndoLast
<1>2. Agrees(Front(journal), Execute(Down[Last(journal)], schema).db)
  BY <1>1, TakeLast DEF SchemaInv
<1> QED
  BY <1>1, <1>2 DEF SchemaInv

LEMMA SchemaInvariant == DeploySpec => []SchemaInv
<1>1. ASSUME DeployInit  PROVE SchemaInv
  <2>1. journal \in {<<>>, <<1, 2>>} /\ schema = Replay(journal)
    BY <1>1 DEF DeployInit
  <2>2. IsJournal(journal)
    BY <2>1, StartsAgree
  <2>3. schema = Closed(ToSet(journal))
    BY <2>1, <2>2, ReplayIs
  <2> QED
    BY <2>2, <2>3 DEF SchemaInv, Agrees
<1>2. ASSUME DeployInv, SchemaInv, [DeployNext]_allvars  PROVE SchemaInv'
  <2>1. CASE Pipeline
    <3>1. UNCHANGED <<schema, journal>>
      BY <2>1 DEF Pipeline, Push, StartJob, RetryJob, Begin, JobFails, JobCompletes, Apply,
                  RolloutEnds, RollBack, mvars
    <3> QED
      BY <1>2, <3>1 DEF SchemaInv
  <2>2. ASSUME NEW p \in Pods, Replace(p) \/ Crash(p) \/ Request(p) \/ Answer(p)
        PROVE  SchemaInv'
    <3>1. UNCHANGED <<schema, journal>>
      BY <2>2 DEF Replace, StartPod, MigrateOnBoot, Begin, Boot, Terminate, CloseServer,
                  FlushTelemetry, Crash, Request, Answer, mvars
    <3> QED
      BY <1>2, <3>1 DEF SchemaInv
  <2>3. ASSUME NEW r \in Runners, Migrate(r)  PROVE SchemaInv'
    <3>1. CASE RunNext(r)
      BY <1>2, <3>1, RunNextAgrees
    <3>2. CASE EndRun(r)
      BY <1>2, <3>2 DEF EndRun, SchemaInv
    <3> QED
      BY <2>3, <3>1, <3>2 DEF Migrate
  <2>4. ASSUME NEW r \in Runners, DatabaseFails(r)  PROVE SchemaInv'
    BY <1>2, <2>4 DEF DatabaseFails, InterruptRun, SchemaInv
  <2>5. CASE ImportOrphans \/ ReuseKey \/ MendOrphans
    BY <1>2, <2>5 DEF ImportOrphans, ReuseKey, MendOrphans, SchemaInv
  <2>6. CASE UndoLast
    BY <1>2, <2>6, UndoLastAgrees
  <2>7. CASE UNCHANGED allvars
    BY <1>2, <2>7 DEF allvars, mvars, SchemaInv
  <2> QED
    BY <1>2, <2>1, <2>2, <2>3, <2>4, <2>5, <2>6, <2>7 DEF DeployNext
<1> QED
  BY <1>1, <1>2, DeployInvariant, PTL DEF DeploySpec

\* A transaction leaves no trace, or all it records: whatever was run, undone, refused
\* or interrupted, by however many runners at once, the schema is what the recorded
\* migrations, each of them once, make of an empty database in that order.
THEOREM SchemaFollowsJournal == DeploySpec => []SchemaIsReplayed
<1>1. SchemaInv => SchemaIsReplayed
  BY ReplayIs DEF SchemaInv, Agrees, IsJournal, SchemaIsReplayed
<1> QED
  BY <1>1, SchemaInvariant, PTL

\* The columns a table is created with, and what one is never without.
ColumnsOf(t) == {Obj("column", t, c) : c \in COLUMNS[t]}
Core(t) == {Obj("table", t, t), Obj("column", t, "deleted_at")}

LEMMA EntityIs ==
  ASSUME NEW t, NEW columns, NEW others
  PROVE  Entity(t, columns, others)
           = Core(t) \union {Obj("column", t, c) : c \in columns} \union others
BY DEF Entity, Core

\* What each entity maps to, in terms of what the migrations create.
LEMMA EntitiesAre ==
  /\ AdminOrmEntity = Core("admins") \union ColumnsOf("admins")
       \union {Obj("partial", "admins", "UQ_admins_email")}
  /\ ClientOrmEntity = Core("clients") \union (ColumnsOf("clients") \ {VEHICLE_IDS})
       \union {Obj("column", "clients", "status"), Obj("check", "clients", "CHK_clients_status"),
               Obj("partial", "clients", "UQ_clients_cpf_cnpj")}
  /\ VehicleOrmEntity = Core("vehicles") \union ColumnsOf("vehicles")
       \union {Obj("partial", "vehicles", "UQ_vehicles_plate"),
               Obj("index", "vehicles", "IDX_vehicles_owner_client_id"),
               Obj("fk", "vehicles", "FK_vehicles_owner_client_id")}
  /\ ServiceOrmEntity = Core("services") \union ColumnsOf("services")
       \union {Obj("partial", "services", "UQ_services_name")}
  /\ PartOrmEntity = Core("parts") \union ColumnsOf("parts")
       \union {Obj("partial", "parts", "UQ_parts_sku")}
  /\ ServiceOrderOrmEntity = Core("service_orders") \union ColumnsOf("service_orders")
       \union {Obj("index", "service_orders", "IDX_service_orders_client_id"),
               Obj("index", "service_orders", "IDX_service_orders_status"),
               Obj("index", "service_orders", "IDX_service_orders_vehicle_id"),
               Obj("index", "service_orders", "IDX_service_orders_budget_id"),
               Obj("fk", "service_orders", "FK_service_orders_client_id"),
               Obj("fk", "service_orders", "FK_service_orders_vehicle_id"),
               Obj("fk", "service_orders", "FK_service_orders_budget_id")}
  /\ BudgetOrmEntity = Core("budgets") \union ColumnsOf("budgets")
       \union {Obj("index", "budgets", "IDX_budgets_service_order_id"),
               Obj("fk", "budgets", "FK_budgets_service_order_id")}
<1>1. AdminOrmEntity = Core("admins") \union ColumnsOf("admins")
        \union {Obj("partial", "admins", "UQ_admins_email")}
  BY EntityIs DEF AdminOrmEntity, ColumnsOf, COLUMNS
<1>2. VehicleOrmEntity = Core("vehicles") \union ColumnsOf("vehicles")
        \union {Obj("partial", "vehicles", "UQ_vehicles_plate"),
                Obj("index", "vehicles", "IDX_vehicles_owner_client_id"),
                Obj("fk", "vehicles", "FK_vehicles_owner_client_id")}
  BY EntityIs DEF VehicleOrmEntity, ColumnsOf, COLUMNS
<1>3. ServiceOrmEntity = Core("services") \union ColumnsOf("services")
        \union {Obj("partial", "services", "UQ_services_name")}
  BY EntityIs DEF ServiceOrmEntity, ColumnsOf, COLUMNS
<1>4. PartOrmEntity = Core("parts") \union ColumnsOf("parts")
        \union {Obj("partial", "parts", "UQ_parts_sku")}
  BY EntityIs DEF PartOrmEntity, ColumnsOf, COLUMNS
<1>5. ServiceOrderOrmEntity = Core("service_orders") \union ColumnsOf("service_orders")
        \union {Obj("index", "service_orders", "IDX_service_orders_client_id"),
                Obj("index", "service_orders", "IDX_service_orders_status"),
                Obj("index", "service_orders", "IDX_service_orders_vehicle_id"),
                Obj("index", "service_orders", "IDX_service_orders_budget_id"),
                Obj("fk", "service_orders", "FK_service_orders_client_id"),
                Obj("fk", "service_orders", "FK_service_orders_vehicle_id"),
                Obj("fk", "service_orders", "FK_service_orders_budget_id")}
  BY EntityIs DEF ServiceOrderOrmEntity, ColumnsOf, COLUMNS
<1>6. BudgetOrmEntity = Core("budgets") \union ColumnsOf("budgets")
        \union {Obj("index", "budgets", "IDX_budgets_service_order_id"),
                Obj("fk", "budgets", "FK_budgets_service_order_id")}
  BY EntityIs DEF BudgetOrmEntity, ColumnsOf, COLUMNS
<1>7. ClientOrmEntity = Core("clients") \union (ColumnsOf("clients") \ {VEHICLE_IDS})
        \union {Obj("column", "clients", "status"), Obj("check", "clients", "CHK_clients_status"),
                Obj("partial", "clients", "UQ_clients_cpf_cnpj")}
  <2> DEFINE kept == {"id", "name", "cpf_cnpj", "email", "phone", "status", "created_at",
                      "updated_at"}
             others == {Obj("partial", "clients", "UQ_clients_cpf_cnpj"),
                        Obj("check", "clients", "CHK_clients_status")}
             col(c) == Obj("column", "clients", c)
  <2>1. kept = (COLUMNS["clients"] \ {"vehicle_ids"}) \union {"status"}
    BY DEF COLUMNS
  <2>2. ClientOrmEntity = Core("clients") \union {col(c) : c \in kept} \union others
    BY EntityIs DEF ClientOrmEntity
  <2>3. \A c \in kept \union COLUMNS["clients"] : col(c) = VEHICLE_IDS <=> c = "vehicle_ids"
    BY ObjIs DEF VEHICLE_IDS
  <2> HIDE DEF kept, others
  <2>4. {col(c) : c \in kept} = (ColumnsOf("clients") \ {VEHICLE_IDS}) \union {col("status")}
    BY <2>1, <2>3 DEF ColumnsOf
  <2> QED
    BY <2>2, <2>4 DEF others
<1> QED
  BY <1>1, <1>2, <1>3, <1>4, <1>5, <1>6, <1>7

\* All five, together: neither more nor less than what the entities map to.
LEMMA AllMakeEntities == Closed(1..5) = ENTITIES
<1> DEFINE Stays == TableObjects \union ColumnObjects \union ToSet(LOGICAL_KEY_INDEXES)
                      \union StampObjects \union PartialObjects \union ToSet(CLIENT_STATUS)
                      \union KeyObjects \union ToSet(NEW_INDEXES)
           Cores == UNION {Core(t) : t \in TableName}
           Indexes == ToSet(LOGICAL_KEY_INDEXES) \union ToSet(NEW_INDEXES)
<1>1. Closed(1..5) = Stays \ {VEHICLE_IDS}
  <2>1. 1..5 = {1, 2, 3, 4, 5}
    OBVIOUS
  <2>2. Created(1..5) = Added(1) \union Added(2) \union Added(3) \union Added(4) \union Added(5)
    BY <2>1 DEF Created
  <2>3. Gone(1..5) = Removed(1) \union Removed(2) \union Removed(3) \union Removed(4) \union Removed(5)
    BY <2>1 DEF Gone
  <2>4. Created(1..5) = Stays \union UniqueObjects
    BY <2>2, AddedAre
  <2>5. Gone(1..5) = UniqueObjects \union {VEHICLE_IDS}
    BY <2>3, AddedAre
  <2>6. \A o \in Stays : o.kind # "unique"
    BY KindsAre, OthersAre, ObjIs
  <2>7. Stays \intersect UniqueObjects = {}
    BY <2>6, KindsAre
  <2> HIDE DEF Stays
  <2> QED
    BY <2>4, <2>5, <2>7 DEF Closed
<1>2. TableObjects \union StampObjects = Cores
  BY DEF TableObjects, StampObjects, Core
<1>3. Cores = Core("admins") \union Core("clients") \union Core("vehicles") \union Core("services")
                \union Core("parts") \union Core("service_orders") \union Core("budgets")
  BY DEF TableName
<1>4. ColumnObjects = ColumnsOf("admins") \union ColumnsOf("clients") \union ColumnsOf("vehicles")
                        \union ColumnsOf("services") \union ColumnsOf("parts")
                        \union ColumnsOf("service_orders") \union ColumnsOf("budgets")
  BY DEF ColumnObjects, ColumnsOf, TableName
<1>5. VEHICLE_IDS.on = "clients" /\ VEHICLE_IDS.kind = "column" /\ VEHICLE_IDS.name = "vehicle_ids"
  BY ObjIs DEF VEHICLE_IDS
<1>6. /\ VEHICLE_IDS \notin ColumnsOf("admins") \union ColumnsOf("vehicles")
           \union ColumnsOf("services") \union ColumnsOf("parts")
           \union ColumnsOf("service_orders") \union ColumnsOf("budgets")
      /\ VEHICLE_IDS \notin Cores
  <2>1. \A t \in TableName : t # "clients" => VEHICLE_IDS \notin ColumnsOf(t)
    BY <1>5, ObjIs DEF ColumnsOf
  <2>2. VEHICLE_IDS \notin Cores
    BY <1>5, ObjIs DEF Core
  <2> QED
    BY <2>1, <2>2 DEF TableName
<1>7. PartialObjects = {Obj("partial", "admins", "UQ_admins_email"),
                        Obj("partial", "clients", "UQ_clients_cpf_cnpj"),
                        Obj("partial", "vehicles", "UQ_vehicles_plate"),
                        Obj("partial", "services", "UQ_services_name"),
                        Obj("partial", "parts", "UQ_parts_sku")}
  BY UniqueIndexesAre DEF PartialObjects
<1>8. KeyObjects = {Obj("fk", "vehicles", "FK_vehicles_owner_client_id"),
                    Obj("fk", "service_orders", "FK_service_orders_client_id"),
                    Obj("fk", "service_orders", "FK_service_orders_vehicle_id"),
                    Obj("fk", "service_orders", "FK_service_orders_budget_id"),
                    Obj("fk", "budgets", "FK_budgets_service_order_id")}
  BY ForeignKeysAre DEF KeyObjects
<1>9. Indexes = {Obj("index", "vehicles", "IDX_vehicles_owner_client_id"),
                 Obj("index", "service_orders", "IDX_service_orders_client_id"),
                 Obj("index", "service_orders", "IDX_service_orders_status"),
                 Obj("index", "budgets", "IDX_budgets_service_order_id"),
                 Obj("index", "service_orders", "IDX_service_orders_vehicle_id"),
                 Obj("index", "service_orders", "IDX_service_orders_budget_id")}
  BY ObjectsAre
<1>10. VEHICLE_IDS \notin PartialObjects \union ToSet(CLIENT_STATUS) \union KeyObjects \union Indexes
  <2>1. VEHICLE_IDS \notin PartialObjects \union KeyObjects \union Indexes
    BY <1>5, KindsAre, OthersAre
  <2>2. VEHICLE_IDS \notin ToSet(CLIENT_STATUS)
    BY <1>5, ObjectsAre, ObjIs
  <2> QED
    BY <2>1, <2>2
<1> DEFINE c == ToSet(CLIENT_STATUS)
           k == KeyObjects
           p == PartialObjects
           others == p \union c \union k \union Indexes
           columns == ColumnsOf("admins") \union (ColumnsOf("clients") \ {VEHICLE_IDS})
                        \union ColumnsOf("vehicles") \union ColumnsOf("services")
                        \union ColumnsOf("parts") \union ColumnsOf("service_orders")
                        \union ColumnsOf("budgets")
<1>11. Closed(1..5) = Cores \union columns \union others
  <2> DEFINE v == VEHICLE_IDS
  <2>1. Stays = Cores \union ColumnObjects \union others
    BY <1>2
  <2>2. ColumnObjects \ {v} = columns
    BY <1>4, <1>6
  <2>3. v \notin Cores /\ v \notin others
    BY <1>6, <1>10
  <2> HIDE DEF Stays, Cores, columns, others, v
  <2> QED
    BY <1>1, <2>1, <2>2, <2>3 DEF v
<1>12. ENTITIES = Cores \union columns \union others
  <2>1. ENTITIES = AdminOrmEntity \union ClientOrmEntity \union VehicleOrmEntity
                     \union ServiceOrmEntity \union PartOrmEntity \union ServiceOrderOrmEntity
                     \union BudgetOrmEntity
    BY DEF ENTITIES
  <2>2. c = {Obj("column", "clients", "status"), Obj("check", "clients", "CHK_clients_status")}
    BY ObjectsAre
  <2> HIDE DEF c, k, p, Cores, Indexes
  <2>3. ENTITIES \subseteq Cores \union columns \union others
    BY <1>3, <1>7, <1>8, <1>9, <2>1, <2>2, EntitiesAre DEF k, p
  <2>4. Cores \union columns \subseteq ENTITIES
    BY <1>3, <2>1, EntitiesAre
  <2>5. p \subseteq ENTITIES /\ k \subseteq ENTITIES /\ c \subseteq ENTITIES /\ Indexes \subseteq ENTITIES
    BY <1>7, <1>8, <1>9, <2>1, <2>2, EntitiesAre DEF k, p
  <2> HIDE DEF columns
  <2> QED
    BY <2>3, <2>4, <2>5
<1> QED
  BY <1>11, <1>12

\* With every migration recorded, in whatever order they got there, the schema is
\* the one the entities were written for, no object more or less.
THEOREM CompleteIsEnough == DeploySpec => []CompleteMeansEntities
<1>1. SchemaInv => CompleteMeansEntities
  <2> SUFFICES ASSUME SchemaInv, ToSet(journal) = DOMAIN Up PROVE schema = ENTITIES
    BY DEF CompleteMeansEntities
  <2>1. ToSet(journal) = 1..5 /\ schema = Closed(ToSet(journal))
    BY UpIs DEF SchemaInv, Agrees
  <2> QED
    BY <2>1, AllMakeEntities
<1> QED
  BY <1>1, SchemaInvariant, PTL

\* So a replica of this release that answers has every table, column, index and key
\* its entities need, whoever migrated and whatever went wrong.
THEOREM NewPodsFindTheirSchema == DeploySpec => []NewPodsWork
<1>1. DeployInv /\ CompleteMeansEntities => NewPodsWork
  <2> SUFFICES ASSUME DeployInv, CompleteMeansEntities, NEW p \in Pods,
                      pods[p].at = "up", pods[p].image = "new"
               PROVE  ENTITIES \subseteq schema
    BY DEF NewPodsWork
  <2>1. Complete /\ journal \in Seq(1..5)
    BY DEF DeployInv, DeployTypes, PodsMigrated
  <2>2. ToSet(journal) \subseteq 1..5
    BY <2>1, LenProperties, ElementOfSeq DEF ToSet
  <2>3. ToSet(journal) = DOMAIN Up
    BY <2>1, <2>2, UpIs DEF Complete
  <2> QED
    BY <2>3 DEF CompleteMeansEntities
<1> QED
  BY <1>1, DeployInvariant, CompleteIsEnough, PTL
=============================================================================
