--------------------------- MODULE ReportsProofs ---------------------------
(***************************************************************************)
(* The reports of Reports tell what the stopwatches measure, for any       *)
(* finite set of orders, any window, threshold and length of the day, and  *)
(* however long the histories grow.                                        *)
(***************************************************************************)
EXTENDS Reports, SumTheorems, SequenceTheorems

Entries == [to : ServiceOrderStatus, at : Nat]

Row == [row : {"absent", "live", "deleted"}, status : ServiceOrderStatus,
        createdAt : Nat, history : Seq(Entries)]

Stay == [status : ServiceOrderStatus, length : Nat, ago : Nat]

Stopwatch == [since : Nat, stays : Seq(Stay), days : Nat,
              work : {"before", "during", "after"}, worked : Nat]

Typed ==
  now \in Nat /\ orders \in [Orders -> Row] /\ watch \in [Orders -> Stopwatch]

\* A history is in order, from the opening of the order to its status.
Chained(r) ==
  LET h == r.history
  IN  /\ Len(h) > 0 /\ h[1].at = r.createdAt /\ h[Len(h)].to = r.status
      /\ \A i, j \in DOMAIN h : i <= j => h[i].at <= h[j].at

\* Each stay the stopwatches measured is one the history tells.
StaysAgree(r, w) ==
  /\ Len(w.stays) = Len(r.history) - 1
  /\ \A i \in DOMAIN w.stays :
       /\ w.stays[i].status = r.history[i].to
       /\ w.stays[i].length = r.history[i + 1].at - r.history[i].at

\* The stopwatches that still run tell at time t how long ago something happened.
ClocksAgree(r, w, t) ==
  /\ r.history[Len(r.history)].at + w.since = t
  /\ \A i \in DOMAIN w.stays : r.history[i + 1].at + w.stays[i].ago = t
  /\ LocalDay(r.createdAt) + w.days = LocalDay(t)

\* The i-th entry is the first to status s.
FirstTo(h, s, i) ==
  i \in DOMAIN h /\ h[i].to = s /\ \A j \in DOMAIN h : h[j].to = s => i <= j

NeverTo(h, s) == \A i \in DOMAIN h : h[i].to # s

WorkAgrees(r, w, t) ==
  LET h == r.history
  IN  CASE w.work = "before" ->
             /\ w.worked = 0 /\ NeverTo(h, "EM_EXECUCAO") /\ NeverTo(h, "FINALIZADA")
             /\ r.status \notin Finished \union {"EM_EXECUCAO", "PAUSADO"}
        [] w.work = "during" ->
             /\ r.status \notin Finished /\ NeverTo(h, "FINALIZADA")
             /\ \E e \in DOMAIN h : /\ FirstTo(h, "EM_EXECUCAO", e)
                                    /\ r.row = "live" => h[e].at + w.worked = t
        [] w.work = "after" ->
             /\ r.status \in Finished
             /\ \E e, f \in DOMAIN h :
                  /\ FirstTo(h, "EM_EXECUCAO", e) /\ FirstTo(h, "FINALIZADA", f)
                  /\ h[e].at + w.worked = h[f].at

Measured(o) ==
  /\ orders[o].row = "absent" => orders[o].history = <<>> /\ watch[o] = NoWatch
  /\ orders[o].row # "absent" =>
       /\ Chained(orders[o]) /\ StaysAgree(orders[o], watch[o])
       /\ WorkAgrees(orders[o], watch[o], now)
  /\ orders[o].row = "live" => ClocksAgree(orders[o], watch[o], now)

MeasuredInv == Typed /\ \A o \in Orders : Measured(o)

-----------------------------------------------------------------------------
(* Least and greatest elements, days.                                      *)

LEMMA MinIs ==
  ASSUME NEW S, S \subseteq Int, NEW m \in S, \A x \in S : m <= x
  PROVE  Min(S) = m
<1>1. \A a, b \in S : a <= b /\ b <= a => a = b
  OBVIOUS
<1> QED
  BY <1>1 DEF Min

LEMMA MaxIs ==
  ASSUME NEW S, S \subseteq Int, NEW m \in S, \A x \in S : m >= x
  PROVE  Max(S) = m
<1>1. \A a, b \in S : a >= b /\ b >= a => a = b
  OBVIOUS
<1> QED
  BY <1>1 DEF Max

LEMMA DivIs ==
  ASSUME NEW d \in Nat \ {0}, NEW q \in Int, NEW r \in 0..d - 1, NEW t \in Int, t = d * q + r
  PROVE  t \div d = q /\ t % d = r
  OBVIOUS

LEMMA DivMod ==
  ASSUME NEW d \in Nat \ {0}, NEW t \in Int
  PROVE  t = d * (t \div d) + (t % d) /\ t % d \in 0..d - 1 /\ t \div d \in Int
  OBVIOUS

\* The local day turns when the local clock shows midnight.
LEMMA DayTurns ==
  ASSUME NEW t \in Nat
  PROVE  /\ LocalDay(t) \in Int
         /\ LocalDay(t + 1) = IF (t + 1) % Day = Offset THEN LocalDay(t) + 1 ELSE LocalDay(t)
<1> DEFINE u == t + Day - Offset
           q == u \div Day
           r == u % Day
<1>1. Day \in Nat \ {0} /\ Offset \in 0..Day - 1 /\ u \in Int
  BY TimeAssumption
<1>2. u = Day * q + r /\ r \in 0..Day - 1 /\ q \in Int
  BY <1>1, DivMod
<1>3. LocalDay(t) = q /\ LocalDay(t + 1) = (u + 1) \div Day
  <2>1. t + 1 + Day - Offset = u + 1
    BY <1>1
  <2> QED
    BY <2>1 DEF LocalDay
<1> HIDE DEF u, q, r
<1>4. CASE r = Day - 1
  <2>1. u + 1 = Day * (q + 1) + 0 /\ q + 1 \in Int /\ 0 \in 0..Day - 1 /\ u + 1 \in Int
    BY <1>1, <1>2, <1>4
  <2>2. (u + 1) \div Day = q + 1 /\ (u + 1) % Day = 0
    BY <1>1, <2>1, DivIs, Zenon
  <2>3. t + 1 = Day * q + Offset /\ t + 1 \in Int
    BY <1>1, <1>2, <1>4 DEF u
  <2>4. (t + 1) % Day = Offset
    BY <1>1, <1>2, <2>3, DivIs, Zenon
  <2> QED
    BY <1>2, <1>3, <2>2, <2>4
<1>5. CASE r # Day - 1
  <2>1. u + 1 = Day * q + (r + 1) /\ r + 1 \in 0..Day - 1
    BY <1>1, <1>2, <1>5
  <2>2. (u + 1) \div Day = q /\ (u + 1) % Day = r + 1
    BY <1>1, <1>2, <2>1, DivIs
  <2>3. ASSUME (t + 1) % Day = Offset PROVE FALSE
    <3> DEFINE p == (t + 1) \div Day
    <3>1. t + 1 = Day * p + Offset /\ p \in Int
      BY <1>1, <2>3, DivMod
    <3> HIDE DEF p
    <3>2. /\ u + 1 = Day * (p + 1) + 0 /\ p + 1 \in Int /\ 0 \in 0..Day - 1
          /\ u + 1 \in Int
      BY <1>1, <3>1 DEF u
    <3>3. (u + 1) % Day = 0
      BY <1>1, <3>2, DivIs, Zenon
    <3> QED
      BY <1>2, <2>2, <3>3
  <2> QED
    BY <1>2, <1>3, <2>2, <2>3
<1> QED
  BY <1>4, <1>5
-----------------------------------------------------------------------------
(* What each step does to the histories and the stopwatches.               *)

LEMMA InitMeasured == Init => MeasuredInv
  BY DEF Init, MeasuredInv, Typed, Row, Stopwatch, NoWatch, Measured, ServiceOrderStatus

LEMMA OpenedMeasured ==
  ASSUME NEW r, NEW t \in Nat,
         r = [row |-> "live", status |-> "RECEBIDA", createdAt |-> t,
              history |-> <<[to |-> "RECEBIDA", at |-> t]>>]
  PROVE  /\ r \in Row /\ Chained(r) /\ StaysAgree(r, NoWatch)
         /\ WorkAgrees(r, NoWatch, t) /\ ClocksAgree(r, NoWatch, t)
<1>1. r \in Row /\ Chained(r)
  BY DEF Row, Entries, ServiceOrderStatus, Chained
<1>2. StaysAgree(r, NoWatch)
  BY DEF StaysAgree, NoWatch
<1>3. WorkAgrees(r, NoWatch, t)
  BY DEF WorkAgrees, NoWatch, NeverTo, Finished
<1>4. ClocksAgree(r, NoWatch, t)
  BY DayTurns DEF ClocksAgree, NoWatch
<1> QED
  BY <1>1, <1>2, <1>3, <1>4

LEMMA MovedMeasured ==
  ASSUME NEW r \in Row, NEW w \in Stopwatch, NEW t \in Nat, NEW to \in ServiceOrderStatus,
         r.row = "live", <<r.status, to>> \in ALLOWED_TRANSITIONS,
         Chained(r), StaysAgree(r, w), WorkAgrees(r, w, t), ClocksAgree(r, w, t),
         NEW r2, NEW w2,
         r2 = [r EXCEPT !.status = to, !.history = Append(@, [to |-> to, at |-> t])],
         w2 = Lap(w, r.status, to)
  PROVE  /\ r2 \in Row /\ w2 \in Stopwatch /\ Chained(r2) /\ StaysAgree(r2, w2)
         /\ WorkAgrees(r2, w2, t) /\ ClocksAgree(r2, w2, t)
<1> DEFINE h == r.history
           g == r2.history
           n == Len(h)
<1>1. /\ r2.row = "live" /\ r2.status = to /\ r2.createdAt = r.createdAt
      /\ g = Append(h, [to |-> to, at |-> t])
  BY DEF Row
<1>2. /\ n \in Nat /\ n > 0 /\ Len(g) = n + 1 /\ g[n + 1] = [to |-> to, at |-> t]
      /\ \A i \in 1..n : g[i] = h[i] /\ h[i] \in Entries
  BY <1>1 DEF Row, Chained
<1>3. /\ w2.since = 0 /\ w2.days = w.days /\ w2.worked = w.worked
      /\ w2.stays = Append(w.stays, [status |-> r.status, length |-> w.since, ago |-> 0])
      /\ w2.work = CASE to = "EM_EXECUCAO" /\ w.work = "before" -> "during"
                     [] to = "FINALIZADA" -> "after"
                     [] OTHER -> w.work
  BY DEF Lap, Stopwatch
<1>4. /\ Len(w.stays) = n - 1 /\ Len(w2.stays) = n /\ w.stays \in Seq(Stay)
      /\ w2.stays[n] = [status |-> r.status, length |-> w.since, ago |-> 0]
      /\ \A i \in 1..n - 1 : w2.stays[i] = w.stays[i]
      /\ DOMAIN w.stays = 1..n - 1 /\ DOMAIN w2.stays = 1..n
      /\ w.since \in Nat /\ w.worked \in Nat /\ w.days \in Nat
  BY <1>2, <1>3 DEF StaysAgree, Stopwatch
<1>5. /\ h[n].at + w.since = t /\ h[n].at \in Nat /\ h[n].to = r.status
      /\ \A i \in 1..n : h[i].at <= t /\ h[i].at \in Nat
  <2>1. h[n].at + w.since = t /\ h[n].to = r.status /\ w.since \in Nat
    BY <1>4 DEF ClocksAgree, Chained
  <2>2. \A i \in 1..n : h[i].at \in Nat
    BY <1>2 DEF Entries
  <2>3. \A i \in 1..n : h[i].at <= h[n].at
    BY <1>2 DEF Chained, Row
  <2> QED
    BY <1>2, <2>1, <2>2, <2>3
<1>6. r2 \in Row /\ w2 \in Stopwatch
  <2>1. [to |-> to, at |-> t] \in Entries
    BY DEF Entries
  <2>2. r2 \in Row
    <3>1. g \in Seq(Entries)
      BY <1>1, <2>1 DEF Row
    <3>2. r2 = [row |-> "live", status |-> to, createdAt |-> r.createdAt, history |-> g]
      BY DEF Row
    <3> QED
      BY <3>1, <3>2 DEF Row
  <2>3. [status |-> r.status, length |-> w.since, ago |-> 0] \in Stay
    BY <1>4 DEF Stay, Row
  <2>4. w2.stays \in Seq(Stay)
    BY <1>3, <1>4, <2>3
  <2>5. w2 = [since |-> 0, stays |-> w2.stays, days |-> w.days, work |-> w2.work,
              worked |-> w.worked]
    BY DEF Lap, Stopwatch
  <2>6. w2.work \in {"before", "during", "after"}
    BY <1>3 DEF Stopwatch
  <2>7. [since |-> 0, stays |-> w2.stays, days |-> w.days, work |-> w2.work,
         worked |-> w.worked] \in Stopwatch
    BY <1>4, <2>4, <2>6 DEF Stopwatch
  <2> QED
    BY <2>2, <2>5, <2>7
<1> HIDE DEF g, n
<1>7. Chained(r2)
  <2>1. g[1].at = r2.createdAt
    BY <1>1, <1>2 DEF Chained
  <2>3. DOMAIN g = 1..n + 1
    BY <1>1, <1>2 DEF Row
  <2>2. ASSUME NEW i \in DOMAIN g, NEW j \in DOMAIN g, i <= j  PROVE  g[i].at <= g[j].at
    <3>1. CASE j = n + 1
      <4>1. i \in 1..n + 1 /\ g[j].at = t
        BY <1>2, <3>1, <2>3
      <4>2. i \in 1..n => g[i].at <= t
        BY <1>2, <1>5
      <4>3. i = n + 1 \/ i \in 1..n
        BY <1>2, <4>1
      <4> QED
        BY <3>1, <4>1, <4>2, <4>3
    <3>2. CASE j # n + 1
      <4>1. i \in 1..n /\ j \in 1..n /\ DOMAIN h = 1..n
        BY <1>1, <1>2, <2>2, <3>2 DEF g, n, Row
      <4> QED
        BY <1>2, <2>2, <4>1 DEF Chained
    <3> QED
      BY <3>1, <3>2
  <2> QED
    BY <1>1, <1>2, <2>1, <2>2 DEF Chained, g
<1>8. StaysAgree(r2, w2)
  <2>1. ASSUME NEW i \in 1..n
        PROVE  w2.stays[i].status = g[i].to /\ w2.stays[i].length = g[i + 1].at - g[i].at
    <3>1. CASE i = n
      <4>1. /\ w2.stays[i].status = r.status /\ w2.stays[i].length = w.since
            /\ g[i + 1].at = t /\ g[i] = h[n]
        BY <1>2, <1>4, <3>1
      <4> QED
        BY <1>4, <1>5, <4>1
    <3>2. CASE i # n
      <4>1. /\ i \in DOMAIN w.stays /\ w2.stays[i] = w.stays[i]
            /\ i + 1 \in 1..n
        BY <1>2, <1>4, <3>2
      <4> QED
        BY <1>2, <4>1 DEF StaysAgree
    <3> QED
      BY <3>1, <3>2
  <2>2. DOMAIN w2.stays = 1..n
    BY <1>4
  <2> QED
    BY <1>2, <1>4, <2>1, <2>2 DEF StaysAgree, g
<1>9. ClocksAgree(r2, w2, t)
  <2>1. ASSUME NEW i \in 1..n  PROVE  g[i + 1].at + w2.stays[i].ago = t
    <3>1. CASE i = n
      BY <1>2, <1>4, <3>1
    <3>2. CASE i # n
      <4>1. i \in DOMAIN w.stays /\ w2.stays[i] = w.stays[i] /\ i + 1 \in 1..n
        BY <1>2, <1>4, <3>2
      <4> QED
        BY <1>2, <4>1 DEF ClocksAgree
    <3> QED
      BY <3>1, <3>2
  <2>2. DOMAIN w2.stays = 1..n
    BY <1>4
  <2>3. g[Len(g)].at + w2.since = t
    BY <1>2, <1>3
  <2>4. LocalDay(r2.createdAt) + w2.days = LocalDay(t)
    BY <1>1, <1>3 DEF ClocksAgree
  <2> QED
    BY <2>1, <2>2, <2>3, <2>4 DEF ClocksAgree, g
<1>10. WorkAgrees(r2, w2, t)
  <2>1. DOMAIN h = 1..n /\ DOMAIN g = 1..n + 1
    BY <1>1, <1>2 DEF n, g, Row
  <2>2. ASSUME NEW s, s # to, NeverTo(h, s)  PROVE  NeverTo(g, s)
    BY <1>2, <2>1, <2>2 DEF NeverTo
  <2>3. ASSUME NEW s, NEW i \in DOMAIN h, FirstTo(h, s, i)  PROVE  FirstTo(g, s, i) /\ g[i] = h[i]
    BY <1>2, <2>1, <2>3 DEF FirstTo
  <2>4. NeverTo(h, to) => FirstTo(g, to, n + 1)
    BY <1>2, <2>1 DEF FirstTo, NeverTo
  <2> HIDE DEF h
  <2>5. CASE w.work = "before"
    <3>1. /\ w.worked = 0 /\ NeverTo(h, "EM_EXECUCAO") /\ NeverTo(h, "FINALIZADA")
          /\ r.status \notin Finished \union {"EM_EXECUCAO", "PAUSADO"}
      BY <2>5 DEF WorkAgrees, h
    <3>2. to \notin Finished \union {"PAUSADO"}
      BY <3>1 DEF Finished, ALLOWED_TRANSITIONS
    <3>3. CASE to = "EM_EXECUCAO"
      <4>1. w2.work = "during"
        BY <1>3, <2>5, <3>3
      <4>2. FirstTo(g, "EM_EXECUCAO", n + 1) /\ g[n + 1].at = t /\ n + 1 \in DOMAIN g
        BY <1>2, <2>1, <2>4, <3>1, <3>3
      <4>3. NeverTo(g, "FINALIZADA")
        BY <2>2, <3>1, <3>3
      <4>4. g[n + 1].at + w2.worked = t
        BY <1>3, <3>1, <4>2
      <4> QED
        BY <1>1, <3>2, <4>1, <4>2, <4>3, <4>4 DEF WorkAgrees, g
    <3>4. CASE to # "EM_EXECUCAO"
      <4>1. w2.work = "before"
        BY <1>3, <2>5, <3>2, <3>4 DEF Finished
      <4>2. NeverTo(g, "EM_EXECUCAO") /\ NeverTo(g, "FINALIZADA")
        BY <2>2, <3>1, <3>2, <3>4 DEF Finished
      <4> QED
        BY <1>1, <1>3, <3>1, <3>2, <3>4, <4>1, <4>2 DEF WorkAgrees, g
    <3> QED
      BY <3>3, <3>4
  <2>6. CASE w.work = "during"
    <3>1. r.status \notin Finished /\ NeverTo(h, "FINALIZADA")
      BY <2>6 DEF WorkAgrees, h
    <3>2. PICK e \in DOMAIN h : FirstTo(h, "EM_EXECUCAO", e) /\ h[e].at + w.worked = t
      BY <2>6 DEF WorkAgrees, h
    <3>3. FirstTo(g, "EM_EXECUCAO", e) /\ g[e].at + w2.worked = t /\ e \in DOMAIN g
      <4>1. FirstTo(g, "EM_EXECUCAO", e) /\ g[e] = h[e]
        BY <2>3, <3>2
      <4> QED
        BY <1>2, <1>3, <2>1, <3>2, <4>1
    <3>4. CASE to = "FINALIZADA"
      <4>1. w2.work = "after" /\ to \in Finished
        BY <1>3, <3>4 DEF Finished
      <4>2. FirstTo(g, "FINALIZADA", n + 1) /\ g[n + 1].at = t /\ n + 1 \in DOMAIN g
        BY <1>2, <2>1, <2>4, <3>1, <3>4
      <4> QED
        BY <1>1, <3>3, <4>1, <4>2 DEF WorkAgrees, g
    <3>5. CASE to # "FINALIZADA"
      <4>1. w2.work = "during"
        BY <1>3, <2>6, <3>5
      <4>2. to \notin Finished
        BY <3>1, <3>5 DEF Finished, ALLOWED_TRANSITIONS
      <4>3. NeverTo(g, "FINALIZADA")
        BY <2>2, <3>1, <3>5
      <4> QED
        BY <1>1, <3>3, <4>1, <4>2, <4>3 DEF WorkAgrees, g
    <3> QED
      BY <3>4, <3>5
  <2>7. CASE w.work = "after"
    <3>1. r.status \in Finished
      BY <2>7 DEF WorkAgrees
    <3>2. PICK e, f \in DOMAIN h :
            /\ FirstTo(h, "EM_EXECUCAO", e) /\ FirstTo(h, "FINALIZADA", f)
            /\ h[e].at + w.worked = h[f].at
      BY <2>7 DEF WorkAgrees, h
    <3>3. to = "ENTREGUE"
      BY <3>1 DEF Finished, ALLOWED_TRANSITIONS
    <3>4. w2.work = "after" /\ to \in Finished
      BY <1>3, <2>7, <3>3 DEF Finished
    <3>5. /\ FirstTo(g, "EM_EXECUCAO", e) /\ FirstTo(g, "FINALIZADA", f)
          /\ g[e].at + w2.worked = g[f].at /\ e \in DOMAIN g /\ f \in DOMAIN g
      <4>1. FirstTo(g, "EM_EXECUCAO", e) /\ g[e] = h[e]
        BY <2>3, <3>2
      <4>2. FirstTo(g, "FINALIZADA", f) /\ g[f] = h[f]
        BY <2>3, <3>2
      <4> QED
        BY <1>2, <1>3, <2>1, <3>2, <4>1, <4>2
    <3> QED
      BY <1>1, <3>4, <3>5 DEF WorkAgrees, g
  <2> QED
    BY <2>5, <2>6, <2>7 DEF Stopwatch
<1> QED
  BY <1>6, <1>7, <1>8, <1>9, <1>10

LEMMA HistoryTypes ==
  ASSUME NEW r \in Row, Chained(r)
  PROVE  LET h == r.history
         IN  /\ DOMAIN h = 1..Len(h) /\ Len(h) \in Nat /\ Len(h) > 0
             /\ \A i \in 1..Len(h) : h[i] \in Entries /\ h[i].at \in Nat
<1> DEFINE h == r.history
<1>1. h \in Seq(Entries) /\ Len(h) > 0
  BY DEF Row, Chained
<1> HIDE DEF h
<1>2. DOMAIN h = 1..Len(h) /\ Len(h) \in Nat
  BY <1>1
<1>3. \A i \in 1..Len(h) : h[i] \in Entries
  BY <1>1
<1>4. \A x \in Entries : x.at \in Nat
  BY DEF Entries
<1> QED
  BY <1>1, <1>2, <1>3, <1>4 DEF h

\* The clock strikes, and the stopwatches of an order that is still there run.
LEMMA RanMeasured ==
  ASSUME now \in Nat, NEW r \in Row, NEW w \in Stopwatch, r.row = "live",
         Chained(r), StaysAgree(r, w), WorkAgrees(r, w, now), ClocksAgree(r, w, now)
  PROVE  /\ Run(w) \in Stopwatch /\ StaysAgree(r, Run(w))
         /\ WorkAgrees(r, Run(w), now + 1) /\ ClocksAgree(r, Run(w), now + 1)
<1> DEFINE v == Run(w)
           h == r.history
           midnight == (now + 1) % Day = Offset
<1>1. /\ w.stays \in Seq(Stay) /\ w.since \in Nat /\ w.days \in Nat /\ w.worked \in Nat
      /\ w.work \in {"before", "during", "after"}
  BY DEF Stopwatch
<1> DEFINE days == IF midnight THEN w.days + 1 ELSE w.days
           stays == Aged(w.stays)
           worked == IF w.work = "during" THEN w.worked + 1 ELSE w.worked
<1>9. v = [w EXCEPT !.since = @ + 1, !.stays = stays, !.days = days, !.worked = worked]
  BY DEF Run
<1>10. v = [since |-> w.since + 1, stays |-> stays, days |-> days, work |-> w.work,
            worked |-> worked]
  <2> HIDE DEF v, days, stays, worked
  <2> QED
    BY <1>9 DEF Stopwatch
<1>2. /\ v.since = w.since + 1 /\ v.work = w.work
      /\ v.stays = [i \in DOMAIN w.stays |-> [w.stays[i] EXCEPT !.ago = @ + 1]]
      /\ v.days = (IF midnight THEN w.days + 1 ELSE w.days)
      /\ v.worked = (IF w.work = "during" THEN w.worked + 1 ELSE w.worked)
  <2> HIDE DEF v, midnight
  <2> QED
    BY <1>10 DEF Aged
<1> HIDE DEF midnight, days, stays, worked
<1>3. \A i \in DOMAIN w.stays :
        /\ v.stays[i] \in Stay /\ w.stays[i] \in Stay
        /\ v.stays[i].status = w.stays[i].status /\ v.stays[i].length = w.stays[i].length
        /\ v.stays[i].ago = w.stays[i].ago + 1
  <2> SUFFICES ASSUME NEW i \in DOMAIN w.stays
               PROVE  /\ v.stays[i] \in Stay /\ w.stays[i] \in Stay
                      /\ v.stays[i].status = w.stays[i].status
                      /\ v.stays[i].length = w.stays[i].length
                      /\ v.stays[i].ago = w.stays[i].ago + 1
    OBVIOUS
  <2>1. w.stays[i] \in Stay
    BY <1>1
  <2>2. v.stays[i] = [w.stays[i] EXCEPT !.ago = @ + 1]
    BY <1>2
  <2> HIDE DEF v
  <2> QED
    BY <2>1, <2>2 DEF Stay
<1>4. DOMAIN v.stays = DOMAIN w.stays /\ Len(v.stays) = Len(w.stays) /\ v.stays \in Seq(Stay)
  <2>1. DOMAIN w.stays = 1..Len(w.stays) /\ Len(w.stays) \in Nat
    BY <1>1
  <2>2. v.stays \in [1..Len(w.stays) -> Stay]
    BY <1>2, <1>3, <2>1
  <2> QED
    BY <2>1, <2>2, IsASeq
<1>5. v \in Stopwatch
  <2>1. v = [since |-> v.since, stays |-> v.stays, days |-> v.days, work |-> v.work,
             worked |-> v.worked]
    <3> HIDE DEF v
    <3> QED
      BY <1>10
  <2>2. v.days \in Nat /\ v.worked \in Nat /\ v.since \in Nat
    BY <1>1, <1>2
  <2> HIDE DEF v
  <2> QED
    BY <1>1, <1>2, <1>4, <2>1, <2>2 DEF Stopwatch
<1> HIDE DEF v
<1>6. StaysAgree(r, v)
  BY <1>3, <1>4 DEF StaysAgree
<1>7. ClocksAgree(r, v, now + 1)
  <2>1. LocalDay(r.createdAt) + v.days = LocalDay(now + 1)
    <3>1. LocalDay(r.createdAt) + w.days = LocalDay(now) /\ r.createdAt \in Nat
      BY DEF ClocksAgree, Row
    <3>2. LocalDay(r.createdAt) \in Int
      BY <3>1, DayTurns
    <3>3. /\ LocalDay(now) \in Int
          /\ LocalDay(now + 1) = IF midnight THEN LocalDay(now) + 1 ELSE LocalDay(now)
      BY DayTurns DEF midnight
    <3> QED
      BY <1>1, <1>2, <3>1, <3>2, <3>3
  <2>2. /\ DOMAIN h = 1..Len(h) /\ Len(h) \in Nat /\ Len(h) > 0
        /\ \A i \in 1..Len(h) : h[i].at \in Nat
    BY HistoryTypes
  <2>3. h[Len(h)].at + v.since = now + 1
    <3>1. h[Len(h)].at + w.since = now /\ h[Len(h)].at \in Nat
      BY <2>2 DEF ClocksAgree
    <3> HIDE DEF h, v
    <3> QED
      BY <1>1, <1>2, <3>1
  <2>4. ASSUME NEW i \in DOMAIN v.stays  PROVE  h[i + 1].at + v.stays[i].ago = now + 1
    <3>1. i \in DOMAIN w.stays /\ i + 1 \in 1..Len(h)
      BY <1>1, <1>4, <2>2 DEF StaysAgree
    <3>2. h[i + 1].at + w.stays[i].ago = now
      BY <3>1 DEF ClocksAgree
    <3>3. w.stays[i].ago \in Nat /\ v.stays[i].ago = w.stays[i].ago + 1
      BY <1>3, <3>1 DEF Stay
    <3> QED
      BY <2>2, <3>1, <3>2, <3>3
  <2> QED
    BY <2>1, <2>3, <2>4 DEF ClocksAgree
<1>8. WorkAgrees(r, v, now + 1)
  <2>1. CASE w.work = "before"
    BY <1>2, <2>1 DEF WorkAgrees
  <2>2. CASE w.work = "during"
    <3>1. PICK e \in DOMAIN h : FirstTo(h, "EM_EXECUCAO", e) /\ h[e].at + w.worked = now
      BY <2>2 DEF WorkAgrees
    <3>2. h[e].at \in Nat /\ v.worked = w.worked + 1
      BY <1>2, <2>2, HistoryTypes
    <3>3. h[e].at + v.worked = now + 1
      BY <1>1, <3>1, <3>2
    <3> QED
      BY <1>2, <2>2, <3>1, <3>3 DEF WorkAgrees
  <2>3. CASE w.work = "after"
    BY <1>2, <2>3 DEF WorkAgrees
  <2> QED
    BY <1>1, <2>1, <2>2, <2>3
<1> QED
  BY <1>5, <1>6, <1>7, <1>8 DEF v

LEMMA RemovedMeasured ==
  ASSUME NEW r \in Row, NEW w \in Stopwatch, NEW t, Chained(r), StaysAgree(r, w),
         WorkAgrees(r, w, t), NEW r2, r2 = [r EXCEPT !.row = "deleted"]
  PROVE  r2 \in Row /\ Chained(r2) /\ StaysAgree(r2, w) /\ WorkAgrees(r2, w, t)
<1>1. /\ r2 \in Row /\ r2.row = "deleted" /\ r2.history = r.history /\ r2.status = r.status
      /\ r2.createdAt = r.createdAt
  BY DEF Row
<1>2. WorkAgrees(r2, w, t)
  <2>1. CASE w.work = "before"
    BY <1>1, <2>1 DEF WorkAgrees
  <2>2. CASE w.work = "during"
    BY <1>1, <2>2 DEF WorkAgrees
  <2>3. CASE w.work = "after"
    BY <1>1, <2>3 DEF WorkAgrees
  <2> QED
    BY <2>1, <2>2, <2>3 DEF Stopwatch
<1> QED
  BY <1>1, <1>2 DEF Chained, StaysAgree

\* The work of an order that is gone is not measured any more.
LEMMA GoneMeasured ==
  ASSUME NEW r \in Row, NEW w \in Stopwatch, NEW t, NEW t2,
         r.row # "live", WorkAgrees(r, w, t)
  PROVE  WorkAgrees(r, w, t2)
<1>1. CASE w.work = "before"
  BY <1>1 DEF WorkAgrees
<1>2. CASE w.work = "during"
  BY <1>2 DEF WorkAgrees
<1>3. CASE w.work = "after"
  BY <1>3 DEF WorkAgrees
<1> QED
  BY <1>1, <1>2, <1>3 DEF Stopwatch

LEMMA MeasuredStep == MeasuredInv /\ [Next]_vars => MeasuredInv'
<1> SUFFICES ASSUME MeasuredInv, [Next]_vars PROVE MeasuredInv'
  OBVIOUS
<1>1. /\ now \in Nat /\ orders \in [Orders -> Row] /\ watch \in [Orders -> Stopwatch]
      /\ \A o \in Orders : Measured(o)
  BY DEF MeasuredInv, Typed
<1>2. ASSUME NEW o \in Orders, Open(o)  PROVE  MeasuredInv'
  <2> DEFINE r == [row |-> "live", status |-> "RECEBIDA", createdAt |-> now,
                   history |-> <<[to |-> "RECEBIDA", at |-> now]>>]
  <2>1. orders' = [orders EXCEPT ![o] = r] /\ UNCHANGED <<now, watch>> /\ watch[o] = NoWatch
    BY <1>1, <1>2 DEF Open, Measured
  <2>2. /\ r \in Row /\ Chained(r) /\ StaysAgree(r, NoWatch)
        /\ WorkAgrees(r, NoWatch, now) /\ ClocksAgree(r, NoWatch, now) /\ r.row = "live"
    BY <1>1, OpenedMeasured
  <2> HIDE DEF r
  <2>3. ASSUME NEW q \in Orders  PROVE  Measured(q)'
    BY <1>1, <2>1, <2>2 DEF Measured
  <2>4. Typed'
    BY <1>1, <2>1, <2>2 DEF Typed
  <2> QED
    BY <2>3, <2>4 DEF MeasuredInv
<1>3. ASSUME NEW o \in Orders, NEW to \in ServiceOrderStatus, Move(o, to)
      PROVE  MeasuredInv'
  <2> DEFINE r == [orders[o] EXCEPT !.status = to,
                                    !.history = Append(@, [to |-> to, at |-> now])]
             w == Lap(watch[o], orders[o].status, to)
  <2>1. /\ orders' = [orders EXCEPT ![o] = r] /\ watch' = [watch EXCEPT ![o] = w]
        /\ now' = now
    BY <1>3 DEF Move
  <2>2. /\ orders[o] \in Row /\ watch[o] \in Stopwatch /\ orders[o].row = "live"
        /\ <<orders[o].status, to>> \in ALLOWED_TRANSITIONS
        /\ Chained(orders[o]) /\ StaysAgree(orders[o], watch[o])
        /\ WorkAgrees(orders[o], watch[o], now) /\ ClocksAgree(orders[o], watch[o], now)
    BY <1>1, <1>3 DEF Move, Measured
  <2>3. /\ r \in Row /\ w \in Stopwatch /\ Chained(r) /\ StaysAgree(r, w)
        /\ WorkAgrees(r, w, now) /\ ClocksAgree(r, w, now)
    BY <1>1, <2>2, MovedMeasured
  <2>4. r.row = "live"
    BY <2>2 DEF Row
  <2> HIDE DEF r, w
  <2>5. ASSUME NEW q \in Orders  PROVE  Measured(q)'
    BY <1>1, <2>1, <2>3, <2>4 DEF Measured
  <2>6. Typed'
    BY <1>1, <2>1, <2>3 DEF Typed
  <2> QED
    BY <2>5, <2>6 DEF MeasuredInv
<1>4. ASSUME NEW o \in Orders, Remove(o)  PROVE  MeasuredInv'
  <2> DEFINE r == [orders[o] EXCEPT !.row = "deleted"]
  <2>1. orders' = [orders EXCEPT ![o] = r] /\ UNCHANGED <<now, watch>> /\ orders[o].row = "live"
    BY <1>4 DEF Remove
  <2>2. /\ orders[o] \in Row /\ watch[o] \in Stopwatch
        /\ Chained(orders[o]) /\ StaysAgree(orders[o], watch[o])
        /\ WorkAgrees(orders[o], watch[o], now)
    BY <1>1, <2>1 DEF Measured
  <2>3. /\ r \in Row /\ Chained(r) /\ StaysAgree(r, watch[o]) /\ WorkAgrees(r, watch[o], now)
    BY <2>2, RemovedMeasured
  <2>4. r.row = "deleted"
    BY <2>2 DEF Row
  <2> HIDE DEF r
  <2>5. ASSUME NEW q \in Orders  PROVE  Measured(q)'
    BY <1>1, <2>1, <2>3, <2>4 DEF Measured
  <2>6. Typed'
    BY <1>1, <2>1, <2>3 DEF Typed
  <2> QED
    BY <2>5, <2>6 DEF MeasuredInv
<1>5. CASE Tick
  <2>1. /\ now' = now + 1 /\ orders' = orders
        /\ watch' = [o \in Orders |-> IF orders[o].row = "live" THEN Run(watch[o])
                                      ELSE watch[o]]
    BY <1>5 DEF Tick
  <2>2. ASSUME NEW q \in Orders  PROVE  Measured(q)' /\ watch'[q] \in Stopwatch
    <3>1. orders[q] \in Row /\ watch[q] \in Stopwatch /\ Measured(q)
      BY <1>1
    <3>2. CASE orders[q].row = "live"
      <4>1. /\ watch'[q] = Run(watch[q]) /\ Chained(orders[q])
            /\ StaysAgree(orders[q], watch[q]) /\ WorkAgrees(orders[q], watch[q], now)
            /\ ClocksAgree(orders[q], watch[q], now)
        BY <2>1, <3>1, <3>2 DEF Measured
      <4>2. /\ Run(watch[q]) \in Stopwatch /\ StaysAgree(orders[q], Run(watch[q]))
            /\ WorkAgrees(orders[q], Run(watch[q]), now + 1)
            /\ ClocksAgree(orders[q], Run(watch[q]), now + 1)
        BY <1>1, <3>1, <3>2, <4>1, RanMeasured
      <4> QED
        BY <2>1, <3>2, <4>1, <4>2 DEF Measured
    <3>3. CASE orders[q].row # "live"
      <4>1. watch'[q] = watch[q]
        BY <2>1, <3>3
      <4>2. orders[q].row # "absent" =>
              Chained(orders[q]) /\ StaysAgree(orders[q], watch[q])
              /\ WorkAgrees(orders[q], watch[q], now + 1)
        BY <3>1, <3>3, GoneMeasured DEF Measured
      <4> QED
        BY <2>1, <3>1, <3>3, <4>1, <4>2 DEF Measured
    <3> QED
      BY <3>2, <3>3
  <2>3. Typed'
    BY <1>1, <2>1, <2>2 DEF Typed
  <2> QED
    BY <2>2, <2>3 DEF MeasuredInv
<1>6. CASE BeginReport \/ EndReport \/ UNCHANGED vars
  BY <1>6 DEF BeginReport, EndReport, vars, MeasuredInv, Typed, Measured
<1> QED
  BY <1>2, <1>3, <1>4, <1>5, <1>6 DEF Next


LEMMA AlwaysMeasured == Spec => []MeasuredInv
  BY InitMeasured, MeasuredStep, PTL DEF Spec

-----------------------------------------------------------------------------
(* The listing of active orders.                                           *)

\* No order that was finished, delivered or closed without execution is ever
\* listed as active again.
THEOREM LeftForGood == Spec => LeavesListingForGood
<1>1. MeasuredInv /\ [Next]_vars =>
        [\A o \in Orders :
           orders[o].row # "absent" /\ o \notin FindAllActive => o \notin FindAllActive']_vars
  <2> SUFFICES ASSUME MeasuredInv, Next, NEW o \in Orders,
                      orders[o].row # "absent", o \notin FindAllActive
               PROVE  o \notin FindAllActive'
    OBVIOUS
  <2>1. orders \in [Orders -> Row]
    BY DEF MeasuredInv, Typed
  <2>2. orders[o].row = "deleted" \/ orders[o].status \in Terminal
    BY <2>1 DEF FindAllActive, Live, Row
  <2>3. ASSUME NEW q \in Orders, NEW to \in ServiceOrderStatus, Move(q, to)
        PROVE  o \notin FindAllActive'
    <3>1. q = o => to \in Terminal
      BY <2>2, <2>3 DEF Move, Terminal, Finished, ALLOWED_TRANSITIONS
    <3>2. /\ orders'[o].row = orders[o].row
          /\ orders'[o].status = IF q = o THEN to ELSE orders[o].status
      BY <2>1, <2>3 DEF Move, Row
    <3> QED
      BY <2>2, <3>1, <3>2 DEF FindAllActive, Live
  <2>4. ASSUME NEW q \in Orders, Open(q) \/ Remove(q)  PROVE  o \notin FindAllActive'
    BY <2>1, <2>2, <2>4 DEF Open, Remove, FindAllActive, Live, Row
  <2>5. CASE Tick \/ BeginReport \/ EndReport
    BY <2>2, <2>5 DEF Tick, BeginReport, EndReport, FindAllActive, Live
  <2> QED
    BY <2>3, <2>4, <2>5 DEF Next
<1> QED
  BY <1>1, AlwaysMeasured, PTL DEF Spec, LeavesListingForGood

-----------------------------------------------------------------------------
(* How long ago something happened.                                        *)

LEMMA LastChangeIs ==
  ASSUME NEW o \in Orders, orders[o] \in Row, Chained(orders[o])
  PROVE  LastChange(o) = orders[o].history[Len(orders[o].history)].at
<1> DEFINE h == orders[o].history
           S == {h[i].at : i \in DOMAIN h}
<1>1. DOMAIN h = 1..Len(h) /\ Len(h) \in Nat /\ Len(h) > 0
  BY HistoryTypes
<1>2. \A i \in DOMAIN h : h[i].at \in Nat /\ h[i].at <= h[Len(h)].at
  <2>1. \A i \in DOMAIN h : h[i].at \in Nat
    BY <1>1, HistoryTypes
  <2>2. \A i \in DOMAIN h : h[i].at <= h[Len(h)].at
    BY <1>1 DEF Chained
  <2> QED
    BY <2>1, <2>2
<1>3. Max(S) = h[Len(h)].at
  <2>1. S \subseteq Int /\ h[Len(h)].at \in S /\ \A x \in S : h[Len(h)].at >= x
    BY <1>1, <1>2
  <2> HIDE DEF S
  <2> QED
    BY <2>1, MaxIs
<1> QED
  BY <1>3 DEF LastChange

LEMMA AgesFollow == MeasuredInv => AgesAgree
<1> SUFFICES ASSUME MeasuredInv PROVE AgesAgree
  OBVIOUS
<1>1. ASSUME NEW o \in Live
      PROVE  /\ orders[o] \in Row /\ watch[o] \in Stopwatch /\ now \in Nat
             /\ Chained(orders[o]) /\ ClocksAgree(orders[o], watch[o], now)
  BY DEF Live, MeasuredInv, Typed, Measured
<1>2. ASSUME NEW o \in Live
      PROVE  LastChange(o) + Threshold < now <=> watch[o].since > Threshold
  <2> DEFINE last == orders[o].history[Len(orders[o].history)].at
  <2>1. last + watch[o].since = now /\ LastChange(o) = last
    BY <1>1, LastChangeIs DEF ClocksAgree, Live
  <2>2. last \in Nat /\ watch[o].since \in Nat /\ Threshold \in Nat /\ now \in Nat
    BY <1>1, HistoryTypes, TimeAssumption DEF Stopwatch
  <2> HIDE DEF last
  <2> QED
    BY <2>1, <2>2
<1>3. ASSUME NEW o \in Live, NEW k \in Nat
      PROVE  LocalDay(orders[o].createdAt) + k = LocalDay(now) <=> watch[o].days = k
  <2>1. LocalDay(orders[o].createdAt) + watch[o].days = LocalDay(now)
    BY <1>1 DEF ClocksAgree
  <2>2. /\ LocalDay(orders[o].createdAt) \in Int /\ LocalDay(now) \in Int
        /\ watch[o].days \in Nat
    BY <1>1, DayTurns DEF Row, Stopwatch
  <2> QED
    BY <2>1, <2>2
<1>4. ASSUME NEW s \in STALLED_STATUSES
      PROVE  {o \in FindByStatus(s) : LastChange(o) + Threshold < now}
               = {o \in FindByStatus(s) : watch[o].since > Threshold}
  BY <1>2 DEF FindByStatus
<1>5. ASSUME NEW k \in 0..VolumeDays - 1
      PROVE  {o \in Live : LocalDay(orders[o].createdAt) + k = LocalDay(now)}
               = {o \in Live : watch[o].days = k}
  BY <1>3, TimeAssumption
<1> QED
  BY <1>4, <1>5 DEF AgesAgree, Stalled, CreatedDaysAgo

\* The alarm of waiting orders and the number of orders opened on each local day
\* are what the stopwatches of the orders say, wherever the day begins.
THEOREM AgesAreRight == Spec => []AgesAgree
  BY AlwaysMeasured, AgesFollow, PTL

-----------------------------------------------------------------------------
(* The execution time of one order and of many.                            *)

LEMMA FirstAtIs ==
  ASSUME NEW o \in Orders, orders[o].history \in Seq(Entries), NEW s,
         NEW i, FirstTo(orders[o].history, s, i)
  PROVE  EntriesTo(o, s) # {} /\ FirstAt(o, s) = orders[o].history[i].at
<1>1. EntriesTo(o, s) \subseteq Int
  BY DEF EntriesTo
<1>2. i \in EntriesTo(o, s) /\ \A j \in EntriesTo(o, s) : i <= j
  BY DEF EntriesTo, FirstTo
<1>3. Min(EntriesTo(o, s)) = i
  BY <1>1, <1>2, MinIs
<1> QED
  BY <1>2, <1>3 DEF FirstAt

\* The code's loop over the entries of an order finds what the stopwatch measured.
LEMMA ExecutionIs ==
  ASSUME MeasuredInv, NEW o \in Orders, orders[o].row # "absent"
  PROVE  /\ ExecutionMinutes(o) = IF watch[o].work = "after" THEN watch[o].worked ELSE 0
         /\ watch[o].worked \in Nat
<1>1. /\ orders[o] \in Row /\ watch[o] \in Stopwatch /\ WorkAgrees(orders[o], watch[o], now)
  BY DEF MeasuredInv, Typed, Measured
<1>2. /\ orders[o].history \in Seq(Entries) /\ watch[o].worked \in Nat
      /\ watch[o].work \in {"before", "during", "after"}
  BY <1>1 DEF Row, Stopwatch
<1> DEFINE h == orders[o].history
<1>3. CASE watch[o].work = "before"
  <2>1. EntriesTo(o, "EM_EXECUCAO") = {}
    BY <1>1, <1>3 DEF WorkAgrees, NeverTo, EntriesTo
  <2> QED
    BY <1>2, <1>3, <2>1 DEF ExecutionMinutes
<1>4. CASE watch[o].work = "during"
  <2>1. EntriesTo(o, "FINALIZADA") = {}
    BY <1>1, <1>4 DEF WorkAgrees, NeverTo, EntriesTo
  <2> QED
    BY <1>2, <1>4, <2>1 DEF ExecutionMinutes
<1>5. CASE watch[o].work = "after"
  <2>1. PICK e, f \in DOMAIN h :
          /\ FirstTo(h, "EM_EXECUCAO", e) /\ FirstTo(h, "FINALIZADA", f)
          /\ h[e].at + watch[o].worked = h[f].at
    BY <1>1, <1>5 DEF WorkAgrees
  <2>2. /\ EntriesTo(o, "EM_EXECUCAO") # {} /\ FirstAt(o, "EM_EXECUCAO") = h[e].at
        /\ EntriesTo(o, "FINALIZADA") # {} /\ FirstAt(o, "FINALIZADA") = h[f].at
    BY <1>2, <2>1, FirstAtIs
  <2>3. h[e].at \in Nat /\ h[f].at \in Nat
    <3>1. h[e] \in Entries /\ h[f] \in Entries
      BY <1>2, <2>1
    <3> HIDE DEF h
    <3> QED
      BY <3>1 DEF Entries
  <2>4. h[f].at - h[e].at = watch[o].worked
    BY <1>2, <2>1, <2>3
  <2> QED
    BY <1>2, <1>5, <2>2, <2>4 DEF ExecutionMinutes
<1> QED
  BY <1>2, <1>3, <1>4, <1>5

\* What the stopwatches say of an order.
Worked == [o \in Orders |-> watch[o].worked]
Executed(S) == {o \in S : watch[o].work = "after" /\ watch[o].worked > 0}

LEMMA CountedAre ==
  ASSUME MeasuredInv, IsFiniteSet(Orders),
         NEW S \in SUBSET Orders, \A o \in S : orders[o].row # "absent"
  PROVE  /\ Counted(S) = Executed(S) /\ IsFiniteSet(Counted(S))
         /\ Minutes(S) = Total(Worked, Counted(S))
<1>1. \A o \in S : /\ ExecutionMinutes(o) = (IF watch[o].work = "after" THEN watch[o].worked ELSE 0)
                   /\ watch[o].worked \in Nat
  BY ExecutionIs
<1>2. Counted(S) = Executed(S)
  BY <1>1 DEF Counted, Executed
<1>3. IsFiniteSet(Counted(S)) /\ Counted(S) \subseteq S
  BY FS_Subset DEF Counted
<1> DEFINE f == [o \in Orders |-> ExecutionMinutes(o)]
<1>4. Minutes(S) = Total(f, Counted(S))
  BY <1>3 DEF Minutes, Total, MapThenSumSet, MapThenFoldSet
<1>5. \A o \in Counted(S) : f[o] \in Int /\ f[o] = Worked[o]
  BY <1>1, <1>2 DEF Executed, Worked
<1>6. Total(f, Counted(S)) = Total(Worked, Counted(S))
  <2> HIDE DEF f
  <2> QED
    BY <1>3, <1>5, TotalSame
<1> QED
  BY <1>2, <1>3, <1>4, <1>6

LEMMA ExecutionFollows ==
  ASSUME IsFiniteSet(Orders), MeasuredInv
  PROVE  ExecutionTimesAgree
<1> DEFINE F == FindByStatus("FINALIZADA")
           D == FindByStatus("ENTREGUE")
           B == {o \in Live : orders[o].status \in Finished}
           done == Executed(Live)
<1>1. /\ \A S \in {F, D, B, Live} : S \in SUBSET Orders /\ \A o \in S : orders[o].row # "absent"
      /\ B = F \union D /\ F \intersect D = {}
  BY DEF FindByStatus, Live, Finished
<1>2. \A S \in {F, D, B} : /\ Counted(S) = Executed(S) /\ IsFiniteSet(Counted(S))
                           /\ Minutes(S) = Total(Worked, Counted(S))
  BY <1>1, CountedAre
<1>3. Executed(B) = done
  <2>1. ASSUME NEW o \in Live, watch[o].work = "after"  PROVE  orders[o].status \in Finished
    BY <2>1 DEF Live, MeasuredInv, Measured, WorkAgrees
  <2> QED
    BY <2>1 DEF Executed
<1>4. Executed(B) = Executed(F) \union Executed(D) /\ Executed(F) \intersect Executed(D) = {}
  BY <1>1 DEF Executed
<1>5. \A o \in Executed(B) : Worked[o] \in Int
  BY <1>1 DEF MeasuredInv, Typed, Stopwatch, Executed, Worked
<1> HIDE DEF F, D, B, done
<1>6. /\ Cardinality(Counted(F)) + Cardinality(Counted(D)) = Cardinality(done)
      /\ Cardinality(Counted(B)) = Cardinality(done)
  <2>1. Cardinality(Executed(F) \intersect Executed(D)) = 0
    BY <1>4, FS_EmptySet
  <2>2. /\ Cardinality(Executed(F)) \in Nat /\ Cardinality(Executed(D)) \in Nat
        /\ Cardinality(Executed(F) \union Executed(D))
             = Cardinality(Executed(F)) + Cardinality(Executed(D))
                 - Cardinality(Executed(F) \intersect Executed(D))
    BY <1>2, FS_Union, FS_CardinalityType
  <2>3. Cardinality(Executed(F) \union Executed(D))
          = Cardinality(Executed(F)) + Cardinality(Executed(D))
    BY <2>1, <2>2
  <2> QED
    BY <1>2, <1>3, <1>4, <2>3, Zenon
<1>7. /\ Minutes(F) + Minutes(D) = Total(Worked, done)
      /\ Minutes(B) = Total(Worked, done)
  <2>1. \A o \in Executed(F) \union Executed(D) : Worked[o] \in Int
    BY <1>4, <1>5
  <2>2. Total(Worked, Executed(F) \union Executed(D))
          = Total(Worked, Executed(F)) + Total(Worked, Executed(D))
    BY <1>2, <1>4, <2>1, TotalDisjoint
  <2> QED
    BY <1>2, <1>3, <1>4, <2>2
<1>8. MapThenSumSet(LAMBDA o : watch[o].worked, done) = Total(Worked, done)
  <2>1. done \subseteq Orders
    BY DEF done, Executed, Live
  <2> QED
    BY <2>1 DEF Worked, Total, MapThenSumSet, MapThenFoldSet
<1>9. AverageExecutionTime(F, D)
        = [count |-> Cardinality(done), average |-> Round(Total(Worked, done), Cardinality(done))]
  BY <1>6, <1>7 DEF AverageExecutionTime
<1>10. OperationalReport
        = [count |-> Cardinality(done), average |-> Round(Total(Worked, done), Cardinality(done))]
  <2>1. Counted(Counted(B)) = Counted(B)
    BY DEF Counted
  <2>2. Minutes(Counted(B)) = Minutes(B)
    BY <2>1 DEF Minutes
  <2>3. OperationalReport = [count |-> Cardinality(Counted(B)),
                             average |-> Round(Minutes(Counted(B)), Cardinality(Counted(B)))]
    BY DEF OperationalReport, B
  <2> QED
    BY <1>6, <1>7, <2>2, <2>3
<1> QED
  BY <1>8, <1>9, <1>10 DEF ExecutionTimesAgree, F, D, done, Executed

\* The two averages the program computes, from two reads and from one, are the
\* average of what the stopwatches measured, for any number of orders.
THEOREM ExecutionTimesRight ==
  ASSUME IsFiniteSet(Orders)
  PROVE  Spec => []ExecutionTimesAgree
  BY AlwaysMeasured, ExecutionFollows, PTL

-----------------------------------------------------------------------------
(* How long the orders stay in a status.                                   *)

Stays(o, s) == {i \in EntriesTo(o, s) : ClosedInWindow(orders[o].history, i)}
Stops(o, s) ==
  {i \in DOMAIN watch[o].stays : watch[o].stays[i].status = s /\ watch[o].stays[i].ago < Window}

TimeSpent(o) == [i \in DOMAIN orders[o].history |->
                   LeftAt(orders[o].history, i) - orders[o].history[i].at]
TimeStopped(o) == [i \in DOMAIN watch[o].stays |-> watch[o].stays[i].length]

\* lead() finds the next entry of a history, also among entries of one time.
LEMMA LeftAtIs ==
  ASSUME NEW r \in Row, Chained(r), NEW i \in DOMAIN r.history
  PROVE  LET h == r.history
         IN  /\ Later(h, i) = i + 1..Len(h)
             /\ i < Len(h) => LeftAt(h, i) = h[i + 1].at
<1> DEFINE h == r.history
<1>1. /\ DOMAIN h = 1..Len(h) /\ Len(h) \in Nat /\ i \in 1..Len(h)
      /\ \A j \in 1..Len(h) : h[j].at \in Nat
  BY HistoryTypes
<1>2. \A j, k \in 1..Len(h) : j <= k => h[j].at <= h[k].at
  BY <1>1 DEF Chained
<1> HIDE DEF h
<1>3. Later(h, i) = i + 1..Len(h)
  <2>1. ASSUME NEW j \in 1..Len(h)
        PROVE  (h[j].at > h[i].at \/ (h[j].at = h[i].at /\ j > i)) <=> j > i
    BY <1>1, <1>2
  <2> QED
    BY <1>1, <2>1 DEF Later
<1>4. ASSUME i < Len(h)  PROVE  LeftAt(h, i) = h[i + 1].at
  <2> DEFINE S == {h[j].at : j \in i + 1..Len(h)}
  <2>1. i + 1 \in 1..Len(h) /\ i + 1..Len(h) \subseteq 1..Len(h)
    BY <1>1, <1>4
  <2>2. h[i + 1].at \in S /\ S \subseteq Int /\ \A x \in S : h[i + 1].at <= x
    BY <1>1, <1>2, <1>4, <2>1
  <2>3. LeftAt(h, i) = Min(S)
    BY <1>3 DEF LeftAt
  <2> HIDE DEF S
  <2> QED
    BY <2>2, <2>3, MinIs
<1> QED
  BY <1>3, <1>4 DEF h

LEMMA StaysAreStops ==
  ASSUME MeasuredInv, NEW o \in Live, NEW s
  PROVE  /\ Stays(o, s) = Stops(o, s) /\ IsFiniteSet(Stays(o, s))
         /\ \A i \in Stays(o, s) : TimeSpent(o)[i] \in Int /\ TimeSpent(o)[i] = TimeStopped(o)[i]
         /\ Total(TimeSpent(o), Stays(o, s)) \in Int
         /\ Total(TimeSpent(o), Stays(o, s)) = Total(TimeStopped(o), Stops(o, s))
<1> DEFINE r == orders[o]
           w == watch[o]
           h == r.history
<1>1. /\ r \in Row /\ w \in Stopwatch /\ Chained(r) /\ StaysAgree(r, w)
      /\ ClocksAgree(r, w, now) /\ now \in Nat /\ Window \in Nat
  BY TimeAssumption DEF Live, MeasuredInv, Typed, Measured
<1> HIDE DEF r, w
<1>2. /\ DOMAIN h = 1..Len(h) /\ Len(h) \in Nat /\ Len(h) > 0
      /\ \A i \in 1..Len(h) : h[i].at \in Nat
  BY <1>1, HistoryTypes
<1>3. /\ DOMAIN w.stays = 1..Len(h) - 1
      /\ \A i \in 1..Len(h) - 1 :
           /\ w.stays[i].status = h[i].to /\ w.stays[i].length = h[i + 1].at - h[i].at
           /\ h[i + 1].at + w.stays[i].ago = now /\ w.stays[i].ago \in Nat
  <2>1. w.stays \in Seq(Stay) /\ Len(w.stays) = Len(h) - 1
    BY <1>1 DEF Stopwatch, StaysAgree
  <2>2. DOMAIN w.stays = 1..Len(h) - 1 /\ \A i \in 1..Len(h) - 1 : w.stays[i] \in Stay
    BY <2>1
  <2> QED
    BY <1>1, <2>2 DEF StaysAgree, ClocksAgree, Stay
<1>4. ASSUME NEW i \in 1..Len(h)
      PROVE  /\ Later(h, i) = i + 1..Len(h)
             /\ i < Len(h) => LeftAt(h, i) = h[i + 1].at
  BY <1>1, <1>2, LeftAtIs
<1> HIDE DEF h
<1>5. ASSUME NEW i \in 1..Len(h)
      PROVE  ClosedInWindow(h, i) <=> i < Len(h) /\ w.stays[i].ago < Window
  <2>1. Later(h, i) # {} <=> i < Len(h)
    <3>1. i < Len(h) <=> i + 1..Len(h) # {}
      <4>1. i < Len(h) => i + 1 \in i + 1..Len(h)
        BY <1>2
      <4>2. \A j \in i + 1..Len(h) : i < Len(h)
        BY <1>2
      <4> QED
        BY <4>1, <4>2
    <3> QED
      BY <1>4, <3>1
  <2>2. ASSUME i < Len(h)  PROVE  LeftAt(h, i) + Window > now <=> w.stays[i].ago < Window
    <3>1. i \in 1..Len(h) - 1 /\ i + 1 \in 1..Len(h)
      BY <1>2, <2>2
    <3> QED
      BY <1>1, <1>2, <1>3, <1>4, <2>2, <3>1
  <2> QED
    BY <2>1, <2>2 DEF ClosedInWindow
<1>6. Stays(o, s) = Stops(o, s) /\ Stays(o, s) \subseteq 1..Len(h) - 1
  <2>1. Stays(o, s) = {i \in 1..Len(h) : h[i].to = s /\ ClosedInWindow(h, i)}
    BY <1>2 DEF Stays, EntriesTo, h, r
  <2>2. Stops(o, s) = {i \in 1..Len(h) - 1 : w.stays[i].status = s /\ w.stays[i].ago < Window}
    BY <1>3 DEF Stops, w
  <2>3. \A i \in 1..Len(h) - 1 : i \in 1..Len(h) /\ i < Len(h)
    BY <1>2
  <2>4. \A i \in 1..Len(h) : i < Len(h) => i \in 1..Len(h) - 1
    BY <1>2
  <2> QED
    BY <1>3, <1>5, <2>1, <2>2, <2>3, <2>4
<1>7. IsFiniteSet(Stays(o, s))
  <2>1. 1 \in Int /\ Len(h) - 1 \in Int
    BY <1>2
  <2>2. IsFiniteSet(1..Len(h) - 1)
    BY <2>1, FS_Interval
  <2> QED
    BY <1>6, <2>2, FS_Subset
<1>8. ASSUME NEW i \in Stays(o, s)
      PROVE  TimeSpent(o)[i] \in Int /\ TimeSpent(o)[i] = TimeStopped(o)[i]
  <2>1. i \in 1..Len(h) - 1 /\ i \in 1..Len(h) /\ i + 1 \in 1..Len(h) /\ i < Len(h)
    BY <1>2, <1>6
  <2>2. TimeSpent(o)[i] = h[i + 1].at - h[i].at
    BY <1>2, <1>4, <2>1 DEF TimeSpent, h, r
  <2>3. TimeStopped(o)[i] = h[i + 1].at - h[i].at
    BY <1>3, <2>1 DEF TimeStopped, w
  <2> QED
    BY <1>2, <2>1, <2>2, <2>3
<1>9. /\ Total(TimeSpent(o), Stays(o, s)) \in Int
      /\ Total(TimeSpent(o), Stays(o, s)) = Total(TimeStopped(o), Stops(o, s))
  BY <1>6, <1>7, <1>8, TotalStep, TotalSame
<1> QED
  BY <1>6, <1>7, <1>8, <1>9

\* As the source adds them up.
SumSpent(o, s) ==
  MapThenSumSet(LAMBDA i : LeftAt(orders[o].history, i) - orders[o].history[i].at, Stays(o, s))
SumStopped(o, s) == MapThenSumSet(LAMBDA i : watch[o].stays[i].length, Stops(o, s))

\* Per order, the time and the number of the stays in a status.
Spent(s) == [o \in Live |-> Total(TimeSpent(o), Stays(o, s))]
Stopped(s) == [o \in Live |-> Total(TimeStopped(o), Stops(o, s))]
SamplesSpent(s) == [o \in Live |-> Cardinality(Stays(o, s))]
SamplesStopped(s) == [o \in Live |-> Cardinality(Stops(o, s))]

LEMMA DurationsFollow ==
  ASSUME IsFiniteSet(Orders), MeasuredInv
  PROVE  DurationsAgree
<1> SUFFICES ASSUME NEW s \in ServiceOrderStatus
             PROVE  AverageStatusDuration(s) =
                      [seconds |-> Total(Stopped(s), Live), samples |-> Total(SamplesStopped(s), Live)]
  <2>1. ASSUME NEW s \in ServiceOrderStatus
        PROVE  MapThenSumSet(LAMBDA o : SumStopped(o, s), Live) = Total(Stopped(s), Live)
    <3>1. ASSUME NEW o  PROVE SumStopped(o, s) = Total(TimeStopped(o), Stops(o, s))
      <4>1. Stops(o, s) \subseteq DOMAIN watch[o].stays
        BY DEF Stops
      <4> QED
        BY <4>1, ZenonT(30) DEF SumStopped, TimeStopped, Total, MapThenSumSet, MapThenFoldSet
    <3>2. Stopped(s) = [o \in Live |-> SumStopped(o, s)]
      BY <3>1 DEF Stopped
    <3>3. MapThenSumSet(LAMBDA o : SumStopped(o, s), Live)
            = Total([o \in Live |-> SumStopped(o, s)], Live)
      BY DEF Total, MapThenSumSet, MapThenFoldSet
    <3> QED
      BY <3>2, <3>3
  <2>2. ASSUME NEW s \in ServiceOrderStatus
        PROVE  MapThenSumSet(LAMBDA o : Cardinality(Stops(o, s)), Live) = Total(SamplesStopped(s), Live)
    BY DEF SamplesStopped, Total, MapThenSumSet, MapThenFoldSet
  <2> QED
    BY <2>1, <2>2 DEF DurationsAgree, Stops, SumStopped
<1>1. AverageStatusDuration(s)
        = [seconds |-> Total(Spent(s), Live), samples |-> Total(SamplesSpent(s), Live)]
  <2>1. MapThenSumSet(LAMBDA o : SumSpent(o, s), Live) = Total(Spent(s), Live)
    <3>1. ASSUME NEW o  PROVE SumSpent(o, s) = Total(TimeSpent(o), Stays(o, s))
      BY DEF SumSpent, TimeSpent, Stays, EntriesTo, Total, MapThenSumSet, MapThenFoldSet
    <3>2. Spent(s) = [o \in Live |-> SumSpent(o, s)]
      BY <3>1 DEF Spent
    <3>3. MapThenSumSet(LAMBDA o : SumSpent(o, s), Live)
            = Total([o \in Live |-> SumSpent(o, s)], Live)
      BY DEF Total, MapThenSumSet, MapThenFoldSet
    <3> QED
      BY <3>2, <3>3
  <2>2. MapThenSumSet(LAMBDA o : Cardinality(Stays(o, s)), Live) = Total(SamplesSpent(s), Live)
    BY DEF SamplesSpent, Total, MapThenSumSet, MapThenFoldSet
  <2> QED
    BY <2>1, <2>2 DEF AverageStatusDuration, Stays, SumSpent
<1>2. IsFiniteSet(Live)
  BY FS_Subset DEF Live
<1>3. /\ \A o \in Live : Spent(s)[o] \in Int /\ Spent(s)[o] = Stopped(s)[o]
      /\ \A o \in Live : SamplesSpent(s)[o] \in Int /\ SamplesSpent(s)[o] = SamplesStopped(s)[o]
  <2>1. ASSUME NEW o \in Live
        PROVE  /\ Stays(o, s) = Stops(o, s) /\ IsFiniteSet(Stays(o, s))
               /\ Total(TimeSpent(o), Stays(o, s)) \in Int
               /\ Total(TimeSpent(o), Stays(o, s)) = Total(TimeStopped(o), Stops(o, s))
    BY StaysAreStops
  <2>2. ASSUME NEW o \in Live PROVE Cardinality(Stays(o, s)) \in Int
    BY <2>1, FS_CardinalityType
  <2> QED
    BY <2>1, <2>2 DEF Spent, Stopped, SamplesSpent, SamplesStopped
<1>4. Total(Spent(s), Live) = Total(Stopped(s), Live)
  BY <1>2, <1>3, TotalSame
<1>5. Total(SamplesSpent(s), Live) = Total(SamplesStopped(s), Live)
  BY <1>2, <1>3, TotalSame
<1> QED
  BY <1>1, <1>4, <1>5

\* The durations of the metrics are the stays the stopwatches measured, one by
\* one, for any histories and any window.
THEOREM DurationsRight ==
  ASSUME IsFiniteSet(Orders)
  PROVE  Spec => []DurationsAgree
  BY AlwaysMeasured, DurationsFollow, PTL

-----------------------------------------------------------------------------
(* A report between its two reads.                                         *)

\* A rounded average is between the least and the greatest value.
LEMMA RoundBetween ==
  ASSUME NEW count \in Nat, count > 0, NEW total \in Int
  PROVE  LET q == Round(total, count)
         IN  q \in Int /\ ~(total >= (q + 1) * count) /\ ~(total <= (q - 1) * count)
<1> DEFINE q == Round(total, count)
           d == 2 * count
           p == q * count
<1>1. d \in Nat \ {0} /\ 2 * total + count \in Int
  OBVIOUS
<1>2. q = (2 * total + count) \div d
  BY DEF Round
<1>3. /\ 2 * total + count = d * q + ((2 * total + count) % d) /\ q \in Int
      /\ (2 * total + count) % d \in 0..d - 1
  <2> HIDE DEF d, q
  <2> QED
    BY <1>1, <1>2, DivMod
<1> DEFINE r == (2 * total + count) % d
<1> HIDE DEF q, r
<1>4. (q + 1) * count = p + count /\ (q - 1) * count = p - count /\ d * q = 2 * p /\ p \in Int
  BY <1>3
<1>5. 2 * total + count = 2 * p + r /\ r \in Int /\ 0 <= r /\ r < 2 * count
  BY <1>1, <1>3, <1>4 DEF r
<1> HIDE DEF p, d
<1>6. q \in Int /\ ~(total >= p + count) /\ ~(total <= p - count)
  BY <1>3, <1>4, <1>5
<1> QED
  BY <1>4, <1>6 DEF q

\* What an answer computed from two lists of orders says of them.
LEMMA AnswerBetween ==
  ASSUME IsFiniteSet(Orders), MeasuredInv, NEW S \in SUBSET Orders, NEW T \in SUBSET Orders,
         \A o \in S \union T : orders[o].row # "absent"
  PROVE  LET answer == AverageExecutionTime(S, T)
         IN  /\ answer.count = Cardinality(Executed(S)) + Cardinality(Executed(T))
             /\ IsFiniteSet(Executed(S)) /\ IsFiniteSet(Executed(T))
             /\ answer.count > 0 =>
                  \E o, p \in Executed(S) \union Executed(T) :
                    watch[o].worked <= answer.average /\ watch[p].worked >= answer.average
<1> DEFINE A == Executed(S)
           B == Executed(T)
           total == Total(Worked, A) + Total(Worked, B)
           count == Cardinality(A) + Cardinality(B)
           q == Round(total, count)
<1>1. /\ Counted(S) = A /\ IsFiniteSet(A) /\ Minutes(S) = Total(Worked, A)
      /\ Counted(T) = B /\ IsFiniteSet(B) /\ Minutes(T) = Total(Worked, B)
  BY CountedAre
<1>2. AverageExecutionTime(S, T) = [count |-> count, average |-> q]
  BY <1>1 DEF AverageExecutionTime
<1>3. \A o \in A \union B : Worked[o] \in Int /\ Worked[o] = watch[o].worked
  BY DEF MeasuredInv, Typed, Stopwatch, Executed, Worked
<1>4. Total(Worked, A) \in Int /\ Total(Worked, B) \in Int
  BY <1>1, <1>3, TotalStep
<1>5. Cardinality(A) \in Nat /\ Cardinality(B) \in Nat
  BY <1>1, FS_CardinalityType
<1> HIDE DEF A, B
<1>6. ASSUME count > 0  PROVE  q \in Int /\ ~(total >= (q + 1) * count) /\ ~(total <= (q - 1) * count)
  <2>1. count \in Nat /\ total \in Int
    BY <1>4, <1>5
  <2> HIDE DEF count, total
  <2> QED
    BY <1>6, <2>1, RoundBetween
<1> DEFINE a == Cardinality(A)
           b == Cardinality(B)
<1>7. ASSUME count > 0  PROVE  \E o \in A \union B : Worked[o] <= q
  <2> SUFFICES ASSUME \A o \in A \union B : ~(Worked[o] <= q) PROVE FALSE
    OBVIOUS
  <2> HIDE DEF q
  <2>1. \A o \in A \union B : q + 1 <= Worked[o]
    BY <1>3, <1>6, <1>7
  <2>2. q + 1 \in Int
    BY <1>6, <1>7
  <2>3. (q + 1) * a <= Total(Worked, A) /\ (q + 1) * b <= Total(Worked, B)
    BY <1>1, <1>3, <2>1, <2>2, TotalBounds
  <2>4. (q + 1) * (a + b) = (q + 1) * a + (q + 1) * b /\ (q + 1) * a \in Int /\ (q + 1) * b \in Int
    <3> HIDE DEF a, b
    <3> QED
      BY <1>5, <2>2 DEF a, b
  <2>5. total >= (q + 1) * (a + b)
    <3> HIDE DEF a, b
    <3> QED
      BY <1>4, <2>3, <2>4
  <2> QED
    BY <1>6, <1>7, <2>5
<1>8. ASSUME count > 0  PROVE  \E p \in A \union B : Worked[p] >= q
  <2> SUFFICES ASSUME \A p \in A \union B : ~(Worked[p] >= q) PROVE FALSE
    OBVIOUS
  <2> HIDE DEF q
  <2>1. \A o \in A \union B : Worked[o] <= q - 1
    BY <1>3, <1>6, <1>8
  <2>2. q - 1 \in Int
    BY <1>6, <1>8
  <2>3. Total(Worked, A) <= (q - 1) * a /\ Total(Worked, B) <= (q - 1) * b
    BY <1>1, <1>3, <2>1, <2>2, TotalBounds
  <2>4. (q - 1) * (a + b) = (q - 1) * a + (q - 1) * b /\ (q - 1) * a \in Int /\ (q - 1) * b \in Int
    <3> HIDE DEF a, b
    <3> QED
      BY <1>5, <2>2 DEF a, b
  <2>5. total <= (q - 1) * (a + b)
    <3> HIDE DEF a, b
    <3> QED
      BY <1>4, <2>3, <2>4
  <2> QED
    BY <1>6, <1>8, <2>5
<1> HIDE DEF q, count, total
<1> QED
  BY <1>1, <1>2, <1>3, <1>7, <1>8 DEF A, B, count

\* Between the two reads of a report: what was read is finished, and what the
\* answer must not miss was read or is there for the second read.
ReadingOwes ==
  /\ report.finalized \subseteq Orders /\ report.owed \subseteq Live
  /\ \A o \in report.finalized : watch[o].work = "after"
  /\ \A o \in report.owed :
       /\ watch[o].work = "after" /\ watch[o].worked > 0
       /\ o \in report.finalized \/ orders[o].status = "ENTREGUE"

ReportInv ==
  /\ report.step \in {"idle", "reading", "done"} /\ {"step", "owed"} \subseteq DOMAIN report
  /\ report.step = "reading" => ReadingOwes /\ "finalized" \in DOMAIN report
  /\ report.step = "done" => "answer" \in DOMAIN report
  /\ ReportIsPlausible

\* What an order worked stands once its work is done, and so does its delivery.
LEMMA WorkStands ==
  ASSUME MeasuredInv, [Next]_vars, NEW o \in Orders, watch[o].work = "after"
  PROVE  /\ orders[o].row # "absent"
         /\ watch'[o].work = "after" /\ watch'[o].worked = watch[o].worked
         /\ orders[o].status = "ENTREGUE" => orders'[o].status = "ENTREGUE"
<1>1. /\ orders \in [Orders -> Row] /\ watch \in [Orders -> Stopwatch]
      /\ orders[o].row # "absent"
  BY DEF MeasuredInv, Typed, Measured, NoWatch
<1>2. ASSUME NEW q \in Orders, NEW to \in ServiceOrderStatus, Move(q, to)
      PROVE  /\ watch'[o].work = "after" /\ watch'[o].worked = watch[o].worked
             /\ orders[o].status = "ENTREGUE" => orders'[o].status = "ENTREGUE"
  <2>1. CASE q = o
    <3>1. watch'[o] = Lap(watch[o], orders[o].status, to)
      BY <1>1, <1>2, <2>1 DEF Move
    <3>2. watch'[o].work = "after" /\ watch'[o].worked = watch[o].worked
      BY <1>1, <3>1 DEF Lap, Stopwatch
    <3>3. orders[o].status # "ENTREGUE"
      BY <1>2, <2>1 DEF Move, ALLOWED_TRANSITIONS
    <3> QED
      BY <3>2, <3>3
  <2>2. CASE q # o
    BY <1>1, <1>2, <2>2 DEF Move
  <2> QED
    BY <2>1, <2>2
<1>3. ASSUME NEW q \in Orders, Open(q) \/ Remove(q)
      PROVE  watch' = watch /\ orders'[o].status = orders[o].status
  <2>1. CASE Open(q)
    BY <1>1, <2>1 DEF Open
  <2>2. CASE Remove(q)
    BY <1>1, <2>2 DEF Remove, Row
  <2> QED
    BY <1>3, <2>1, <2>2
<1>4. CASE Tick
  <2>1. orders' = orders /\ watch'[o] \in {watch[o], Run(watch[o])}
    BY <1>1, <1>4 DEF Tick
  <2>2. Run(watch[o]).work = "after" /\ Run(watch[o]).worked = watch[o].worked
    <3>1. watch[o] \in Stopwatch
      BY <1>1
    <3> QED
      BY <3>1 DEF Run, Stopwatch
  <2> QED
    BY <1>1, <2>1, <2>2
<1>5. CASE BeginReport \/ EndReport \/ UNCHANGED vars
  BY <1>1, <1>5 DEF BeginReport, EndReport, vars
<1> QED
  BY <1>1, <1>2, <1>3, <1>4, <1>5 DEF Next

\* An order whose work is done is finished or delivered, and no other is.
LEMMA DoneIsFinished ==
  ASSUME MeasuredInv, NEW o \in Live
  PROVE  orders[o].status \in Finished <=> watch[o].work = "after"
<1>1. WorkAgrees(orders[o], watch[o], now) /\ watch[o].work \in {"before", "during", "after"}
  BY DEF Live, MeasuredInv, Typed, Measured, Stopwatch
<1> QED
  BY <1>1 DEF WorkAgrees

LEMMA InitReport == Init => ReportInv
  BY DEF Init, ReportInv, ReportIsPlausible

LEMMA BegunReport ==
  ASSUME MeasuredInv, BeginReport
  PROVE  ReportInv'
<1>1. /\ report' = [step |-> "reading", finalized |-> FindByStatus("FINALIZADA"),
                    owed |-> Executed(Live)]
      /\ UNCHANGED <<orders, watch>>
  BY DEF BeginReport, ReadOrder, Executed
<1>2. FindByStatus("FINALIZADA") \subseteq Live /\ Executed(Live) \subseteq Live
  BY DEF FindByStatus, Executed
<1>3. \A o \in FindByStatus("FINALIZADA") : watch[o].work = "after"
  BY DoneIsFinished DEF FindByStatus, Finished
<1>4. \A o \in Executed(Live) :
        /\ watch[o].work = "after" /\ watch[o].worked > 0
        /\ o \in FindByStatus("FINALIZADA") \/ orders[o].status = "ENTREGUE"
  BY <1>2, DoneIsFinished DEF FindByStatus, Executed, Finished
<1>5. Live' = Live /\ Live \subseteq Orders
  BY <1>1 DEF Live
<1>6. ReadingOwes'
  BY <1>1, <1>2, <1>3, <1>4, <1>5 DEF ReadingOwes
<1>7. report'.step = "reading" /\ DOMAIN report' = {"step", "finalized", "owed"}
  BY <1>1
<1> QED
  BY <1>6, <1>7 DEF ReportInv, ReportIsPlausible

LEMMA EndedReport ==
  ASSUME IsFiniteSet(Orders), MeasuredInv, ReportInv, EndReport
  PROVE  ReportInv'
<1> DEFINE S == report.finalized
           T == FindByStatus("ENTREGUE")
           answer == AverageExecutionTime(S, T)
<1>1. /\ report' = [step |-> "done", owed |-> report.owed, answer |-> answer]
      /\ UNCHANGED <<orders, watch>> /\ ReadingOwes
  BY DEF EndReport, ReadOrder, ReportInv
<1>2. S \in SUBSET Orders /\ T \in SUBSET Orders /\ T \subseteq Live
  BY <1>1 DEF ReadingOwes, FindByStatus, Live
<1>3. \A o \in S \union T : orders[o].row # "absent"
  <2>1. \A o \in S : watch[o].work = "after" /\ o \in Orders
    BY <1>1, <1>2 DEF ReadingOwes
  <2>2. \A o \in S : orders[o].row # "absent"
    BY <2>1 DEF MeasuredInv, Measured, NoWatch
  <2> QED
    BY <1>2, <2>2 DEF Live
<1>4. /\ answer.count = Cardinality(Executed(S)) + Cardinality(Executed(T))
      /\ IsFiniteSet(Executed(S)) /\ IsFiniteSet(Executed(T))
      /\ answer.count > 0 =>
           \E o, p \in Executed(S) \union Executed(T) :
             watch[o].worked <= answer.average /\ watch[p].worked >= answer.average
  BY <1>2, <1>3, AnswerBetween
<1>5. report.owed \subseteq Executed(S) \union Executed(T)
  BY <1>1 DEF ReadingOwes, Executed, FindByStatus
<1> HIDE DEF answer, S, T
<1>6. Cardinality(report.owed) <= answer.count
  <2>1. /\ IsFiniteSet(Executed(S) \union Executed(T))
        /\ Cardinality(Executed(S) \union Executed(T))
             = Cardinality(Executed(S)) + Cardinality(Executed(T))
                 - Cardinality(Executed(S) \intersect Executed(T))
    BY <1>4, FS_Union
  <2>2. IsFiniteSet(Executed(S) \intersect Executed(T))
    BY <1>4, FS_Subset
  <2>3. /\ Cardinality(Executed(S)) \in Nat /\ Cardinality(Executed(T)) \in Nat
        /\ Cardinality(Executed(S) \intersect Executed(T)) \in Nat
        /\ Cardinality(report.owed) \in Nat
        /\ Cardinality(report.owed) <= Cardinality(Executed(S) \union Executed(T))
    BY <1>4, <1>5, <2>1, <2>2, FS_Subset, FS_CardinalityType
  <2> DEFINE a == Cardinality(Executed(S))
             b == Cardinality(Executed(T))
             c == Cardinality(Executed(S) \intersect Executed(T))
             d == Cardinality(Executed(S) \union Executed(T))
             e == Cardinality(report.owed)
  <2>4. d = a + b - c /\ a \in Nat /\ b \in Nat /\ c \in Nat /\ e \in Nat /\ e <= d
    BY <2>1, <2>3
  <2>5. answer.count = a + b
    BY <1>4
  <2> HIDE DEF a, b, c, d
  <2> QED
    BY <2>4, <2>5
<1>7. \A o \in Executed(S) \union Executed(T) :
        o \in Orders /\ watch[o].work = "after" /\ watch[o].worked > 0
  BY <1>2 DEF Executed
<1>8. ReportIsPlausible'
  BY <1>1, <1>4, <1>6, <1>7 DEF ReportIsPlausible
<1>9. report'.step = "done" /\ DOMAIN report' = {"step", "owed", "answer"}
  BY <1>1
<1> QED
  BY <1>8, <1>9 DEF ReportInv

\* A step that is not one of the report takes nothing from it but, from what it
\* owes, the order that is removed.
LEMMA StandingReport ==
  ASSUME MeasuredInv, ReportInv, [Next]_vars, ~BeginReport, ~EndReport
  PROVE  ReportInv'
<1>1. \A o \in Orders : watch[o].work = "after" =>
        /\ orders[o].row # "absent"
        /\ watch'[o].work = "after" /\ watch'[o].worked = watch[o].worked
        /\ orders[o].status = "ENTREGUE" => orders'[o].status = "ENTREGUE"
  BY WorkStands
<1>2. \/ report' = report /\ Live \subseteq Live'
      \/ \E o \in Orders :
           /\ report' = [report EXCEPT !.owed = IF report.step = "reading" THEN @ \ {o} ELSE @]
           /\ Live \ {o} \subseteq Live'
  <2>1. orders \in [Orders -> Row]
    BY DEF MeasuredInv, Typed
  <2>2. ASSUME NEW o \in Orders, Remove(o)
        PROVE  /\ report' = [report EXCEPT !.owed = IF report.step = "reading" THEN @ \ {o} ELSE @]
               /\ Live \ {o} \subseteq Live'
    BY <2>1, <2>2 DEF Remove, Live, Row
  <2>3. ASSUME NEW o \in Orders, NEW to \in ServiceOrderStatus, Move(o, to)
        PROVE  report' = report /\ Live \subseteq Live'
    BY <2>1, <2>3 DEF Move, Live, Row
  <2>4. ASSUME NEW o \in Orders, Open(o)  PROVE  report' = report /\ Live \subseteq Live'
    BY <2>1, <2>4 DEF Open, Live
  <2>5. CASE Tick \/ UNCHANGED vars
    BY <2>5 DEF Tick, vars, Live
  <2> QED
    BY <2>2, <2>3, <2>4, <2>5 DEF Next
<1>3. /\ report'.step = report.step /\ DOMAIN report' = DOMAIN report
      /\ report.step = "reading" =>
           /\ report'.finalized = report.finalized /\ report'.owed \subseteq report.owed
           /\ report'.owed \intersect Live \subseteq Live'
      /\ report.step = "done" => report'.owed = report.owed /\ report'.answer = report.answer
  BY <1>2 DEF ReportInv
<1>4. ASSUME report.step = "reading"  PROVE  ReadingOwes'
  <2>1. ReadingOwes
    BY <1>4 DEF ReportInv
  <2>2. report'.owed \subseteq Live'
    BY <1>3, <1>4, <2>1 DEF ReadingOwes
  <2>3. \A o \in report'.owed : o \in Orders /\ o \in report.owed
    BY <1>3, <1>4, <2>1 DEF ReadingOwes, Live
  <2> QED
    BY <1>1, <1>3, <1>4, <2>1, <2>2, <2>3 DEF ReadingOwes
<1>5. ReportIsPlausible'
  BY <1>1, <1>3 DEF ReportInv, ReportIsPlausible
<1> QED
  BY <1>3, <1>4, <1>5 DEF ReportInv

\* An average-execution-time request reads the finalized orders first and the
\* delivered ones after, while orders go on: for any number of them it misses none
\* that it owes, and its average is one an order could have had.
THEOREM ReportsPlausible ==
  ASSUME IsFiniteSet(Orders)
  PROVE  Spec => []ReportIsPlausible
<1>1. MeasuredInv /\ ReportInv /\ [Next]_vars => ReportInv'
  BY BegunReport, EndedReport, StandingReport
<1>2. ReportInv => ReportIsPlausible
  BY DEF ReportInv
<1> QED
  BY <1>1, <1>2, InitReport, AlwaysMeasured, PTL DEF Spec
=============================================================================
