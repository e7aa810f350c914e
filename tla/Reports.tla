------------------------------ MODULE Reports ------------------------------
(***************************************************************************)
(* What the program tells about the time orders take: the average          *)
(* execution time, the operational report, the numbers behind the          *)
(* business gauges (three SQL queries) and the listing of active orders.   *)
(* All of it is computed from the timestamps of the histories; stopwatches *)
(* (the variable watch), which the program does not have, measure the same *)
(* times as they pass.                                                     *)
(*                                                                         *)
(* Orders change status as Workshop lets them, budgets left out, one       *)
(* change at a time and on one clock.                                      *)
(***************************************************************************)
EXTENDS ServiceOrder, FiniteSetsExt

CONSTANTS
  Orders,
  Window,      \* DURATION_WINDOW_DAYS, in ticks
  Threshold,   \* STALLED_THRESHOLD_HOURS, in ticks
  Day,         \* ticks in a day
  Offset,      \* ticks by which Sao Paulo is behind UTC
  VolumeDays,  \* VOLUME_DAYS
  Horizon,     \* bound: when the clock stops
  MaxEntries   \* bound on the entries of all histories together

ASSUME TimeAssumption ==
  /\ {Window, Threshold, Horizon} \subseteq Nat
  /\ Day \in Nat \ {0} /\ Offset \in 0..Day - 1
  /\ VolumeDays \in Nat \ {0} /\ MaxEntries \in Nat \ {0}

VARIABLES
  now,      \* the time in UTC
  orders,   \* the rows
  report,   \* an average-execution-time request, between its two reads, or answered
  watch     \* history variable: the stopwatches of each order

vars == <<now, orders, report, watch>>

STALLED_STATUSES == {"AGUARDANDO_APROVACAO", "EM_DIAGNOSTICO"}
Finished == {"FINALIZADA", "ENTREGUE"}

Live == {o \in Orders : orders[o].row = "live"}
FindByStatus(s) == {o \in Live : orders[o].status = s}

-----------------------------------------------------------------------------
(* AverageExecutionTimeUseCase and OperationalReportUseCase.               *)

EntriesTo(o, s) == {i \in DOMAIN orders[o].history : orders[o].history[i].to = s}
FirstAt(o, s) == orders[o].history[Min(EntriesTo(o, s))].at

\* Fault: the execution counts from its last start.
ExecutionMinutesOfLast(o) ==
  IF EntriesTo(o, "EM_EXECUCAO") = {} \/ EntriesTo(o, "FINALIZADA") = {} THEN 0
  ELSE FirstAt(o, "FINALIZADA") - orders[o].history[Max(EntriesTo(o, "EM_EXECUCAO"))].at

\* Minutes from the first start of execution to the first end; 0: not counted.
ExecutionMinutes(o) ==
  IF EntriesTo(o, "EM_EXECUCAO") = {} \/ EntriesTo(o, "FINALIZADA") = {} THEN 0
  ELSE FirstAt(o, "FINALIZADA") - FirstAt(o, "EM_EXECUCAO")

Counted(S) == {o \in S : ExecutionMinutes(o) > 0}
Minutes(S) == MapThenSumSet(ExecutionMinutes, Counted(S))

\* Math.round: halves go up.
Round(total, count) == IF count = 0 THEN 0 ELSE (2 * total + count) \div (2 * count)

\* Fault: the delivered orders are read before the finalized ones.
ReadOrderSwapped == <<"ENTREGUE", "FINALIZADA">>

ReadOrder == <<"FINALIZADA", "ENTREGUE">>

\* The loop runs over two lists, and an order may be in both.
AverageExecutionTime(finalized, delivered) ==
  LET count == Cardinality(Counted(finalized)) + Cardinality(Counted(delivered))
  IN  [count |-> count,
       average |-> Round(Minutes(finalized) + Minutes(delivered), count)]

OperationalReport ==
  LET completed == Counted({o \in Live : orders[o].status \in Finished})
  IN  [count |-> Cardinality(completed),
       average |-> Round(Minutes(completed), Cardinality(completed))]

-----------------------------------------------------------------------------
(* ServiceOrderMetricsQuery.                                               *)

\* Fault: lead() orders the entries by changedAt alone.
LaterByTime(h, i) == {j \in DOMAIN h : h[j].at > h[i].at}

\* The entries after the i-th, by changedAt and, among equals, by position.
Later(h, i) ==
  {j \in DOMAIN h : h[j].at > h[i].at \/ (h[j].at = h[i].at /\ j > i)}

LeftAt(h, i) == Min({h[j].at : j \in Later(h, i)})

\* left_at IS NOT NULL AND left_at > now - window
ClosedInWindow(h, i) == Later(h, i) # {} /\ LeftAt(h, i) + Window > now

\* The stays in a status that ended within the window, in all orders.
AverageStatusDuration(s) ==
  LET Stays(o) == {i \in EntriesTo(o, s) : ClosedInWindow(orders[o].history, i)}
      Length(o) == MapThenSumSet(LAMBDA i : LeftAt(orders[o].history, i) - orders[o].history[i].at,
                                 Stays(o))
  IN  [seconds |-> MapThenSumSet(Length, Live),
       samples |-> MapThenSumSet(LAMBDA o : Cardinality(Stays(o)), Live)]

LastChange(o) == Max({orders[o].history[i].at : i \in DOMAIN orders[o].history})

Stalled(s) == Cardinality({o \in FindByStatus(s) : LastChange(o) + Threshold < now})

\* Fault: the days are those of UTC.
UtcDay(t) == (t + Day) \div Day

LocalDay(t) == (t + Day - Offset) \div Day

CreatedDaysAgo(k) ==
  Cardinality({o \in Live : LocalDay(orders[o].createdAt) + k = LocalDay(now)})

-----------------------------------------------------------------------------
(* The listing of active orders.                                           *)

\* Fault: an order that is paused is taken for one that is done.
TerminalIfPaused == Finished \union {"ENCERRADA_SEM_EXECUCAO", "PAUSADO"}

Terminal == Finished \union {"ENCERRADA_SEM_EXECUCAO"}

FindAllActive == {o \in Live : orders[o].status \notin Terminal}

-----------------------------------------------------------------------------
NoWatch == [since |-> 0, stays |-> <<>>, days |-> 0, work |-> "before", worked |-> 0]

Init ==
  /\ now = 0
  /\ orders = [o \in Orders |->
                 [row |-> "absent", status |-> "RECEBIDA", createdAt |-> 0, history |-> <<>>]]
  /\ report = [step |-> "idle", finalized |-> {}, owed |-> {}]
  /\ watch = [o \in Orders |-> NoWatch]

Room == MapThenSumSet(LAMBDA p : Len(orders[p].history), Orders) < MaxEntries

Open(o) ==
  /\ orders[o].row = "absent" /\ Room
  /\ orders' = [orders EXCEPT ![o] =
       [row |-> "live", status |-> "RECEBIDA", createdAt |-> now,
        history |-> <<[to |-> "RECEBIDA", at |-> now]>>]]
  /\ UNCHANGED <<now, report, watch>>

\* The stopwatch of the status is read and set to zero.
Lap(w, from, to) ==
  [w EXCEPT !.since = 0,
            !.stays = Append(@, [status |-> from, length |-> w.since, ago |-> 0]),
            !.work = CASE to = "EM_EXECUCAO" /\ @ = "before" -> "during"
                       [] to = "FINALIZADA" -> "after"
                       [] OTHER -> @]

Move(o, to) ==
  LET from == orders[o].status
  IN  /\ orders[o].row = "live" /\ <<from, to>> \in ALLOWED_TRANSITIONS
      /\ Room
      /\ orders' = [orders EXCEPT ![o].status = to,
                                  ![o].history = Append(@, [to |-> to, at |-> now])]
      /\ watch' = [watch EXCEPT ![o] = Lap(@, from, to)]
      /\ UNCHANGED <<now, report>>

Remove(o) ==
  /\ orders[o].row = "live"
  /\ orders' = [orders EXCEPT ![o].row = "deleted"]
  /\ report' = [report EXCEPT !.owed = IF report.step = "reading" THEN @ \ {o} ELSE @]
  /\ UNCHANGED <<now, watch>>

Aged(stays) == [i \in DOMAIN stays |-> [stays[i] EXCEPT !.ago = @ + 1]]

\* The stopwatches run.  It is midnight in Sao Paulo when it is Offset in UTC.
Run(w) ==
  [w EXCEPT !.since = @ + 1,
            !.stays = Aged(@),
            !.days = IF (now + 1) % Day = Offset THEN @ + 1 ELSE @,
            !.worked = IF w.work = "during" THEN @ + 1 ELSE @]

Tick ==
  /\ now < Horizon
  /\ now' = now + 1
  /\ watch' = [o \in Orders |-> IF orders[o].row = "live" THEN Run(watch[o]) ELSE watch[o]]
  /\ UNCHANGED <<orders, report>>

\* The first findByStatus.  What is read of an order does not change any more.
\* owed is a history variable: the orders the answer must not miss.
BeginReport ==
  /\ report.step # "reading"
  /\ report' = [step |-> "reading", finalized |-> FindByStatus(ReadOrder[1]),
                owed |-> {o \in Live : watch[o].work = "after" /\ watch[o].worked > 0}]
  /\ UNCHANGED <<now, orders, watch>>

\* The second findByStatus, the loop and the answer.
EndReport ==
  /\ report.step = "reading"
  /\ report' = [step |-> "done", owed |-> report.owed,
                answer |-> AverageExecutionTime(report.finalized, FindByStatus(ReadOrder[2]))]
  /\ UNCHANGED <<now, orders, watch>>

Next ==
  \/ \E o \in Orders : Open(o) \/ Remove(o) \/ \E to \in ServiceOrderStatus : Move(o, to)
  \/ Tick \/ BeginReport \/ EndReport

Spec == Init /\ [][Next]_vars

-----------------------------------------------------------------------------
\* A report misses no order that was finished when it began and is still there,
\* though the order may be delivered between its two reads (it is then counted
\* twice), and its average is between two executions that took time: neither the
\* orders that never ran nor the ones counted twice pull it out of that range.
ReportIsPlausible ==
  report.step = "done" =>
    /\ Cardinality(report.owed) <= report.answer.count
    /\ report.answer.count > 0 =>
         \E o, p \in {q \in Orders : watch[q].work = "after" /\ watch[q].worked > 0} :
           watch[o].worked <= report.answer.average /\ watch[p].worked >= report.answer.average

\* The two computations of the average, which are two copies of one loop, agree
\* when nothing happens between the reads, and with the stopwatch that runs from
\* the first start of an execution to its end, pauses and re-budgeting included.
ExecutionTimesAgree ==
  LET done == {o \in Live : watch[o].work = "after" /\ watch[o].worked > 0}
      answer == AverageExecutionTime(FindByStatus("FINALIZADA"), FindByStatus("ENTREGUE"))
  IN  /\ answer = OperationalReport
      /\ answer = [count |-> Cardinality(done),
                   average |-> Round(MapThenSumSet(LAMBDA o : watch[o].worked, done),
                                     Cardinality(done))]

\* The durations are the stops of the stopwatches: each stay in a status that
\* ended within the window counts once, also when a status was passed through in
\* no time or visited again.
DurationsAgree ==
  \A s \in ServiceOrderStatus :
    LET Stops(o) == {i \in DOMAIN watch[o].stays :
                       watch[o].stays[i].status = s /\ watch[o].stays[i].ago < Window}
        Length(o) == MapThenSumSet(LAMBDA i : watch[o].stays[i].length, Stops(o))
    IN  AverageStatusDuration(s) =
          [seconds |-> MapThenSumSet(Length, Live),
           samples |-> MapThenSumSet(LAMBDA o : Cardinality(Stops(o)), Live)]

\* The alarm counts the orders that have waited too long since they last moved,
\* and the days since an order was opened turn at midnight in Sao Paulo.
AgesAgree ==
  /\ \A s \in STALLED_STATUSES :
       Stalled(s) = Cardinality({o \in FindByStatus(s) : watch[o].since > Threshold})
  /\ \A k \in 0..VolumeDays - 1 :
       CreatedDaysAgo(k) = Cardinality({o \in Live : watch[o].days = k})

\* An order that leaves the listing of active orders, whose rule is a table of
\* its own, has done all the work the matrix allows: it never comes back.
LeavesListingForGood ==
  [][\A o \in Orders :
       orders[o].row # "absent" /\ o \notin FindAllActive => o \notin FindAllActive']_vars
=============================================================================
