----------------------------- MODULE RateLimit -----------------------------
(***************************************************************************)
(* RateLimitGuard over one InMemoryRateLimitStore: the fixed windows of    *)
(* one process, guarding the login or the public consultation.  hit() has  *)
(* no await between reading and writing the map, so it is one step.        *)
(*                                                                         *)
(* Time is kept as ages (now - windowStart, now - lastSweep), which is all *)
(* the code computes with; that keeps the states finite while the process  *)
(* runs forever.  An age stops growing where nothing compares it further:  *)
(* at two windows for a bucket, at one for the last sweep.  A count stops  *)
(* at Limit + 1: the guard only asks whether it is above the limit.        *)
(***************************************************************************)
EXTENDS Naturals, FiniteSetsExt

CONSTANTS
  Requests,    \* [client, email, ip], what the guard sees of a request
  Keys,        \* the keys those requests can have
  Lower,       \* [e-mail spellings -> keys], 'login:' + email.toLowerCase()
  None,        \* a client id, e-mail or address the request does not carry
  Global,      \* the key of a request with none of the three
  Limit,       \* maxRequests
  WindowTicks, \* windowMs, in ticks
  SecondTicks  \* a second, in ticks

ASSUME LimitAssumption == Limit \in Nat \ {0}
ASSUME TimeAssumption == WindowTicks \in Nat \ {0} /\ SecondTicks \in Nat \ {0}

\* Fault: the address identifies the caller before the e-mail does.
KeyOfAddress(r) ==
  CASE r.client # None -> r.client
    [] r.client = None /\ r.ip # None -> r.ip
    [] r.client = None /\ r.ip = None /\ r.email # None -> Lower[r.email]
    [] OTHER -> Global

\* The key of a request: the client of the route, or the e-mail, or the address.
KeyOf(r) ==
  CASE r.client # None -> r.client
    [] r.client = None /\ r.email # None -> Lower[r.email]
    [] r.client = None /\ r.email = None /\ r.ip # None -> r.ip
    [] OTHER -> Global

ASSUME KeyAssumption == \A r \in Requests : KeyOf(r) \in Keys

VARIABLES
  buckets,     \* the Map: for each key, whether it is in it, and its Bucket
  sinceSweep,  \* now - lastSweep
  recent,      \* accepted requests of each key's owner, by how long ago
  retry        \* ticks left of the Retry-After a key was last given

vars == <<buckets, sinceSweep, recent, retry>>

NotTold == 2 * (WindowTicks + SecondTicks)  \* no refusal since the window began
Age == 0..(2 * WindowTicks)
Bucket == [kept : BOOLEAN, age : Age, count : 0..(Limit + 1)]
Absent == [kept |-> FALSE, age |-> 0, count |-> 0]

Init ==
  /\ buckets = [k \in Keys |-> Absent]
  /\ sinceSweep = 0
  /\ recent = [k \in Keys |-> [a \in 0..(WindowTicks - 1) |-> 0]]
  /\ retry = [k \in Keys |-> NotTold]

-----------------------------------------------------------------------------
AtMost(n, bound) == IF n < bound THEN n ELSE bound

\* Fault: rounded down.
ResetInSecondsFloored(age) == (WindowTicks - age) \div SecondTicks

\* The time left of a window, rounded up to seconds.
ResetInSeconds(age) == (WindowTicks - age + SecondTicks - 1) \div SecondTicks

\* Fault: lastSweep is assigned before the early return.
SweptEagerly ==
  IF sinceSweep < WindowTicks
  THEN [map |-> buckets, since |-> 0]
  ELSE [map |-> [k \in Keys |-> IF buckets[k].age >= WindowTicks THEN Absent ELSE buckets[k]],
        since |-> 0]

\* sweepExpired: at most once per window, and only windows that are over.
Swept ==
  IF sinceSweep < WindowTicks
  THEN [map |-> buckets, since |-> sinceSweep]
  ELSE [map |-> [k \in Keys |-> IF buckets[k].age >= WindowTicks THEN Absent ELSE buckets[k]],
        since |-> 0]

Renewed(b) == ~b.kept \/ b.age >= WindowTicks

\* Fault: every hit starts the window again.
CountedSliding(b) ==
  [kept |-> TRUE, age |-> 0,
   count |-> IF Renewed(b) THEN 1 ELSE AtMost(b.count + 1, Limit + 1)]

\* The bucket of the key, new if it had none or its window is over, plus one.
Counted(b) ==
  [kept |-> TRUE, age |-> IF Renewed(b) THEN 0 ELSE b.age,
   count |-> IF Renewed(b) THEN 1 ELSE AtMost(b.count + 1, Limit + 1)]

\* Whom a request is about, whatever address it comes from.
Owner(r) == IF r.client # None THEN r.client
            ELSE IF r.email # None THEN Lower[r.email] ELSE KeyOf(r)

(***************************************************************************)
(* canActivate: the request is counted first, refused or not, and refused  *)
(* with Retry-After when the count is above the limit.                     *)
(***************************************************************************)
Hit(r) ==
  LET k == KeyOf(r)
      b == Counted(Swept.map[k])
      fresh == Renewed(Swept.map[k])
  IN  /\ buckets' = [Swept.map EXCEPT ![k] = b]
      /\ sinceSweep' = Swept.since
      /\ IF b.count > Limit
         THEN /\ retry' = [retry EXCEPT ![k] = ResetInSeconds(b.age) * SecondTicks]
              /\ UNCHANGED recent
         ELSE /\ retry' = IF fresh THEN [retry EXCEPT ![k] = NotTold] ELSE retry
              /\ recent' = [recent EXCEPT ![Owner(r)][0] = @ + 1]

Older(b) == [b EXCEPT !.age = IF b.kept THEN AtMost(@ + 1, 2 * WindowTicks) ELSE @]

\* Time passes.
Tick ==
  /\ buckets' = [k \in Keys |-> Older(buckets[k])]
  /\ sinceSweep' = AtMost(sinceSweep + 1, WindowTicks)
  /\ recent' = [k \in Keys |-> [a \in 0..(WindowTicks - 1) |->
                  IF a = 0 THEN 0 ELSE recent[k][a - 1]]]
  /\ retry' = [k \in Keys |-> IF retry[k] \in {0, NotTold} THEN retry[k] ELSE retry[k] - 1]

Next == Tick \/ \E r \in Requests : Hit(r)

\* Time never stops; nobody is obliged to call.
Spec == Init /\ [][Next]_vars /\ WF_vars(Tick)

-----------------------------------------------------------------------------
TypeOK ==
  /\ buckets \in [Keys -> Bucket]
  /\ sinceSweep \in 0..WindowTicks
  /\ recent \in [Keys -> [0..(WindowTicks - 1) -> Nat]]
  /\ retry \in [Keys -> 0..NotTold]

\* The state get() reports: a bucket in the map whose window is not over.
Live(k) == buckets[k].kept /\ buckets[k].age < WindowTicks

AcceptedRecently(k) == MapThenSumSet(LAMBDA a : recent[k][a], 0..(WindowTicks - 1))

\* Within any span as long as a window, an account (or a client) gets at most
\* twice the limit through, however its e-mail is spelled and wherever the
\* requests come from: the burst at the turn of a window, accepted in writing.
BurstBounded == \A k \in Keys : AcceptedRecently(k) <= 2 * Limit

\* A caller that waits the Retry-After it was given finds the window that
\* refused it over: the seconds are rounded up, never down.
RetryHonored == \A k \in Keys : retry[k] = 0 => ~Live(k)

\* The Map does not grow for as long as the process lives: a request leaves in
\* it no key whose window began two windows ago or earlier.
MapForgets ==
  [][(\E r \in Requests : Hit(r)) =>
       \A k \in Keys : buckets'[k].kept => buckets'[k].age < 2 * WindowTicks]_vars

\* A caller that never stops trying is let through again and again: refused
\* requests are counted, but do not hold the window open.
NoLockout ==
  \A r \in Requests :
    ([]<><<Hit(r)>>_vars) => []<>(recent[Owner(r)][0] > 0)
=============================================================================
