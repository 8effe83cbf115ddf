------------------------------- MODULE RateLimit -------------------------------
(***************************************************************************)
(* The shared fixed-window counter of one scope (a route and a client): the *)
(* row in the database, the workers that count in it, each with the time at *)
(* which its request arrived, and the maintenance that deletes old rows.    *)
(* The wall clock may be set back.                                          *)
(*                                                                          *)
(* Definitions commented "Mutant" are plausible bugs in the definition that *)
(* follows; nothing uses them but the sanity check of the properties.       *)
(***************************************************************************)
EXTENDS Naturals, FiniteSets

CONSTANTS
    Workers,            \* processes, each serving one limited request at a time here
    Limit,              \* limit of the scope
    Window,             \* window_seconds of the scope
    Touch,              \* denial_touch_interval
    Interval,           \* interval of the maintenance
    Retention,          \* retention of the maintenance
    MaxDelay,           \* bound: a request is served within this time (busy_timeout)
    MaxClock,           \* bound on the clock
    MaxSetbacks         \* bound on how often it is set back

ASSUME RateAssumption ==
    /\ {Limit, Window, Interval, Retention, MaxClock} \subseteq Nat \ {0}
    /\ {MaxSetbacks, MaxDelay} \subseteq Nat /\ Touch \in Nat /\ Touch <= Window /\ Interval <= Retention /\ Window <= Retention

VARIABLES
    clock,
    setbacks,           \* how often it was set back
    bucket,             \* the rate_limits row of the scope, as a set of at most one
    asked,              \* asked[w]: where w's request stands, and when it arrived
    deadline,           \* next_gc_at of each process
    granted             \* granted[t]: requests that arrived at t and were allowed

clockVars == <<clock, setbacks>>
limitVars == <<bucket, asked, deadline, granted>>
rateVars  == <<clock, setbacks, bucket, asked, deadline, granted>>

Quiet == [at |-> "idle", now |-> 0]

RateInit ==
    /\ clock = 0 /\ setbacks = 0 /\ bucket = {}
    /\ asked = [w \in Workers |-> Quiet]
    /\ deadline = [w \in Workers |-> 0]
    /\ granted = [t \in 0 .. MaxClock |-> 0]

\* A deadline more than an interval ahead was set before the clock went back.
Deadline(w) == IF deadline[w] > clock + Interval THEN clock ELSE deadline[w]

\* maintained_consume_rate_limit: the request takes its time and cleans up when that is due;
\* a cleanup that fails is tried again later and holds up nothing.
Arrive(w) ==
    /\ asked[w].at = "idle"
    /\ asked' = [asked EXCEPT ![w] = [at |-> "read", now |-> clock]]
    /\ \/ /\ clock < Deadline(w)
          /\ deadline' = [deadline EXCEPT ![w] = Deadline(w)] /\ UNCHANGED bucket
       \/ /\ clock >= Deadline(w)
          /\ deadline' = [deadline EXCEPT ![w] = clock + Interval]
          /\ bucket' = {r \in bucket : r.updated + Retention >= clock}
       \/ /\ clock >= Deadline(w)
          /\ deadline' = [deadline EXCEPT ![w] = clock + 1] /\ UNCHANGED bucket
    /\ UNCHANGED <<clockVars, granted>>

\* A saturated counter that was touched lately is refused from a read alone.
FastDenial(w) ==
    LET now == asked[w].now
    IN \E r \in bucket : /\ r.start <= now /\ now < r.start + Window /\ r.count >= Limit
                         /\ r.updated <= now /\ now < r.updated + Touch

Look(w) ==
    /\ asked[w].at = "read"
    /\ asked' = [asked EXCEPT ![w] = IF FastDenial(w) THEN Quiet ELSE [@ EXCEPT !.at = "write"]]
    /\ UNCHANGED <<clockVars, bucket, deadline, granted>>

\* What the transaction sees: a window that starts after the request is moved back to it.
Anchored(now) == {[r EXCEPT !.start = IF @ > now THEN now ELSE @] : r \in bucket}
InWindow(now) == {r \in Anchored(now) : now < r.start + Window}

\* Mutant: counts what the fast path saw instead of what the transaction sees.
ConsumeUnchecked(w) ==
    LET now == asked[w].now
    IN /\ asked[w].at = "write"
       /\ asked' = [asked EXCEPT ![w] = Quiet]
       /\ bucket' = {[start |-> IF InWindow(now) = {} THEN now
                                ELSE (CHOOSE r \in InWindow(now) : TRUE).start,
                      count |-> IF InWindow(now) = {} THEN 1
                                ELSE (CHOOSE r \in InWindow(now) : TRUE).count + 1,
                      updated |-> now]}
       /\ granted' = [granted EXCEPT ![now] = @ + 1]
       /\ UNCHANGED <<clockVars, deadline>>

\* consume_rate_limit, the transaction: a new window, a refusal, or one more in the window.
Consume(w) ==
    LET now == asked[w].now
    IN /\ asked[w].at = "write"
       /\ asked' = [asked EXCEPT ![w] = Quiet]
       /\ \/ /\ InWindow(now) = {}
             /\ bucket' = {[start |-> now, count |-> 1, updated |-> now]}
             /\ granted' = [granted EXCEPT ![now] = @ + 1]
          \/ \E r \in InWindow(now) :
                /\ r.count >= Limit
                /\ bucket' = {[r EXCEPT !.updated = now]} /\ UNCHANGED granted
          \/ \E r \in InWindow(now) :
                /\ r.count < Limit
                /\ bucket' = {[r EXCEPT !.count = @ + 1, !.updated = now]}
                /\ granted' = [granted EXCEPT ![now] = @ + 1]
       /\ UNCHANGED <<clockVars, deadline>>

\* The wall clock moves on, but no request waits longer than it can.
Tick ==
    /\ clock' \in (clock + 1) .. MaxClock
    /\ \A w \in Workers : asked[w].at = "idle" \/ clock' <= asked[w].now + MaxDelay
    /\ UNCHANGED <<setbacks, limitVars>>

SetBack ==
    /\ setbacks < MaxSetbacks
    /\ clock' \in 0 .. (clock - 1) /\ setbacks' = setbacks + 1
    /\ UNCHANGED limitVars

RateStep ==
    \/ \E w \in Workers : Arrive(w) \/ Look(w) \/ Consume(w)
    \/ Tick \/ SetBack

-----------------------------------------------------------------------------
(* Properties.                                                              *)

\* The sum of f over the times of T.
Total(f, T) ==
    LET sum[t \in 0 .. MaxClock] == (IF t = 0 THEN 0 ELSE sum[t - 1]) + (IF t \in T THEN f[t] ELSE 0)
    IN sum[MaxClock]

\* Requests allowed at the times of T.
Grants(T) == Total(granted, T)

\* The times up to t that are no more than a window less two delays before it: a request may
\* be counted in, or move back, a window that began a delay after it arrived.
Stretch(t) == {u \in 0 .. t : t + 2 * MaxDelay <= u + Window}

After(t) == {u \in 0 .. MaxClock : u + Window > t}
Refused(w) == asked[w].at # "idle" /\ asked'[w].at = "idle" /\ granted' = granted

\* While the clock has not been set back, no such stretch sees more than twice the limit,
\* however many workers count and however late they do; and a request is refused only if the
\* limit was used up no more than a window before it.
\* (store.consume_rate_limit, rate_limit_maintenance)
LimitIsKept ==
    /\ [](setbacks = 0 => \A t \in 0 .. MaxClock : Grants(Stretch(t)) <= 2 * Limit)
    /\ [][\A w \in Workers : Refused(w) => Grants(After(asked[w].now)) >= Limit]_rateVars
=============================================================================
