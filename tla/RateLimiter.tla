----------------------------- MODULE RateLimiter -----------------------------
(***************************************************************************)
(* The sliding-window limiter of services/api/security.py: one bucket of   *)
(* request times for each (client ip, path) key.  RateLimitMiddleware      *)
(* decides synchronously on the event loop, so a decision is one step.     *)
(*                                                                         *)
(* time.monotonic() is a real number of seconds.  Here time is counted in  *)
(* ticks, TicksPerSecond to the second, because Retry-After is in whole    *)
(* seconds and int() rounds it down.                                       *)
(***************************************************************************)
EXTENDS Integers, Sequences

CONSTANTS
    Keys,            \* the keys of _RATE_LIMIT_BUCKETS
    Requests,        \* API_RATE_LIMIT_REQUESTS
    WindowSeconds,   \* API_RATE_LIMIT_WINDOW_SECONDS
    TicksPerSecond,  \* the resolution of the clock of the model
    MaxTime          \* bound: the last tick of the clock

\* _positive_int falls back on a positive default, so both settings are > 0.
ASSUME ConfigAssumption ==
    /\ Requests \in Nat \ {0}
    /\ WindowSeconds \in Nat \ {0}
    /\ TicksPerSecond \in Nat \ {0}
    /\ MaxTime \in Nat

VARIABLES
    now,        \* time.monotonic(), in ticks
    bucket,     \* _RATE_LIMIT_BUCKETS: key -> the times still held, oldest first
    accepted,   \* history: every time at which a request of the key was let through
    denied      \* the last 429 of the key, or NoDenial

vars == <<now, bucket, accepted, denied>>

Window == WindowSeconds * TicksPerSecond

NoDenial == [at |-> 0, retryAfter |-> 0]

-----------------------------------------------------------------------------
\* The `while bucket and now - bucket[0] >= window` loop stops after d pops.
PopsStopAt(b, d) ==
    /\ d \in 0..Len(b)
    /\ \A i \in 1..d : now - b[i] >= Window
    /\ d < Len(b) => now - b[d + 1] < Window

Live(b, d) == SubSeq(b, d + 1, Len(b))

\* Mutant: the bucket takes one request too many (`>` for `>=`).
HasRoomOffByOne(b, d) == PopsStopAt(b, d) /\ Len(b) - d <= Requests

\* `len(bucket) >= config["requests"]` is false once the loop has stopped.
HasRoom(b, d) == PopsStopAt(b, d) /\ Len(b) - d < Requests
IsFull(b, d)  == PopsStopAt(b, d) /\ Len(b) - d >= Requests

\* max(1, int(window - (now - bucket[0]))), in whole seconds.
RetryAfter(oldest) ==
    LET remaining == (Window - (now - oldest)) \div TicksPerSecond
    IN  IF remaining < 1 THEN 1 ELSE remaining

Init ==
    /\ now = 0
    /\ bucket = [k \in Keys |-> <<>>]
    /\ accepted = [k \in Keys |-> <<>>]
    /\ denied = [k \in Keys |-> NoDenial]

\* The clock advances between requests.
Tick ==
    /\ now < MaxTime
    /\ now' = now + 1
    /\ UNCHANGED <<bucket, accepted, denied>>

\* _rate_limit_decision with room in the bucket: the request goes through.
Allow(k) ==
    \E d \in 0..Len(bucket[k]) :
        /\ HasRoom(bucket[k], d)
        /\ bucket' = [bucket EXCEPT ![k] = Append(Live(@, d), now)]
        /\ accepted' = [accepted EXCEPT ![k] = Append(@, now)]
        /\ denied' = [denied EXCEPT ![k] = NoDenial]
        /\ UNCHANGED now

\* _rate_limit_decision with a full bucket: 429 with a Retry-After header.
Deny(k) ==
    \E d \in 0..Len(bucket[k]) :
        /\ IsFull(bucket[k], d)
        /\ bucket' = [bucket EXCEPT ![k] = Live(@, d)]
        /\ denied' = [denied EXCEPT ![k] =
                        [at |-> now, retryAfter |-> RetryAfter(bucket[k][d + 1])]]
        /\ UNCHANGED <<now, accepted>>

Decide(k) == Allow(k) \/ Deny(k)

Next == Tick \/ \E k \in Keys : Decide(k)

Spec == Init /\ [][Next]_vars

-----------------------------------------------------------------------------
TypeOK ==
    /\ now \in Nat
    /\ bucket \in [Keys -> Seq(Nat)]
    /\ accepted \in [Keys -> Seq(Nat)]
    /\ denied \in [Keys -> [at: Nat, retryAfter: Nat]]

\* The promise of the limiter: any Requests + 1 consecutive accepted requests
\* of a key span at least a window, so no half-open window of that length,
\* wherever it starts, holds more than Requests of them.
WindowBound ==
    \A k \in Keys : \A i \in 1..Len(accepted[k]) :
        i + Requests <= Len(accepted[k])
            => accepted[k][i + Requests] - accepted[k][i] >= Window

\* A client that is told Retry-After and comes back one second after it is not
\* denied again, if no other request of its key got in meanwhile: the oldest time
\* in the bucket has left the window, however int() rounded the remaining time.
RetryHonoured ==
    \A k \in Keys :
        /\ denied[k] # NoDenial
        /\ now >= denied[k].at + (denied[k].retryAfter + 1) * TicksPerSecond
        => \A d \in 0..Len(bucket[k]) : ~IsFull(bucket[k], d)

\* What the limiter promises: to the service the bound of any window, to a client that
\* it gets in when it comes back as it was told (security.py:127).
LimiterPromise == WindowBound /\ RetryHonoured

=============================================================================
