------------------------------- MODULE RateLimit --------------------------------
(***************************************************************************)
(* app/core/rate_limit.py, the dependency of /register, /login and         *)
(* /refresh: one Redis counter per client, route and window of the clock.  *)
(* Counters of other clients and routes have keys of their own, so this is *)
(* one client on one route.  Each Redis command is a step; Redis expires   *)
(* a key when its time to live has passed.                                 *)
(***************************************************************************)
EXTENDS Integers, FiniteSets

CONSTANTS
    Requests,       \* request slots: how many are in flight at a time
    Limit,          \* RATE_LIMIT_PER_MINUTE
    Minute,         \* ticks of the clock in a window, and in a time to live
    MaxWindow,      \* bound: the last window in which requests arrive
    MaxMade         \* bound: requests that arrive in a window

ASSUME LimitAssumption ==
    /\ IsFiniteSet(Requests)
    /\ Limit \in Nat \ {0}
    /\ Minute \in Nat \ {0}
    /\ MaxWindow \in Nat
    /\ MaxMade \in Nat

VARIABLES
    now,            \* time.time(), in ticks
    count,          \* the counter of each window, 0 when there is no key
    ttl,            \* ticks left of each key, 0 when it does not expire
    pc, win,        \* progress of each request, and the window it computed
    made,           \* history: requests that arrived in each window
    accepted,       \* history: requests let through in each window
    held,           \* history: requests in flight when each window began
    refused,        \* history: the windows that refused a request
    leaked          \* history: windows whose EXPIRE was lost

redis   == <<count, ttl>>
history == <<made, accepted, held, refused, leaked>>
vars    == <<now, redis, pc, win, history>>

\* The clock goes on for a window after the last arrivals.
Windows == 0..(MaxWindow + 1)

Init ==
    /\ now = 0
    /\ count    = [v \in Windows |-> 0]
    /\ ttl      = [v \in Windows |-> 0]
    /\ pc       = [r \in Requests |-> "idle"]
    /\ win      = [r \in Requests |-> 0]
    /\ made     = [v \in Windows |-> 0]
    /\ accepted = [v \in Windows |-> 0]
    /\ held     = [v \in Windows |-> 0]
    /\ refused  = {}
    /\ leaked   = {}

-------------------------------------------------------------------------------
\* Mutant of WindowAt: one counter for all windows.
OneWindow(t) == 0

\* The bucket a clock reading falls into.
WindowAt(t) == t \div Minute

Current == now \div Minute

\* A request arrives and reads the clock.
Arrive(r) ==
    /\ pc[r] = "idle"
    /\ Current <= MaxWindow
    /\ made[Current] < MaxMade
    /\ made' = [made EXCEPT ![Current] = @ + 1]
    /\ pc'   = [pc EXCEPT ![r] = "incr"]
    /\ win'  = [win EXCEPT ![r] = WindowAt(now)]
    /\ UNCHANGED <<now, redis, accepted, held, refused, leaked>>

\* The request goes on to its handler, in the window that the clock shows by
\* then, whichever it computed.
LetThrough(r) ==
    /\ pc'       = [pc EXCEPT ![r] = "idle"]
    /\ accepted' = [accepted EXCEPT ![Current] = @ + 1]

\* Mutant of IncrFirst: no EXPIRE follows.
IncrFirstOnly(r) ==
    /\ pc[r] = "incr"
    /\ count[win[r]] = 0
    /\ count' = [count EXCEPT ![win[r]] = 1]
    /\ LetThrough(r)
    /\ UNCHANGED <<now, ttl, win, made, held, refused, leaked>>

\* INCR creates the key, without a time to live, or keeps the one it has.
IncrFirst(r) ==
    /\ pc[r] = "incr"
    /\ count[win[r]] = 0
    /\ count' = [count EXCEPT ![win[r]] = 1]
    /\ pc'    = [pc EXCEPT ![r] = "expire"]
    /\ UNCHANGED <<now, ttl, win, history>>

\* Mutant of IncrAccepted: EXPIRE follows every INCR.
IncrRenews(r) ==
    /\ pc[r] = "incr"
    /\ count[win[r]] \in 1..(Limit - 1)
    /\ count' = [count EXCEPT ![win[r]] = @ + 1]
    /\ pc'    = [pc EXCEPT ![r] = "expire"]
    /\ UNCHANGED <<now, ttl, win, history>>

IncrAccepted(r) ==
    /\ pc[r] = "incr"
    /\ count[win[r]] \in 1..(Limit - 1)
    /\ count' = [count EXCEPT ![win[r]] = @ + 1]
    /\ LetThrough(r)
    /\ UNCHANGED <<now, ttl, win, made, held, refused, leaked>>

IncrRefused(r) ==                               \* 429
    /\ pc[r] = "incr"
    /\ count[win[r]] >= Limit
    /\ count'   = [count EXCEPT ![win[r]] = @ + 1]
    /\ refused' = refused \cup {win[r]}
    /\ pc'      = [pc EXCEPT ![r] = "idle"]
    /\ UNCHANGED <<now, ttl, win, made, accepted, held, leaked>>

\* Mutants of TimeToLive: the key never expires; it does after a tick.
NoTimeToLive == 0
ShortTimeToLive == 1

TimeToLive == Minute

\* EXPIRE; the first request is within the limit.
SetExpiry(r) ==
    /\ pc[r] = "expire"
    /\ ttl' = [ttl EXCEPT ![win[r]] = TimeToLive]
    /\ LetThrough(r)
    /\ UNCHANGED <<now, count, win, made, held, refused, leaked>>

\* The worker dies, the client goes away or Redis fails: the counter stays as
\* it is, without a time to live if EXPIRE was still to come.
Crash(r) ==
    /\ pc[r] # "idle"
    /\ pc' = [pc EXCEPT ![r] = "idle"]
    /\ leaked' = IF pc[r] = "expire" THEN leaked \cup {win[r]} ELSE leaked
    /\ UNCHANGED <<now, redis, win, made, accepted, held, refused>>

LastTick == (MaxWindow + 2) * Minute - 1

InFlight == {r \in Requests : pc[r] # "idle"}

\* Time passes; a key whose time to live is over vanishes.  A window begins
\* with the requests that are in flight.
Tick ==
    /\ now'   = IF now < LastTick THEN now + 1 ELSE now
    /\ ttl'   = [v \in Windows |-> IF ttl[v] = 0 THEN 0 ELSE ttl[v] - 1]
    /\ count' = [v \in Windows |-> IF ttl[v] = 1 THEN 0 ELSE count[v]]
    /\ held'  = IF Current' = Current THEN held
                ELSE [held EXCEPT ![Current'] = Cardinality(InFlight)]
    /\ UNCHANGED <<pc, win, made, accepted, refused, leaked>>

Step(r) ==
    \/ Arrive(r) \/ IncrFirst(r) \/ IncrAccepted(r) \/ IncrRefused(r)
    \/ SetExpiry(r) \/ Crash(r)

Next == (\E r \in Requests : Step(r)) \/ Tick

Spec == Init /\ [][Next]_vars

\* Time passes, and Redis answers an EXPIRE unless it, or its client, fails.
FairSpec ==
    /\ Spec
    /\ WF_vars(Tick)
    /\ \A r \in Requests : WF_vars(SetExpiry(r))

-------------------------------------------------------------------------------
(***************************************************************************)
(* Properties.                                                             *)
(***************************************************************************)

\* Counters, times to live and requests keep their types; only a key that is
\* there has a time to live, and it is given one once, by the request that made
\* it: a counter that is in use is never prolonged.
TypeOK ==
    /\ now      \in 0..LastTick
    /\ count    \in [Windows -> Nat]
    /\ ttl      \in [Windows -> 0..Minute]
    /\ pc       \in [Requests -> {"idle", "incr", "expire"}]
    /\ win      \in [Requests -> Windows]
    /\ made     \in [Windows -> Nat]
    /\ accepted \in [Windows -> Nat]
    /\ held     \in [Windows -> Nat]
    /\ refused  \subseteq Windows
    /\ leaked   \subseteq Windows
    /\ \A v \in Windows : count[v] = 0 => ttl[v] = 0
    /\ \A r \in Requests :
          pc[r] = "expire" => count[win[r]] > 0 /\ ttl[win[r]] = 0

\* In no window of the clock are more requests let through than the limit and
\* those that were in flight when it began: only these are counted on another
\* counter, which may have expired and been made anew.  However late the EXPIRE
\* of the window's own counter comes, it lets nobody else through.
LimitKept == \A v \in Windows : accepted[v] <= Limit + held[v]

\* A client is refused only in a window in which it sent more requests than the
\* limit: what it sent before, keys left behind included, does not count.
RefusalsEarned == \A v \in refused : made[v] > Limit

\* A counter without time to live is one whose EXPIRE is still to come, or was
\* lost with its request.
LeaksExplained ==
    \A v \in Windows : count[v] > 0 /\ ttl[v] = 0 =>
        \/ v \in leaked
        \/ \E r \in Requests : pc[r] = "expire" /\ win[r] = v

\* Redis gets rid of every other counter, also of one that a request brings
\* back after it had expired.
CountersVanish ==
    \A v \in Windows : count[v] > 0 ~> count[v] = 0 \/ v \in leaked

===============================================================================
