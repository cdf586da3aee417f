---------------------------- MODULE RateLimitProofs -----------------------------
(***************************************************************************)
(* Theorems about the rate limiter, for every limit, length of the window  *)
(* and number of concurrent requests.                                      *)
(***************************************************************************)
EXTENDS RateLimit, FiniteSetTheorems, TLAPS

\* The requests whose INCR, or whose EXPIRE, of the counter v is still to come.
Counting(v) == {r \in Requests : pc[r] = "incr" /\ win[r] = v}
Expiring(v) == {r \in Requests : pc[r] = "expire" /\ win[r] = v}

\* Requests only know windows that have begun.
WindowsBegun ==
    \A r \in Requests : win[r] \in 0..MaxWindow /\ win[r] * Minute <= now

\* A counter's time to live does not end before its window does.
OutlivesWindow ==
    \A v \in Windows : ttl[v] > 0 =>
        v <= MaxWindow /\ (v + 1) * Minute <= now + ttl[v]

\* One request at most is to set the time to live of a counter.
OneExpires ==
    \A r, x \in Requests :
        pc[r] = "expire" /\ pc[x] = "expire" /\ win[r] = win[x] => r = x

\* Requests in flight that computed a window before the clock's.
Straggling == {r \in Requests : pc[r] # "idle" /\ win[r] < Current}

\* The request that made the counter of the clock's window, before its EXPIRE.
Ahead == IF Expiring(Current) = {} THEN 0 ELSE 1

\* Who is let through in the clock's window, or is sure to be: the stragglers
\* may all be, on other counters, and the request that made its counter.
Through == accepted[Current] + Cardinality(Straggling) + Ahead

\* The counter of the clock's window has counted them all but those that were
\* in flight when the window began, and has let through no more than the limit.
CountedWhileItLasts ==
    /\ Through <= count[Current] + held[Current]
    /\ Through <= Limit + held[Current]

\* Nobody is let through in a window that has not begun.
NoneBeforehand == \A v \in Windows : v > Current => accepted[v] = 0

\* Nothing is counted twice.
CountedOnce ==
    \A v \in Windows : count[v] + Cardinality(Counting(v)) <= made[v]

IInv ==
    /\ TypeOK
    /\ WindowsBegun
    /\ OutlivesWindow
    /\ OneExpires
    /\ LimitKept
    /\ CountedWhileItLasts
    /\ NoneBeforehand
    /\ CountedOnce
    /\ RefusalsEarned
    /\ LeaksExplained

-------------------------------------------------------------------------------
\* The window of a time begins before it.
LEMMA DivBounds ==
  ASSUME NEW n \in Nat, NEW m \in Nat \ {0}
  PROVE  /\ n \div m \in Nat
         /\ (n \div m) * m <= n
         /\ n < (n \div m + 1) * m
OBVIOUS

\* A later window does not begin earlier.
LEMMA TimesMonotone ==
  ASSUME NEW a \in Nat, NEW b \in Nat, NEW m \in Nat, a <= b
  PROVE  a * m <= b * m
OBVIOUS

\* A window that has begun is not after the one of the clock.
LEMMA BegunDiv ==
  ASSUME NEW a \in Nat, NEW n \in Nat, NEW m \in Nat \ {0}, a * m <= n
  PROVE  a <= n \div m
<1>1. n \div m \in Nat /\ n < (n \div m + 1) * m
  BY DivBounds
<1>2. CASE n \div m + 1 <= a
  <2>1. (n \div m + 1) * m <= a * m
    BY <1>1, <1>2, TimesMonotone
  <2>2. (n \div m + 1) * m \in Nat /\ a * m \in Nat
    BY <1>1
  <2> QED
    BY <1>1, <2>1, <2>2
<1> QED
  BY <1>1, <1>2

\* The window of a time of the clock.
LEMMA WindowOf ==
  ASSUME NEW t \in 0..LastTick
  PROVE  /\ t \in Nat
         /\ t \div Minute \in Windows
         /\ t \div Minute \in Nat
         /\ (t \div Minute) * Minute <= t
         /\ t < (t \div Minute + 1) * Minute
<1> DEFINE w == t \div Minute
<1>1. t \in Nat /\ t < (MaxWindow + 2) * Minute
  <2>1. (MaxWindow + 2) * Minute \in Nat
    BY LimitAssumption
  <2> QED
    BY <2>1 DEF LastTick
<1>2. w \in Nat /\ w * Minute <= t /\ t < (w + 1) * Minute
  BY <1>1, DivBounds, LimitAssumption
<1> HIDE DEF w
<1>3. CASE MaxWindow + 2 <= w
  <2>1. (MaxWindow + 2) * Minute <= w * Minute
    BY <1>2, <1>3, TimesMonotone, LimitAssumption
  <2>2. (MaxWindow + 2) * Minute \in Nat /\ w * Minute \in Nat
    BY <1>2, LimitAssumption
  <2> QED
    BY <1>1, <1>2, <2>1, <2>2
<1>4. w \in Windows
  BY <1>2, <1>3, LimitAssumption DEF Windows
<1> QED
  BY <1>1, <1>2, <1>4 DEF w

\* The window of the clock.
LEMMA CurrentOK ==
  ASSUME TypeOK
  PROVE  /\ Current \in Windows
         /\ Current \in Nat
         /\ Current * Minute <= now
         /\ now < (Current + 1) * Minute
         /\ now \in Nat
BY WindowOf DEF TypeOK, Current

\* No request has computed a window after the one of the clock.
LEMMA NoneAhead ==
  ASSUME TypeOK, WindowsBegun, NEW r \in Requests
  PROVE  /\ win[r] \in Windows /\ win[r] \in Nat
         /\ win[r] = Current \/ win[r] < Current
<1>1. win[r] \in 0..MaxWindow /\ win[r] * Minute <= now /\ now \in Nat
  BY CurrentOK DEF WindowsBegun
<1>2. win[r] <= Current
  BY <1>1, BegunDiv, LimitAssumption DEF Current
<1> QED
  BY <1>1, <1>2, CurrentOK, LimitAssumption DEF Windows

\* What the numbers in CountedWhileItLasts are.
LEMMA ThroughTyped ==
  ASSUME TypeOK
  PROVE  /\ IsFiniteSet(InFlight) /\ Cardinality(InFlight) \in Nat
         /\ IsFiniteSet(Straggling) /\ Cardinality(Straggling) \in Nat
         /\ Cardinality(Straggling) <= Cardinality(InFlight)
         /\ Ahead \in {0, 1}
         /\ accepted[Current] \in Nat /\ count[Current] \in Nat
         /\ held[Current] \in Nat
<1>1. InFlight \subseteq Requests /\ Straggling \subseteq InFlight
  BY DEF InFlight, Straggling
<1>2. /\ IsFiniteSet(InFlight) /\ Cardinality(InFlight) \in Nat
      /\ IsFiniteSet(Straggling) /\ Cardinality(Straggling) \in Nat
      /\ Cardinality(Straggling) <= Cardinality(InFlight)
  BY <1>1, FS_Subset, FS_CardinalityType, LimitAssumption
<1> QED
  BY <1>2, CurrentOK DEF TypeOK, Ahead

\* A request that ends is no longer a straggler, if it was one.
LEMMA StragglerEnds ==
  ASSUME IInv, NEW r \in Requests, pc[r] # "idle",
         pc' = [pc EXCEPT ![r] = "idle"], UNCHANGED <<now, win>>
  PROVE  /\ Current' = Current
         /\ win[r] < Current =>
               Cardinality(Straggling)' = Cardinality(Straggling) - 1
         /\ win[r] = Current =>
               Cardinality(Straggling)' = Cardinality(Straggling)
         /\ pc[r] = "incr" \/ win[r] < Current => Ahead' = Ahead
         /\ Ahead' <= Ahead /\ Ahead \in {0, 1} /\ Ahead' \in {0, 1}
<1>1. Current' = Current /\ Current \in Nat /\ win[r] \in Nat
  BY CurrentOK, NoneAhead DEF IInv, Current
<1>2. IsFiniteSet(Straggling)
  BY ThroughTyped DEF IInv
<1>3. ASSUME win[r] < Current
      PROVE  Cardinality(Straggling)' = Cardinality(Straggling) - 1
  <2>1. r \in Straggling
    BY <1>3 DEF Straggling
  <2>2. Straggling' = Straggling \ {r}
    BY <1>1, <1>3 DEF IInv, TypeOK, Straggling
  <2> QED
    BY <1>2, <2>1, <2>2, FS_RemoveElement
<1>4. ASSUME win[r] = Current
      PROVE  Cardinality(Straggling)' = Cardinality(Straggling)
  <2>1. Straggling' = Straggling
    BY <1>1, <1>4 DEF IInv, TypeOK, Straggling
  <2> QED
    BY <2>1
<1>5. Expiring(Current)' \subseteq Expiring(Current)
  BY <1>1 DEF IInv, TypeOK, Expiring
<1>6. ASSUME pc[r] = "incr" \/ win[r] < Current
      PROVE  Expiring(Current)' = Expiring(Current)
  BY <1>1, <1>6 DEF IInv, TypeOK, Expiring
<1> QED
  BY <1>1, <1>3, <1>4, <1>5, <1>6 DEF Ahead

\* Finitely many requests are still to be counted.
LEMMA CountingFinite ==
  ASSUME NEW v
  PROVE  IsFiniteSet(Counting(v)) /\ Cardinality(Counting(v)) \in Nat
<1>1. Counting(v) \subseteq Requests
  BY DEF Counting
<1> QED
  BY <1>1, FS_Subset, FS_CardinalityType, LimitAssumption

-------------------------------------------------------------------------------
\* The limiter starts without counters.
LEMMA InitIInv == Init => IInv
<1> SUFFICES ASSUME Init PROVE IInv
  OBVIOUS
<1>1. /\ 0 \in Windows /\ 0 \in 0..MaxWindow /\ Windows \subseteq Nat
      /\ 0 * Minute = 0 /\ LastTick \in Nat
  BY LimitAssumption DEF Windows, LastTick
<1>2. TypeOK
  BY <1>1, LimitAssumption DEF Init, TypeOK
<1>3. WindowsBegun /\ OutlivesWindow /\ OneExpires /\ LimitKept /\ NoneBeforehand
  BY <1>1, LimitAssumption DEF Init, WindowsBegun, OutlivesWindow, OneExpires,
                               LimitKept, NoneBeforehand
<1>4. CountedWhileItLasts
  <2>1. Straggling = {} /\ Expiring(Current) = {}
    BY DEF Init, Straggling, Expiring
  <2>2. Cardinality(Straggling) = 0 /\ Ahead = 0
    BY <2>1, FS_EmptySet DEF Ahead
  <2>3. accepted[Current] = 0 /\ count[Current] = 0 /\ held[Current] = 0
    BY <1>2, CurrentOK DEF Init
  <2> QED
    BY <2>2, <2>3, LimitAssumption DEF CountedWhileItLasts, Through
<1>5. CountedOnce
  <2>1. ASSUME NEW v \in Windows PROVE Counting(v) = {}
    BY DEF Init, Counting
  <2> QED
    BY <2>1, FS_EmptySet DEF Init, CountedOnce
<1>6. RefusalsEarned /\ LeaksExplained
  BY DEF Init, RefusalsEarned, LeaksExplained
<1> QED
  BY <1>2, <1>3, <1>4, <1>5, <1>6 DEF IInv

\* A request arrives.
LEMMA ArriveOK ==
  ASSUME IInv, NEW r \in Requests, Arrive(r)
  PROVE  IInv'
<1>1. /\ Current \in 0..MaxWindow /\ Current * Minute <= now /\ Current \in Windows
  BY CurrentOK, LimitAssumption DEF IInv, Arrive, Windows
<1>2. /\ pc[r] = "idle"
      /\ made' = [made EXCEPT ![Current] = @ + 1]
      /\ pc' = [pc EXCEPT ![r] = "incr"] /\ win' = [win EXCEPT ![r] = Current]
      /\ UNCHANGED <<now, count, ttl, accepted, held, refused, leaked>>
  BY DEF Arrive, WindowAt, Current, redis
<1>3. TypeOK'
  BY <1>1, <1>2 DEF IInv, TypeOK
<1>4. /\ WindowsBegun' /\ OutlivesWindow' /\ OneExpires' /\ LimitKept'
      /\ NoneBeforehand'
  BY <1>1, <1>2 DEF IInv, TypeOK, WindowsBegun, OutlivesWindow, OneExpires,
                    LimitKept, NoneBeforehand, Current
<1>5. Straggling' = Straggling /\ Expiring(Current)' = Expiring(Current)
  BY <1>1, <1>2 DEF IInv, TypeOK, Straggling, Expiring, Current
<1>6. CountedWhileItLasts'
  BY <1>2, <1>5 DEF IInv, CountedWhileItLasts, Through, Ahead, Current
<1>7. CountedOnce'
  <2> SUFFICES ASSUME NEW v \in Windows
               PROVE  count[v] + Cardinality(Counting(v))' <= made'[v]
    BY <1>2 DEF CountedOnce
  <2>1. /\ count[v] + Cardinality(Counting(v)) <= made[v]
        /\ count[v] \in Nat /\ made[v] \in Nat
    BY DEF IInv, TypeOK, CountedOnce
  <2>2. CASE v = Current
    <3>1. Counting(v)' = Counting(v) \cup {r} /\ r \notin Counting(v)
      BY <1>2, <2>2 DEF IInv, TypeOK, Counting
    <3>2. Cardinality(Counting(v))' = Cardinality(Counting(v)) + 1
      BY <3>1, CountingFinite, FS_AddElement
    <3>3. made'[v] = made[v] + 1
      BY <1>2, <2>2 DEF IInv, TypeOK
    <3> QED
      BY <2>1, <3>2, <3>3, CountingFinite
  <2>3. CASE v # Current
    <3>1. Counting(v)' = Counting(v)
      BY <1>2, <2>3 DEF IInv, TypeOK, Counting
    <3> QED
      BY <1>2, <2>1, <2>3, <3>1 DEF IInv, TypeOK
  <2> QED
    BY <2>2, <2>3
<1>8. RefusalsEarned'
  <2>1. ASSUME NEW v \in Windows PROVE made'[v] >= made[v]
    BY <1>2 DEF IInv, TypeOK
  <2>2. ASSUME NEW v \in Windows PROVE made[v] \in Nat /\ made'[v] \in Nat
    BY <1>3 DEF IInv, TypeOK
  <2> QED
    BY <1>2, <2>1, <2>2, LimitAssumption DEF IInv, TypeOK, RefusalsEarned
<1>9. LeaksExplained'
  BY <1>2 DEF IInv, TypeOK, LeaksExplained
<1> QED
  BY <1>3, <1>4, <1>6, <1>7, <1>8, <1>9 DEF IInv

\* One INCR is counted against one request that arrived.
LEMMA IncrCounted ==
  ASSUME IInv, NEW r \in Requests, pc[r] = "incr",
         count' = [count EXCEPT ![win[r]] = @ + 1],
         pc'[r] # "incr", \A x \in Requests \ {r} : pc'[x] = pc[x],
         UNCHANGED <<win, made>>
  PROVE  /\ CountedOnce'
         /\ count[win[r]] < made[win[r]]
<1>1. win[r] \in Windows
  BY DEF IInv, WindowsBegun, TypeOK
<1>2. ASSUME NEW v \in Windows
      PROVE  /\ count[v] + Cardinality(Counting(v)) <= made[v]
             /\ count[v] \in Nat /\ made[v] \in Nat
             /\ IsFiniteSet(Counting(v)) /\ Cardinality(Counting(v)) \in Nat
  BY CountingFinite DEF IInv, TypeOK, CountedOnce
<1>3. r \in Counting(win[r]) /\ Counting(win[r])' = Counting(win[r]) \ {r}
  BY DEF Counting
<1>4. Cardinality(Counting(win[r]))' = Cardinality(Counting(win[r])) - 1
  BY <1>1, <1>2, <1>3, FS_RemoveElement
<1>5. Cardinality(Counting(win[r])) > 0
  BY <1>1, <1>2, <1>3, FS_EmptySet
<1>6. ASSUME NEW v \in Windows, v # win[r] PROVE Counting(v)' = Counting(v)
  BY <1>6 DEF Counting
<1>7. CountedOnce'
  <2> SUFFICES ASSUME NEW v \in Windows
               PROVE  count'[v] + Cardinality(Counting(v))' <= made[v]
    BY DEF CountedOnce
  <2>1. CASE v = win[r]
    BY <1>1, <1>2, <1>4, <2>1 DEF IInv, TypeOK
  <2>2. CASE v # win[r]
    BY <1>2, <1>6, <2>2 DEF IInv, TypeOK
  <2> QED
    BY <2>1, <2>2
<1> QED
  BY <1>1, <1>2, <1>5, <1>7

\* The first INCR of a counter.
LEMMA IncrFirstOK ==
  ASSUME IInv, NEW r \in Requests, IncrFirst(r)
  PROVE  IInv'
<1>1. /\ pc[r] = "incr" /\ count[win[r]] = 0 /\ win[r] \in Windows
      /\ count' = [count EXCEPT ![win[r]] = 1]
      /\ pc' = [pc EXCEPT ![r] = "expire"]
      /\ UNCHANGED <<now, ttl, win, made, accepted, held, refused, leaked>>
  BY DEF IInv, TypeOK, IncrFirst, history
<1>2. TypeOK'
  BY <1>1 DEF IInv, TypeOK
<1>3. /\ WindowsBegun' /\ OutlivesWindow' /\ LimitKept' /\ RefusalsEarned'
      /\ NoneBeforehand'
  BY <1>1 DEF IInv, WindowsBegun, OutlivesWindow, LimitKept, RefusalsEarned,
              NoneBeforehand, Current
<1>4. OneExpires'
  BY <1>1 DEF IInv, TypeOK, OneExpires
<1>5. CountedWhileItLasts'
  <2>1. Current' = Current
    BY <1>1 DEF Current
  <2>2. Cardinality(Straggling)' = Cardinality(Straggling)
    <3>1. Straggling' = Straggling
      BY <1>1, <2>1 DEF IInv, TypeOK, Straggling
    <3> QED
      BY <3>1
  <2>3. /\ Through <= count[Current] + held[Current]
        /\ Through <= Limit + held[Current]
        /\ Through = accepted[Current] + Cardinality(Straggling) + Ahead
        /\ Through' = accepted[Current] + Cardinality(Straggling) + Ahead'
    BY <1>1, <2>1, <2>2 DEF IInv, CountedWhileItLasts, Through
  <2>4. Ahead \in {0, 1} /\ Ahead' \in {0, 1}
    BY DEF Ahead
  <2>5. CASE win[r] = Current
    <3>1. count[Current] = 0 /\ count'[Current] = 1
      BY <1>1, <2>5 DEF IInv, TypeOK
    <3>2. Through' <= 1 + held[Current]
      BY <2>3, <2>4, <3>1, ThroughTyped DEF IInv
    <3>3. Through' <= Limit + held[Current]
      BY <2>3, <2>4, <3>2, ThroughTyped, LimitAssumption DEF IInv
    <3> QED
      BY <1>1, <2>1, <3>1, <3>2, <3>3 DEF CountedWhileItLasts
  <2>6. CASE win[r] # Current
    <3>1. count'[Current] = count[Current]
      BY <1>1, <2>6, CurrentOK DEF IInv, TypeOK
    <3>2. Expiring(Current)' = Expiring(Current)
      BY <1>1, <2>1, <2>6 DEF IInv, TypeOK, Expiring
    <3>3. Ahead' = Ahead
      BY <3>2 DEF Ahead
    <3> QED
      BY <1>1, <2>1, <2>3, <3>1, <3>3 DEF CountedWhileItLasts
  <2> QED
    BY <2>5, <2>6
<1>6. CountedOnce'
  <2>1. count' = [count EXCEPT ![win[r]] = @ + 1]
    BY <1>1 DEF IInv, TypeOK
  <2> QED
    BY <1>1, <2>1, IncrCounted DEF IInv, TypeOK
<1>7. LeaksExplained'
  BY <1>1 DEF IInv, TypeOK, LeaksExplained
<1> QED
  BY <1>2, <1>3, <1>4, <1>5, <1>6, <1>7 DEF IInv

\* A request let through is counted in the clock's window, and in no other.
LEMMA Served ==
  ASSUME IInv, NEW r \in Requests, LetThrough(r)
  PROVE  /\ accepted' \in [Windows -> Nat]
         /\ accepted'[Current] = accepted[Current] + 1
         /\ \A v \in Windows \ {Current} : accepted'[v] = accepted[v]
<1>1. accepted \in [Windows -> Nat] /\ Current \in Windows
  BY CurrentOK DEF IInv, TypeOK
<1> QED
  BY <1>1 DEF LetThrough

\* The limit and the windows to come depend on the clock's window alone.
LEMMA OthersKept ==
  ASSUME IInv, NEW r \in Requests, LetThrough(r), UNCHANGED <<now, held>>,
         CountedWhileItLasts', TypeOK'
  PROVE  LimitKept' /\ NoneBeforehand'
<1>1. Current' = Current /\ Current \in Windows /\ Current \in Nat
  BY CurrentOK DEF IInv, Current
<1>2. accepted'[Current] <= Limit + held'[Current]
  <2>1. /\ Cardinality(Straggling)' \in Nat /\ Ahead' \in {0, 1}
        /\ accepted'[Current] \in Nat /\ held'[Current] \in Nat
    <3>1. /\ Straggling' \subseteq Requests
      BY DEF Straggling
    <3>2. Cardinality(Straggling') \in Nat
      BY <3>1, FS_Subset, FS_CardinalityType, LimitAssumption
    <3> QED
      BY <1>1, <3>2 DEF TypeOK, Ahead
  <2>2. accepted'[Current] + Cardinality(Straggling)' + Ahead'
            <= Limit + held'[Current]
    BY <1>1 DEF CountedWhileItLasts, Through
  <2> QED
    BY <2>1, <2>2, LimitAssumption
<1>3. LimitKept'
  BY <1>2, Served DEF IInv, LimitKept
<1>4. NoneBeforehand'
  BY <1>1, Served DEF IInv, NoneBeforehand
<1> QED
  BY <1>3, <1>4

\* A later INCR, within the limit.
LEMMA IncrAcceptedOK ==
  ASSUME IInv, NEW r \in Requests, IncrAccepted(r)
  PROVE  IInv'
<1>1. /\ pc[r] = "incr" /\ win[r] \in Windows
      /\ count[win[r]] \in Nat \ {0} /\ count[win[r]] < Limit
      /\ count' = [count EXCEPT ![win[r]] = @ + 1]
      /\ pc' = [pc EXCEPT ![r] = "idle"]
      /\ UNCHANGED <<now, ttl, win, made, held, refused, leaked>>
  BY LimitAssumption DEF IInv, TypeOK, IncrAccepted, LetThrough
<1>2. /\ accepted' \in [Windows -> Nat]
      /\ accepted'[Current] = accepted[Current] + 1
  BY Served DEF IncrAccepted
<1>3. TypeOK'
  <2>1. count' \in [Windows -> Nat] /\ pc' \in [Requests -> {"idle", "incr", "expire"}]
    BY <1>1 DEF IInv, TypeOK
  <2>2. ASSUME NEW v \in Windows, count'[v] = 0 PROVE count[v] = 0
    BY <1>1, <2>2 DEF IInv, TypeOK
  <2>3. ASSUME NEW x \in Requests, pc'[x] = "expire"
        PROVE  count'[win[x]] > 0 /\ ttl[win[x]] = 0
    BY <1>1, <2>3 DEF IInv, TypeOK
  <2> QED
    BY <1>1, <1>2, <2>1, <2>2, <2>3 DEF IInv, TypeOK
<1>4. WindowsBegun' /\ OutlivesWindow' /\ OneExpires' /\ RefusalsEarned'
  BY <1>1 DEF IInv, TypeOK, WindowsBegun, OutlivesWindow, OneExpires,
              RefusalsEarned
<1>5. /\ Through <= count[Current] + held[Current]
      /\ Through <= Limit + held[Current]
  BY DEF IInv, CountedWhileItLasts
<1>6. CountedWhileItLasts'
  <2>1. Current' = Current /\ Ahead' = Ahead
    BY <1>1, StragglerEnds
  <2>2. /\ Through = accepted[Current] + Cardinality(Straggling) + Ahead
        /\ Through' = accepted[Current] + 1 + Cardinality(Straggling)' + Ahead
    BY <1>2, <2>1 DEF Through
  <2>3. CASE win[r] < Current
    <3>1. Cardinality(Straggling)' = Cardinality(Straggling) - 1
      BY <1>1, <2>3, StragglerEnds
    <3>2. Through' = Through
      BY <2>2, <3>1, ThroughTyped DEF IInv
    <3>3. count'[Current] = count[Current]
      BY <1>1, <2>3, CurrentOK, NoneAhead DEF IInv, TypeOK
    <3> QED
      BY <1>1, <1>5, <2>1, <3>2, <3>3 DEF CountedWhileItLasts
  <2>4. CASE win[r] = Current
    <3>1. Cardinality(Straggling)' = Cardinality(Straggling)
      BY <1>1, <2>4, StragglerEnds
    <3>2. Through' = Through + 1 /\ Through \in Nat
      BY <2>2, <3>1, ThroughTyped DEF IInv
    <3>3. count'[Current] = count[Current] + 1 /\ count[Current] < Limit
      BY <1>1, <2>4 DEF IInv, TypeOK
    <3> QED
      BY <1>1, <1>5, <2>1, <3>2, <3>3, ThroughTyped, LimitAssumption
         DEF IInv, CountedWhileItLasts
  <2> QED
    BY <2>3, <2>4, NoneAhead DEF IInv
<1>7. LimitKept' /\ NoneBeforehand'
  BY <1>1, <1>3, <1>6, OthersKept DEF IncrAccepted
<1>8. CountedOnce'
  BY <1>1, IncrCounted DEF IInv, TypeOK
<1>9. LeaksExplained'
  BY <1>1 DEF IInv, TypeOK, LeaksExplained
<1> QED
  BY <1>3, <1>4, <1>6, <1>7, <1>8, <1>9 DEF IInv

\* A request that ends without being let through makes room, if anything.
LEMMA FewerThrough ==
  ASSUME IInv, NEW r \in Requests, pc[r] # "idle",
         pc' = [pc EXCEPT ![r] = "idle"],
         UNCHANGED <<now, win, accepted, held>>,
         count'[Current] \in Nat, count'[Current] >= count[Current]
  PROVE  CountedWhileItLasts'
<1>1. /\ Current' = Current /\ Ahead' <= Ahead /\ Ahead' \in {0, 1}
      /\ \/ Cardinality(Straggling)' = Cardinality(Straggling) - 1
         \/ Cardinality(Straggling)' = Cardinality(Straggling)
  BY StragglerEnds, NoneAhead DEF IInv
<1>2. /\ Through' = accepted[Current] + Cardinality(Straggling)' + Ahead'
      /\ Through = accepted[Current] + Cardinality(Straggling) + Ahead
  BY <1>1 DEF Through
<1>3. Through' <= Through /\ Through' \in Int /\ Through \in Int
  BY <1>1, <1>2, ThroughTyped DEF IInv
<1>4. /\ Through <= count[Current] + held[Current]
      /\ Through <= Limit + held[Current]
  BY DEF IInv, CountedWhileItLasts
<1> QED
  BY <1>1, <1>3, <1>4, ThroughTyped, LimitAssumption DEF IInv, CountedWhileItLasts

\* An INCR beyond the limit.
LEMMA IncrRefusedOK ==
  ASSUME IInv, NEW r \in Requests, IncrRefused(r)
  PROVE  IInv'
<1>1. /\ pc[r] = "incr" /\ win[r] \in Windows /\ count[win[r]] >= Limit
      /\ count[win[r]] \in Nat \ {0}
      /\ count' = [count EXCEPT ![win[r]] = @ + 1]
      /\ pc' = [pc EXCEPT ![r] = "idle"] /\ refused' = refused \cup {win[r]}
      /\ UNCHANGED <<now, ttl, win, made, accepted, held, leaked>>
  BY LimitAssumption DEF IInv, TypeOK, IncrRefused
<1>2. TypeOK'
  BY <1>1 DEF IInv, TypeOK
<1>3. /\ WindowsBegun' /\ OutlivesWindow' /\ OneExpires' /\ LimitKept'
      /\ NoneBeforehand'
  BY <1>1 DEF IInv, TypeOK, WindowsBegun, OutlivesWindow, OneExpires, LimitKept,
              NoneBeforehand, Current
<1>4. count'[Current] \in Nat /\ count'[Current] >= count[Current]
  BY <1>1, CurrentOK DEF IInv, TypeOK
<1>5. CountedWhileItLasts'
  BY <1>1, <1>4, FewerThrough DEF IInv, TypeOK
<1>6. CountedOnce' /\ count[win[r]] < made[win[r]]
  BY <1>1, IncrCounted DEF IInv, TypeOK
<1>7. RefusalsEarned'
  <2>1. made[win[r]] \in Nat
    BY <1>1 DEF IInv, TypeOK
  <2> QED
    BY <1>1, <1>6, <2>1, LimitAssumption DEF IInv, RefusalsEarned
<1>8. LeaksExplained'
  BY <1>1 DEF IInv, TypeOK, LeaksExplained
<1> QED
  BY <1>2, <1>3, <1>5, <1>6, <1>7, <1>8 DEF IInv

\* EXPIRE: the request that made the counter is let through.
LEMMA SetExpiryOK ==
  ASSUME IInv, NEW r \in Requests, SetExpiry(r)
  PROVE  IInv'
<1>1. /\ pc[r] = "expire" /\ win[r] \in Windows /\ win[r] \in 0..MaxWindow
      /\ win[r] * Minute <= now /\ now \in Nat
      /\ count[win[r]] > 0 /\ ttl[win[r]] = 0 /\ Minute \in Nat \ {0}
  BY CurrentOK, LimitAssumption DEF IInv, TypeOK, WindowsBegun, SetExpiry
<1>2. /\ ttl' = [ttl EXCEPT ![win[r]] = Minute] /\ pc' = [pc EXCEPT ![r] = "idle"]
      /\ UNCHANGED <<now, count, win, made, held, refused, leaked>>
  BY DEF SetExpiry, LetThrough, TimeToLive
<1>3. /\ accepted' \in [Windows -> Nat]
      /\ accepted'[Current] = accepted[Current] + 1
  BY Served DEF SetExpiry
<1>4. TypeOK'
  <2>1. ttl' \in [Windows -> 0..Minute] /\ pc' \in [Requests -> {"idle", "incr", "expire"}]
    BY <1>1, <1>2 DEF IInv, TypeOK
  <2>2. ASSUME NEW v \in Windows, count[v] = 0 PROVE ttl'[v] = 0
    BY <1>1, <1>2, <2>2 DEF IInv, TypeOK
  <2>3. ASSUME NEW x \in Requests, pc'[x] = "expire"
        PROVE  count[win[x]] > 0 /\ ttl'[win[x]] = 0
    <3>1. x # r /\ pc[x] = "expire"
      BY <1>1, <1>2, <2>3 DEF IInv, TypeOK
    <3>2. win[x] # win[r]
      BY <1>1, <3>1 DEF IInv, OneExpires
    <3> QED
      BY <1>2, <3>1, <3>2 DEF IInv, TypeOK
  <2> QED
    BY <1>2, <1>3, <2>1, <2>2, <2>3 DEF IInv, TypeOK
<1>5. WindowsBegun' /\ OneExpires' /\ RefusalsEarned'
  BY <1>2 DEF IInv, TypeOK, WindowsBegun, OneExpires, RefusalsEarned
<1>6. OutlivesWindow'
  <2> SUFFICES ASSUME NEW v \in Windows, ttl'[v] > 0
               PROVE  v <= MaxWindow /\ (v + 1) * Minute <= now + ttl'[v]
    BY <1>2 DEF OutlivesWindow
  <2>1. CASE v = win[r]
    <3>1. ttl'[v] = Minute
      BY <1>1, <1>2, <2>1 DEF IInv, TypeOK
    <3>2. (win[r] + 1) * Minute = win[r] * Minute + Minute
      BY <1>1
    <3>3. win[r] * Minute \in Nat
      BY <1>1
    <3> QED
      BY <1>1, <2>1, <3>1, <3>2, <3>3, LimitAssumption
  <2>2. CASE v # win[r]
    BY <1>2, <2>2 DEF IInv, TypeOK, OutlivesWindow
  <2> QED
    BY <2>1, <2>2
<1>7. r \in Expiring(win[r]) /\ Expiring(win[r])' = {}
  BY <1>1, <1>2 DEF IInv, TypeOK, OneExpires, Expiring
<1>8. CountedWhileItLasts'
  <2>1. Current' = Current
    BY <1>1, <1>2, StragglerEnds
  <2>2. /\ Through = accepted[Current] + Cardinality(Straggling) + Ahead
        /\ Through' = accepted[Current] + 1 + Cardinality(Straggling)' + Ahead'
    BY <1>3, <2>1 DEF Through
  <2>3. CASE win[r] < Current
    <3>1. Cardinality(Straggling)' = Cardinality(Straggling) - 1 /\ Ahead' = Ahead
      BY <1>1, <1>2, <2>3, StragglerEnds
    <3> QED
      BY <1>2, <2>1, <2>2, <3>1, ThroughTyped DEF IInv, CountedWhileItLasts
  <2>4. CASE win[r] = Current
    <3>1. Cardinality(Straggling)' = Cardinality(Straggling)
      BY <1>1, <1>2, <2>4, StragglerEnds
    <3>2. Ahead = 1 /\ Ahead' = 0
      BY <1>7, <2>1, <2>4, <1>2 DEF Ahead, Expiring
    <3> QED
      BY <1>2, <2>1, <2>2, <3>1, <3>2, ThroughTyped DEF IInv, CountedWhileItLasts
  <2> QED
    BY <2>3, <2>4, NoneAhead DEF IInv
<1>9. LimitKept' /\ NoneBeforehand'
  BY <1>2, <1>4, <1>8, OthersKept DEF SetExpiry
<1>10. CountedOnce'
  <2>1. ASSUME NEW v \in Windows PROVE Counting(v)' = Counting(v)
    BY <1>1, <1>2 DEF IInv, TypeOK, Counting
  <2> QED
    BY <1>2, <2>1 DEF IInv, CountedOnce
<1>11. LeaksExplained'
  <2> SUFFICES ASSUME NEW v \in Windows, count[v] > 0, ttl'[v] = 0
               PROVE  \/ v \in leaked
                      \/ \E x \in Requests : pc'[x] = "expire" /\ win[x] = v
    BY <1>2 DEF LeaksExplained
  <2>1. v # win[r] /\ ttl[v] = 0
    BY <1>1, <1>2 DEF IInv, TypeOK
  <2> QED
    BY <1>1, <1>2, <2>1 DEF IInv, TypeOK, LeaksExplained
<1> QED
  BY <1>4, <1>5, <1>6, <1>8, <1>9, <1>10, <1>11 DEF IInv

\* A request ends before Redis has done all it was to ask for.
LEMMA CrashOK ==
  ASSUME IInv, NEW r \in Requests, Crash(r)
  PROVE  IInv'
<1>1. /\ pc' = [pc EXCEPT ![r] = "idle"] /\ win[r] \in Windows
      /\ leaked' = IF pc[r] = "expire" THEN leaked \cup {win[r]} ELSE leaked
      /\ UNCHANGED <<now, count, ttl, win, made, accepted, held, refused>>
      /\ pc[r] # "idle"
  BY DEF IInv, TypeOK, Crash, redis
<1>2. TypeOK'
  BY <1>1 DEF IInv, TypeOK
<1>3. /\ WindowsBegun' /\ OutlivesWindow' /\ OneExpires' /\ LimitKept'
      /\ RefusalsEarned' /\ NoneBeforehand'
  BY <1>1 DEF IInv, TypeOK, WindowsBegun, OutlivesWindow, OneExpires, LimitKept,
              RefusalsEarned, NoneBeforehand, Current
<1>4. ASSUME NEW v \in Windows PROVE Counting(v)' \subseteq Counting(v)
  BY <1>1 DEF IInv, TypeOK, Counting
<1>5. CountedWhileItLasts'
  <2>1. count'[Current] \in Nat /\ count'[Current] >= count[Current]
    BY <1>1, CurrentOK DEF IInv, TypeOK
  <2> QED
    BY <1>1, <2>1, FewerThrough
<1>6. CountedOnce'
  <2> SUFFICES ASSUME NEW v \in Windows
               PROVE  count[v] + Cardinality(Counting(v))' <= made[v]
    BY <1>1 DEF CountedOnce
  <2>1. /\ Cardinality(Counting(v)') <= Cardinality(Counting(v))
        /\ Cardinality(Counting(v)') \in Nat /\ Cardinality(Counting(v)) \in Nat
    BY <1>4, CountingFinite, FS_Subset, FS_CardinalityType
  <2> QED
    BY <2>1 DEF IInv, TypeOK, CountedOnce
<1>7. LeaksExplained'
  <2> SUFFICES ASSUME NEW v \in Windows, count[v] > 0, ttl[v] = 0
               PROVE  \/ v \in leaked'
                      \/ \E x \in Requests : pc'[x] = "expire" /\ win[x] = v
    BY <1>1 DEF LeaksExplained
  <2>1. CASE v \in leaked
    BY <1>1, <2>1
  <2>2. ASSUME NEW x \in Requests, pc[x] = "expire", win[x] = v
        PROVE  \/ v \in leaked'
               \/ \E y \in Requests : pc'[y] = "expire" /\ win[y] = v
    <3>1. CASE x = r
      BY <1>1, <2>2, <3>1
    <3>2. CASE x # r
      BY <1>1, <2>2, <3>2 DEF IInv, TypeOK
    <3> QED
      BY <3>1, <3>2
  <2> QED
    BY <2>1, <2>2 DEF IInv, LeaksExplained
<1> QED
  BY <1>2, <1>3, <1>5, <1>6, <1>7 DEF IInv

\* The clock does not leave a window behind before it is over; at its bound it
\* stands still in the window after the last arrivals.
LEMMA ClockOK ==
  ASSUME IInv, Tick, NEW v \in Windows
  PROVE  /\ now' \in 0..LastTick /\ now' >= now /\ now \in Nat
         /\ v <= MaxWindow => now' = now + 1 \/ (v + 1) * Minute <= now'
<1>1. now \in 0..LastTick /\ LastTick \in Nat /\ v \in Nat /\ Minute \in Nat \ {0}
  <2>1. /\ (MaxWindow + 2) * Minute = (MaxWindow + 1) * Minute + Minute
        /\ (MaxWindow + 1) * Minute \in Nat
    BY LimitAssumption
  <2> QED
    BY <2>1, LimitAssumption DEF IInv, TypeOK, LastTick, Windows
<1>2. \/ now' = now + 1 /\ now < LastTick
      \/ now' = LastTick /\ now = LastTick
  BY <1>1 DEF Tick
<1>3. ASSUME v <= MaxWindow PROVE (v + 1) * Minute <= LastTick
  <2>1. (v + 1) * Minute <= (MaxWindow + 1) * Minute
    BY <1>1, <1>3, TimesMonotone, LimitAssumption
  <2>2. (MaxWindow + 2) * Minute = (MaxWindow + 1) * Minute + Minute
    BY LimitAssumption
  <2>3. (MaxWindow + 1) * Minute \in Nat /\ (v + 1) * Minute \in Nat
    BY <1>1, LimitAssumption
  <2> QED
    BY <1>1, <2>1, <2>2, <2>3 DEF LastTick
<1> QED
  BY <1>1, <1>2, <1>3

\* Time passes.
LEMMA TickOK ==
  ASSUME IInv, Tick
  PROVE  IInv'
<1>1. ASSUME NEW v \in Windows
      PROVE  /\ ttl'[v] = IF ttl[v] = 0 THEN 0 ELSE ttl[v] - 1
             /\ count'[v] = IF ttl[v] = 1 THEN 0 ELSE count[v]
             /\ ttl[v] \in 0..Minute /\ count[v] \in Nat
  BY DEF IInv, TypeOK, Tick
<1>2. UNCHANGED <<pc, win, made, accepted, refused, leaked>>
  BY DEF Tick
<1>3. 0 \in Windows /\ Minute \in Nat
  BY LimitAssumption DEF Windows
<1>4. now' \in 0..LastTick /\ now' >= now /\ now \in Nat
  BY <1>3, ClockOK
<1>5. TypeOK'
  <2>0. held' \in [Windows -> Nat]
    <3>1. held \in [Windows -> Nat] /\ Cardinality(InFlight) \in Nat
      BY ThroughTyped DEF IInv, TypeOK
    <3>2. \/ held' = held
          \/ held' = [held EXCEPT ![Current'] = Cardinality(InFlight)]
      BY DEF Tick
    <3> QED
      BY <3>1, <3>2
  <2>1. count' \in [Windows -> Nat]
    BY DEF IInv, TypeOK, Tick
  <2>2. ttl' \in [Windows -> 0..Minute]
    <3>1. ttl' = [v \in Windows |-> IF ttl[v] = 0 THEN 0 ELSE ttl[v] - 1]
      BY DEF Tick
    <3>2. ASSUME NEW v \in Windows
          PROVE  (IF ttl[v] = 0 THEN 0 ELSE ttl[v] - 1) \in 0..Minute
      BY <1>1, <1>3
    <3> QED
      BY <3>1, <3>2
  <2>3. ASSUME NEW v \in Windows, count'[v] = 0 PROVE ttl'[v] = 0
    BY <1>1, <2>3 DEF IInv, TypeOK
  <2>4. ASSUME NEW x \in Requests, pc[x] = "expire"
        PROVE  count'[win[x]] > 0 /\ ttl'[win[x]] = 0
    BY <1>1, <2>4 DEF IInv, TypeOK
  <2> QED
    BY <1>2, <1>4, <2>0, <2>1, <2>2, <2>3, <2>4 DEF IInv, TypeOK
<1>6. WindowsBegun'
  <2>1. ASSUME NEW x \in Requests
        PROVE  win[x] \in 0..MaxWindow /\ win[x] * Minute <= now'
    <3>1. win[x] \in 0..MaxWindow /\ win[x] * Minute <= now
      BY DEF IInv, WindowsBegun
    <3>2. win[x] * Minute \in Nat
      BY <1>3, <3>1, LimitAssumption
    <3> QED
      BY <1>4, <3>1, <3>2
  <2> QED
    BY <1>2, <2>1 DEF WindowsBegun
<1>7. /\ Current \in Windows /\ Current' \in Windows
      /\ Current \in Nat /\ Current' \in Nat /\ Current <= Current'
      /\ now' < (Current' + 1) * Minute
  <2>1. Current \in Windows /\ Current \in Nat /\ Current * Minute <= now
    BY CurrentOK DEF IInv
  <2>2. Current' = now' \div Minute
    BY DEF Current
  <2>3. /\ Current' \in Windows /\ Current' \in Nat /\ now' \in Nat
        /\ now' < (Current' + 1) * Minute
    BY <1>4, <2>2, WindowOf
  <2>4. Current * Minute <= now'
    <3>1. Current * Minute \in Nat
      BY <1>3, <2>1
    <3> QED
      BY <1>4, <2>1, <2>3, <3>1
  <2>5. Current <= now' \div Minute
    BY <2>1, <2>3, <2>4, BegunDiv, LimitAssumption
  <2> QED
    BY <2>1, <2>2, <2>3, <2>5
<1>8. ASSUME NEW v \in Windows, ttl[v] > 0
      PROVE  /\ v <= MaxWindow /\ (v + 1) * Minute <= now + ttl[v]
             /\ (v + 1) * Minute \in Nat
  <2>1. v \in Nat
    BY DEF Windows
  <2> QED
    BY <1>3, <1>8, <2>1 DEF IInv, OutlivesWindow
<1>9. OutlivesWindow'
  <2>1. ASSUME NEW v \in Windows, ttl'[v] > 0
        PROVE  v <= MaxWindow /\ (v + 1) * Minute <= now' + ttl'[v]
    <3>1. ttl[v] > 0 /\ ttl'[v] = ttl[v] - 1 /\ ttl[v] \in Nat
      BY <1>1, <1>3, <2>1
    <3> QED
      BY <1>4, <1>8, <3>1, ClockOK
  <2> QED
    BY <2>1 DEF OutlivesWindow
<1>10. ASSUME NEW v \in Windows, now' < (v + 1) * Minute
       PROVE  count'[v] = count[v] /\ now < (v + 1) * Minute
  <2>1. (v + 1) * Minute \in Nat
    BY <1>3 DEF Windows
  <2>2. ttl[v] # 1
    BY <1>4, <1>8, <1>10, ClockOK
  <2> QED
    BY <1>1, <1>4, <1>10, <2>1, <2>2
<1>11. CountedWhileItLasts'
  <2>1. CASE Current' = Current
    <3>1. Straggling' = Straggling /\ Expiring(Current)' = Expiring(Current)
      BY <1>2, <2>1 DEF Straggling, Expiring
    <3>2. Through' = Through
      BY <1>2, <2>1, <3>1 DEF Through, Ahead
    <3>3. count'[Current] = count[Current] /\ held' = held
      <4>1. now' < (Current + 1) * Minute
        BY <1>7, <2>1
      <4> QED
        BY <1>7, <1>10, <2>1, <4>1 DEF Tick
    <3> QED
      BY <2>1, <3>2, <3>3 DEF IInv, CountedWhileItLasts
  <2>2. CASE Current' # Current
    <3>1. held'[Current'] = Cardinality(InFlight) /\ accepted'[Current'] = 0
      BY <1>2, <1>7, <2>2 DEF IInv, TypeOK, Tick, NoneBeforehand
    <3>2. /\ Cardinality(Straggling') \in Nat
          /\ Cardinality(Straggling') <= Cardinality(InFlight)
          /\ Cardinality(InFlight) \in Nat
      <4>1. Straggling' \subseteq InFlight
        BY <1>2 DEF Straggling, InFlight
      <4>2. IsFiniteSet(InFlight) /\ Cardinality(InFlight) \in Nat
        BY ThroughTyped DEF IInv
      <4> QED
        BY <4>1, <4>2, FS_Subset, FS_CardinalityType
    <3>3. Ahead' = 0
      <4>1. ASSUME NEW x \in Requests PROVE win[x] # Current'
        BY <1>7, <2>2, NoneAhead DEF IInv
      <4>2. Expiring(Current)' = {}
        BY <1>2, <4>1 DEF Expiring
      <4> QED
        BY <4>2 DEF Ahead
    <3>4. count'[Current'] \in Nat
      BY <1>5, <1>7 DEF TypeOK
    <3> QED
      BY <3>1, <3>2, <3>3, <3>4, LimitAssumption DEF CountedWhileItLasts, Through
  <2> QED
    BY <2>1, <2>2
<1>12. OneExpires' /\ RefusalsEarned' /\ NoneBeforehand' /\ LimitKept'
  <2>1. OneExpires' /\ RefusalsEarned'
    BY <1>2 DEF IInv, OneExpires, RefusalsEarned
  <2>2. NoneBeforehand'
    BY <1>2, <1>7 DEF IInv, NoneBeforehand, Windows
  <2>3. ASSUME NEW v \in Windows PROVE accepted[v] <= Limit + held'[v]
    <3>1. CASE held'[v] = held[v]
      BY <3>1 DEF IInv, LimitKept
    <3>2. CASE held'[v] # held[v]
      <4>1. v = Current' /\ Current' # Current
        BY <1>7, <3>2 DEF IInv, TypeOK, Tick
      <4>2. accepted[v] = 0 /\ held'[v] \in Nat
        BY <1>5, <1>7, <4>1 DEF IInv, TypeOK, NoneBeforehand
      <4> QED
        BY <4>2, LimitAssumption
    <3> QED
      BY <3>1, <3>2
  <2> QED
    BY <1>2, <2>1, <2>2, <2>3 DEF LimitKept
<1>13. CountedOnce'
  <2> SUFFICES ASSUME NEW v \in Windows
               PROVE  count'[v] + Cardinality(Counting(v))' <= made[v]
    BY <1>2 DEF CountedOnce
  <2>1. Cardinality(Counting(v))' = Cardinality(Counting(v))
    BY <1>2 DEF Counting
  <2>2. count'[v] <= count[v] /\ count'[v] \in Nat /\ count[v] \in Nat
    BY <1>1
  <2> QED
    BY <2>1, <2>2, CountingFinite DEF IInv, TypeOK, CountedOnce
<1>14. LeaksExplained'
  <2>1. ASSUME NEW v \in Windows, count'[v] > 0, ttl'[v] = 0
        PROVE  count[v] > 0 /\ ttl[v] = 0
    BY <1>1, <2>1, <1>3
  <2> QED
    BY <1>2, <2>1 DEF IInv, LeaksExplained
<1> QED
  BY <1>5, <1>6, <1>9, <1>11, <1>12, <1>13, <1>14 DEF IInv

-------------------------------------------------------------------------------
\* Every step of the limiter keeps the invariant.
LEMMA NextIInv == IInv /\ [Next]_vars => IInv'
<1> SUFFICES ASSUME IInv, [Next]_vars PROVE IInv'
  OBVIOUS
<1>1. ASSUME NEW r \in Requests, Step(r) PROVE IInv'
  BY <1>1, ArriveOK, IncrFirstOK, IncrAcceptedOK, IncrRefusedOK, SetExpiryOK,
     CrashOK DEF Step
<1>2. CASE UNCHANGED vars
  <2>1. UNCHANGED <<now, count, ttl, pc, win, made, accepted, held, refused,
                    leaked>>
    BY <1>2 DEF vars, redis, history
  <2>2. ASSUME NEW v \in Windows PROVE Counting(v)' = Counting(v)
    BY <2>1 DEF Counting
  <2>3. /\ TypeOK' /\ WindowsBegun' /\ OutlivesWindow' /\ OneExpires'
        /\ LimitKept' /\ NoneBeforehand'
    BY <2>1 DEF IInv, TypeOK, WindowsBegun, OutlivesWindow, OneExpires, LimitKept,
                NoneBeforehand, Current
  <2>4. CountedWhileItLasts'
    BY <2>1 DEF IInv, CountedWhileItLasts, Through, Ahead, Straggling, Expiring,
                Current
  <2> QED
    BY <2>1, <2>2, <2>3, <2>4 DEF IInv, CountedOnce, RefusalsEarned, LeaksExplained
<1> QED
  BY <1>1, <1>2, TickOK DEF Next

\* The invariant holds throughout.
LEMMA Invariance == Spec => []IInv
BY InitIInv, NextIInv, PTL DEF Spec

\* Counters, times to live and requests keep their types, and a time to live
\* is given to a counter once.
THEOREM TypeCorrect == Spec => []TypeOK
<1>1. IInv => TypeOK
  BY DEF IInv
<1> QED
  BY <1>1, Invariance, PTL

\* No window of the clock lets more requests through than the limit and those
\* that were in flight when it began.
THEOREM LimitSafe == Spec => []LimitKept
<1>1. IInv => LimitKept
  BY DEF IInv
<1> QED
  BY <1>1, Invariance, PTL

\* A client is refused only in a window in which it sent more than the limit.
THEOREM RefusalsSafe == Spec => []RefusalsEarned
<1>1. IInv => RefusalsEarned
  BY DEF IInv
<1> QED
  BY <1>1, Invariance, PTL

\* A counter without a time to live is one whose EXPIRE is to come or was lost.
THEOREM LeaksSafe == Spec => []LeaksExplained
<1>1. IInv => LeaksExplained
  BY DEF IInv
<1> QED
  BY <1>1, Invariance, PTL

===============================================================================
