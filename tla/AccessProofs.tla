------------------------------ MODULE AccessProofs ------------------------------
(***************************************************************************)
(* Theorems about Access, for any limit and window, any number of people,  *)
(* buckets, sessions and requests: first the limiter, then the recorder of *)
(* sign-ins.                                                               *)
(***************************************************************************)
EXTENDS Access, FiniteSetTheorems, SequenceTheorems, TLAPS

(* The hits of one person in one bucket, with those that are let go of. *)
InOrder(s, d, time) ==
    /\ d <= Len(s)
    /\ Len(s) - d <= Limit
    /\ \A i \in 1..Len(s) : s[i] <= time
    /\ \A i, j \in 1..Len(s) : i <= j => s[i] <= s[j]
    /\ \A i \in 1..d : s[i] < time - Window

Bounded(s) == \A i \in 1..(Len(s) - Limit) : s[i + Limit] - s[i] > Window

(* One more hit, where there is room for it, keeps the order and the bound. *)
LEMMA OneMoreHit ==
    ASSUME NEW s \in Seq(Nat), NEW d \in Nat, NEW time \in Nat,
           InOrder(s, d, time), Bounded(s), Len(s) - d < Limit
    PROVE  /\ Append(s, time) \in Seq(Nat)
           /\ InOrder(Append(s, time), d, time)
           /\ Bounded(Append(s, time))
<1> DEFINE new == Append(s, time)
<1>1. Limit \in Nat /\ Limit > 0 /\ Window \in Nat /\ Len(s) \in Nat
  BY AccessAssumption
<1>2. /\ new \in Seq(Nat) /\ Len(new) = Len(s) + 1
      /\ \A i \in 1..Len(s) : new[i] = s[i]
      /\ new[Len(s) + 1] = time
  OBVIOUS
<1>3. \A i \in 1..Len(s) : s[i] \in Nat
  OBVIOUS
<1> HIDE DEF new
<1>4. \A i \in 1..Len(new) : i \in 1..Len(s) \/ i = Len(s) + 1
  BY <1>1, <1>2
<1>5. \A i \in 1..Len(new) : new[i] <= time
  <2> SUFFICES ASSUME NEW i \in 1..Len(new) PROVE new[i] <= time
    OBVIOUS
  <2>1. CASE i \in 1..Len(s)
    BY <1>2, <2>1 DEF InOrder
  <2>2. CASE i = Len(s) + 1
    BY <1>2, <2>2
  <2> QED
    BY <1>4, <2>1, <2>2
<1>6. \A i, j \in 1..Len(new) : i <= j => new[i] <= new[j]
  <2> SUFFICES ASSUME NEW i \in 1..Len(new), NEW j \in 1..Len(new), i <= j
               PROVE  new[i] <= new[j]
    OBVIOUS
  <2>1. CASE j = Len(s) + 1
    BY <1>2, <1>5, <2>1
  <2>2. CASE j \in 1..Len(s)
    <3>1. i \in 1..Len(s)
      BY <1>1, <1>2, <2>2
    <3>2. s[i] <= s[j]
      BY <2>2, <3>1 DEF InOrder
    <3> QED
      BY <1>2, <2>2, <3>1, <3>2
  <2> QED
    BY <1>4, <2>1, <2>2
<1>7. \A i \in 1..d : new[i] < time - Window
  <2> SUFFICES ASSUME NEW i \in 1..d PROVE new[i] < time - Window
    OBVIOUS
  <2>1. i \in 1..Len(s) /\ s[i] < time - Window
    BY <1>1 DEF InOrder
  <2> QED
    BY <1>2, <2>1
<1>8. InOrder(new, d, time)
  BY <1>1, <1>2, <1>5, <1>6, <1>7 DEF InOrder
<1>9. ASSUME NEW i \in 1..(Len(new) - Limit) PROVE new[i + Limit] - new[i] > Window
  <2>1. CASE i + Limit <= Len(s)
    <3>1. i \in 1..Len(s) /\ i + Limit \in 1..Len(s) /\ i \in 1..(Len(s) - Limit)
      BY <1>1, <2>1
    <3> QED
      BY <1>2, <3>1 DEF Bounded
  <2>2. CASE i + Limit = Len(s) + 1
    <3>1. i \in 1..d /\ i \in 1..Len(s)
      BY <1>1, <2>2 DEF InOrder
    <3>2. s[i] < time - Window
      BY <3>1 DEF InOrder
    <3>3. new[i] = s[i] /\ new[i + Limit] = time
      BY <1>2, <2>2, <3>1
    <3>4. s[i] \in Nat
      BY <1>3, <3>1
    <3> QED
      BY <1>1, <3>2, <3>3, <3>4
  <2>3. i \in Nat /\ i <= Len(s) + 1 - Limit
    BY <1>1, <1>2
  <2>4. \A a, b, c \in Nat : a <= b + 1 - c => a + c <= b \/ a + c = b + 1
    OBVIOUS
  <2>5. i + Limit <= Len(s) \/ i + Limit = Len(s) + 1
    BY <1>1, <2>3, <2>4
  <2> QED
    BY <2>1, <2>2, <2>5
<1>10. Bounded(new)
  BY <1>9 DEF Bounded
<1> QED
  BY <1>2, <1>8, <1>10 DEF new

(* Hits are in the order of time, and what the deque has let go of is older *)
(* than a window: nothing is popped that still counts.                     *)
LimiterInv ==
    /\ now \in Nat
    /\ hits \in [Keys -> Seq(Nat)]
    /\ dropped \in [Keys -> Nat]
    /\ \A k \in Keys : InOrder(hits[k], dropped[k], now) /\ Bounded(hits[k])

(* Where the loop stops, the deque holds the hits that count and no other.  *)
LEMMA StopsInOrder ==
    ASSUME LimiterInv, NEW key \in Keys, NEW d \in 0..Len(hits[key]), Stops(key, d)
    PROVE  InOrder(hits[key], d, now)
<1>1. /\ dropped[key] \in Nat /\ hits[key] \in Seq(Nat) /\ now \in Nat /\ d \in Nat
      /\ InOrder(hits[key], dropped[key], now)
  BY DEF LimiterInv
<1>2. dropped[key] <= d /\ d <= Len(hits[key])
  BY <1>1 DEF Stops
<1>3. \A i \in 1..d : i \in 1..dropped[key] \/ i \in dropped[key] + 1 .. d
  BY <1>1
<1>4. \A i \in 1..d : hits[key][i] < now - Window
  BY <1>1, <1>3 DEF Stops, InOrder
<1>5. Limit \in Nat
  BY AccessAssumption
<1> QED
  BY <1>1, <1>2, <1>4, <1>5 DEF InOrder

(* A step of the limiter keeps the invariant. *)
LEMMA CheckKeeps ==
    ASSUME LimiterInv, NEW key \in Keys, Check(key), UNCHANGED now
    PROVE  LimiterInv'
<1>1. PICK d \in 0..Len(hits[key]) :
         /\ Stops(key, d)
         /\ dropped' = [dropped EXCEPT ![key] = d]
         /\ Accept(key, d) \/ Refuse(key, d)
  BY DEF Check
<1>2. /\ hits \in [Keys -> Seq(Nat)] /\ dropped \in [Keys -> Nat] /\ now \in Nat
      /\ \A k \in Keys : InOrder(hits[k], dropped[k], now) /\ Bounded(hits[k])
  BY DEF LimiterInv
<1>3. d \in Nat /\ hits[key] \in Seq(Nat)
  BY <1>2
<1>4. InOrder(hits[key], d, now)
  BY <1>1, StopsInOrder
<1>5. CASE Refuse(key, d)
  BY <1>1, <1>2, <1>3, <1>4, <1>5 DEF Refuse, LimiterInv
<1>6. CASE Accept(key, d)
  <2>1. hits' = [hits EXCEPT ![key] = Append(hits[key], now)] /\ Len(hits[key]) - d < Limit
    BY <1>6 DEF Accept
  <2>2. /\ Append(hits[key], now) \in Seq(Nat)
        /\ InOrder(Append(hits[key], now), d, now)
        /\ Bounded(Append(hits[key], now))
    BY <1>2, <1>3, <1>4, <2>1, OneMoreHit
  <2> QED
    BY <1>1, <1>2, <1>3, <2>1, <2>2 DEF LimiterInv
<1> QED
  BY <1>1, <1>5, <1>6

(* Steps that are not the limiter's leave its variables alone. *)
LEMMA OtherSteps ==
    ASSUME [Next]_vars
    PROVE  \/ UNCHANGED <<now, limiterVars>>
           \/ Tick /\ UNCHANGED limiterVars
           \/ Restart
           \/ \E key \in Keys : Check(key) /\ UNCHANGED now
<1>1. ASSUME NEW r \in Requests, NEW bucket \in Buckets, Change(r, bucket)
      PROVE  UNCHANGED <<now, limiterVars>> \/ \E key \in Keys : Check(key) /\ UNCHANGED now
  <2>1. CASE PersonOf[request[r].session] \in Editors
    <3>1. <<bucket, PersonOf[request[r].session]>> \in Keys
      BY <2>1, AccessAssumption DEF Keys
    <3> QED
      BY <1>1, <2>1, <3>1 DEF Change
  <2> QED
    BY <1>1, <2>1 DEF Change
<1> QED
  BY <1>1 DEF Next, Arrive, Record, RecordFails, View, Tick, vars

(* The invariant is inductive. *)
LEMMA LimiterInductive == Spec => []LimiterInv
<1>1. Init => LimiterInv
  BY AccessAssumption DEF Init, LimiterInv, InOrder, Bounded
<1>2. LimiterInv /\ [Next]_vars => LimiterInv'
  <2> SUFFICES ASSUME LimiterInv, [Next]_vars PROVE LimiterInv'
    OBVIOUS
  <2>1. CASE UNCHANGED <<now, limiterVars>>
    BY <2>1 DEF LimiterInv, limiterVars
  <2>2. CASE Restart
    BY <2>2, AccessAssumption DEF Restart, LimiterInv, InOrder, Bounded
  <2>3. CASE \E key \in Keys : Check(key) /\ UNCHANGED now
    BY <2>3, CheckKeeps
  <2>4. CASE Tick
    <3>1. now' = now + 1 /\ UNCHANGED <<hits, dropped>>
      BY <2>4 DEF Tick, limiterVars
    <3>2. ASSUME NEW k \in Keys PROVE InOrder(hits[k], dropped[k], now + 1)
      <4>1. /\ now \in Nat /\ Window \in Nat /\ dropped[k] \in Nat
            /\ hits[k] \in Seq(Nat) /\ InOrder(hits[k], dropped[k], now)
        BY AccessAssumption DEF LimiterInv
      <4>2. \A i \in 1..Len(hits[k]) : hits[k][i] \in Nat /\ hits[k][i] <= now + 1
        BY <4>1 DEF InOrder
      <4>3. \A i \in 1..dropped[k] : hits[k][i] < now + 1 - Window
        <5> SUFFICES ASSUME NEW i \in 1..dropped[k] PROVE hits[k][i] < now + 1 - Window
          OBVIOUS
        <5>1. hits[k][i] < now - Window /\ i \in 1..Len(hits[k])
          BY <4>1 DEF InOrder
        <5>2. hits[k][i] \in Nat
          BY <4>2, <5>1
        <5> QED
          BY <4>1, <5>1, <5>2
      <4> QED
        BY <4>1, <4>2, <4>3 DEF InOrder
    <3> QED
      BY <3>1, <3>2 DEF LimiterInv
  <2> QED
    BY <2>1, <2>2, <2>3, <2>4, OtherSteps
<1> QED
  BY <1>1, <1>2, PTL DEF Spec

(* Wherever a window is laid, no more than Limit of a person's actions in a *)
(* bucket were accepted in it (RateLimiter.check).                         *)
THEOREM NoWindowHoldsMore == Spec => []WindowBound
<1>1. LimiterInv => WindowBound
  BY DEF LimiterInv, Bounded, WindowBound
<1> QED
  BY <1>1, LimiterInductive, PTL

-----------------------------------------------------------------------------
(* A second more than the whole seconds of a time is longer than the time. *)
LEMMA SecondCovers ==
    ASSUME NEW ticks \in Nat, NEW s \in Nat, s > 0
    PROVE  LET seconds == ticks \div s IN
           ((IF seconds > 1 THEN seconds ELSE 1) + 1) * s > ticks
<1> DEFINE seconds == ticks \div s
<1>1. (seconds + 1) * s > ticks /\ seconds \in Nat
  OBVIOUS
<1> HIDE DEF seconds
<1>2. CASE seconds > 1
  BY <1>1, <1>2
<1>3. CASE ~ seconds > 1
  <2>1. (seconds + 1) * s <= (1 + 1) * s
    BY <1>1, <1>3
  <2> QED
    BY <1>1, <1>3, <2>1
<1> QED
  BY <1>2, <1>3 DEF seconds

(* Until another hit is accepted, a full deque's oldest hit has left the    *)
(* window by the time a refused person was told to come back, and a second. *)
RetryInv ==
    /\ LimiterInv
    /\ retryAt \in [Keys -> Int]
    /\ \A k \in Keys : retryAt[k] # -1 =>
          /\ Len(hits[k]) >= Limit
          /\ hits[k][Len(hits[k]) - Limit + 1] + Window < retryAt[k]

(* Where a hit is refused, the oldest one that counts is in the window. *)
LEMMA RefusedIsFull ==
    ASSUME LimiterInv, NEW key \in Keys, NEW d \in 0..Len(hits[key]), Stops(key, d), Refuse(key, d)
    PROVE  /\ d = Len(hits[key]) - Limit
           /\ hits[key][d + 1] \in Nat
           /\ hits[key][d + 1] >= now - Window
<1>1. /\ hits[key] \in Seq(Nat) /\ d \in Nat /\ Limit \in Nat /\ Limit > 0
      /\ InOrder(hits[key], d, now) /\ Len(hits[key]) - d >= Limit
  BY StopsInOrder, AccessAssumption DEF LimiterInv, Refuse
<1>2. d = Len(hits[key]) - Limit /\ d + 1 \in 1..Len(hits[key])
  BY <1>1 DEF InOrder
<1> QED
  BY <1>1, <1>2 DEF Stops

(* A step of the limiter keeps the invariant. *)
LEMMA CheckKeepsRetry ==
    ASSUME RetryInv, NEW key \in Keys, Check(key), UNCHANGED now
    PROVE  RetryInv'
<1>1. PICK d \in 0..Len(hits[key]) : Stops(key, d) /\ (Accept(key, d) \/ Refuse(key, d))
  BY DEF Check
<1>2. LimiterInv /\ LimiterInv' /\ now \in Nat /\ retryAt \in [Keys -> Int]
  BY CheckKeeps DEF RetryInv, LimiterInv
<1>3. CASE Accept(key, d)
  BY <1>2, <1>3 DEF Accept, RetryInv
<1>4. CASE Refuse(key, d)
  <2> DEFINE oldest == hits[key][d + 1]
             pause == (RetryAfter(key, d) + 1) * Second
             told == now + pause
  <2>1. d = Len(hits[key]) - Limit /\ oldest \in Nat /\ oldest >= now - Window
    BY <1>1, <1>2, <1>4, RefusedIsFull
  <2>2. Window \in Nat /\ Second \in Nat /\ Second > 0 /\ Limit \in Nat
    BY AccessAssumption
  <2>3. oldest + Window - now \in Nat
    BY <1>2, <2>1, <2>2
  <2>4. (RetryAfter(key, d) + 1) * Second > oldest + Window - now
    BY <2>2, <2>3, SecondCovers DEF RetryAfter
  <2>5. RetryAfter(key, d) \in Nat
    BY <2>2, <2>3 DEF RetryAfter
  <2>6. told \in Int /\ oldest + Window < told
    <3>1. pause \in Nat /\ pause > oldest + Window - now
      BY <2>2, <2>4, <2>5
    <3> HIDE DEF pause, oldest
    <3> QED
      BY <1>2, <2>1, <2>2, <3>1
  <2>7. /\ retryAt' = [retryAt EXCEPT ![key] = told] /\ hits' = hits
        /\ Len(hits[key]) \in Nat /\ Len(hits[key]) >= Limit
    BY <1>2, <1>4, <2>1, <2>2 DEF Refuse, LimiterInv
  <2>8. hits[key][Len(hits[key]) - Limit + 1] = oldest
    BY <2>1, <2>2, <2>7
  <2> HIDE DEF told, oldest
  <2> QED
    BY <1>2, <2>6, <2>7, <2>8 DEF RetryInv
<1> QED
  BY <1>1, <1>3, <1>4

(* The invariant is inductive. *)
LEMMA RetryInductive == Spec => []RetryInv
<1>1. Init => retryAt \in [Keys -> Int] /\ \A k \in Keys : retryAt[k] = -1
  BY DEF Init
<1>2. RetryInv /\ [Next]_vars /\ LimiterInv' => RetryInv'
  <2> SUFFICES ASSUME RetryInv, [Next]_vars, LimiterInv' PROVE RetryInv'
    OBVIOUS
  <2>1. CASE UNCHANGED limiterVars
    BY <2>1 DEF RetryInv, limiterVars
  <2>2. CASE Restart
    BY <2>2 DEF Restart, RetryInv
  <2>3. CASE \E key \in Keys : Check(key) /\ UNCHANGED now
    BY <2>3, CheckKeepsRetry
  <2> QED
    BY <2>1, <2>2, <2>3, OtherSteps
<1>3. Init /\ LimiterInv => RetryInv
  BY <1>1 DEF RetryInv
<1> QED
  BY <1>2, <1>3, LimiterInductive, PTL DEF Spec

(* Who was refused, waits as long as the answer said and a second more, and *)
(* had no other request accepted, is not refused again (RateLimiter.check). *)
THEOREM WaitingHelps == Spec => RetryIsAccepted
<1>1. RetryInv /\ [Next]_vars =>
        [\A k \in Keys : retryAt[k] # -1 /\ now >= retryAt[k] => retryAt'[k] \in {-1, retryAt[k]}]_vars
  <2> SUFFICES ASSUME RetryInv, [Next]_vars, NEW k \in Keys, retryAt[k] # -1, now >= retryAt[k]
               PROVE  retryAt'[k] \in {-1, retryAt[k]}
    OBVIOUS
  <2>1. CASE UNCHANGED limiterVars
    BY <2>1 DEF limiterVars
  <2>2. CASE Restart
    BY <2>2 DEF Restart
  <2>3. ASSUME NEW key \in Keys, Check(key) PROVE retryAt'[k] \in {-1, retryAt[k]}
    <3>1. PICK d \in 0..Len(hits[key]) : Stops(key, d) /\ (Accept(key, d) \/ Refuse(key, d))
      BY <2>3 DEF Check
    <3>2. CASE k # key \/ Accept(key, d)
      BY <3>1, <3>2 DEF Accept, Refuse, RetryInv
    <3>3. CASE k = key /\ Refuse(key, d)
      <4>1. d = Len(hits[k]) - Limit /\ hits[k][d + 1] \in Nat /\ hits[k][d + 1] >= now - Window
        BY <3>1, <3>3, RefusedIsFull DEF RetryInv
      <4>2. /\ Limit \in Nat /\ Window \in Nat /\ Len(hits[k]) \in Nat
            /\ now \in Nat /\ retryAt[k] \in Int
        BY AccessAssumption DEF RetryInv, LimiterInv
      <4>3. hits[k][d + 1] + Window < retryAt[k]
        BY <4>1, <4>2 DEF RetryInv
      <4>4. \A x, y, w, t \in Int : x >= y - w /\ x + w < t => ~ (y >= t)
        OBVIOUS
      <4> QED
        BY <4>1, <4>2, <4>3, <4>4
    <3> QED
      BY <3>1, <3>2, <3>3
  <2> QED
    BY <2>1, <2>2, <2>3, OtherSteps
<1> QED
  BY <1>1, RetryInductive, PTL DEF Spec, RetryIsAccepted
-----------------------------------------------------------------------------
(* The memory of sessions.  What has come since a session's last request is *)
(* what stands behind it; who fell out of the memory, or was never in it,   *)
(* has seen Capacity others.                                               *)
MemoryInv ==
    /\ seen \in Seq(Sessions) /\ Len(seen) <= Capacity
    /\ others \in [Sessions -> SUBSET Sessions]
    /\ \A i, j \in 1..Len(seen) : seen[j] \in others[seen[i]] <=> i < j
    /\ \A i \in 1..Len(seen) : \A x \in others[seen[i]] : Remembers(x)
    /\ \A s \in Sessions : ~ Remembers(s) => Cardinality(others[s]) >= Capacity

(* Where a remembered session stands. *)
LEMMA PlaceIsThere ==
    ASSUME NEW s, Remembers(s)
    PROVE  PlaceOf(s) \in 1..Len(seen) /\ seen[PlaceOf(s)] = s
BY DEF Remembers, PlaceOf

(* move_to_end: what stood behind the session moves one place forward. *)
LEMMA MovedToEnd ==
    ASSUME NEW s \in Sessions, seen \in Seq(Sessions), Remembers(s)
    PROVE  /\ MoveToEnd(s) \in Seq(Sessions) /\ Len(MoveToEnd(s)) = Len(seen)
           /\ \A i \in 1..Len(seen) : MoveToEnd(s)[i] =
                 IF i = Len(seen) THEN s ELSE IF i < PlaceOf(s) THEN seen[i] ELSE seen[i + 1]
<1> DEFINE at == PlaceOf(s)
           n == Len(seen)
           front == SubSeq(seen, 1, at - 1)
           back == SubSeq(seen, at + 1, n)
<1>1. at \in 1..n /\ n \in Nat
  BY PlaceIsThere
<1> HIDE DEF at
<1>2. /\ front \in Seq(Sessions) /\ Len(front) = at - 1
      /\ \A i \in 1..at - 1 : front[i] = seen[i]
  BY <1>1
<1>3. /\ back \in Seq(Sessions) /\ Len(back) = n - at
      /\ \A i \in 1..n - at : back[i] = seen[at + i]
  BY <1>1
<1> HIDE DEF front, back, n
<1> DEFINE both == front \o back
<1>4. /\ both \in Seq(Sessions) /\ Len(both) = n - 1
      /\ \A i \in 1..n - 1 : both[i] = IF i < at THEN seen[i] ELSE seen[i + 1]
  <2>1. /\ both \in Seq(Sessions) /\ Len(both) = Len(front) + Len(back)
        /\ \A i \in 1..Len(front) + Len(back) : both[i] =
              IF i <= Len(front) THEN front[i] ELSE back[i - Len(front)]
    BY <1>2, <1>3, ConcatProperties
  <2> HIDE DEF both
  <2>2. ASSUME NEW i \in 1..n - 1 PROVE both[i] = IF i < at THEN seen[i] ELSE seen[i + 1]
    <3>1. CASE i < at
      BY <1>1, <1>2, <1>3, <2>1, <3>1
    <3>2. CASE ~ i < at
      <4>1. i - (at - 1) \in 1..n - at /\ both[i] = back[i - (at - 1)]
        BY <1>1, <1>2, <1>3, <2>1, <3>2
      <4>2. at + (i - (at - 1)) = i + 1
        BY <1>1
      <4>3. back[i - (at - 1)] = seen[i + 1]
        BY <1>3, <4>1, <4>2
      <4> QED
        BY <3>2, <4>1, <4>3
    <3> QED
      BY <3>1, <3>2
  <2> QED
    BY <1>1, <1>2, <1>3, <2>1, <2>2
<1>5. MoveToEnd(s) = Append(both, s)
  BY DEF MoveToEnd, front, back, at, n
<1> HIDE DEF both
<1>6. /\ Append(both, s) \in Seq(Sessions) /\ Len(Append(both, s)) = n
      /\ \A i \in 1..n - 1 : Append(both, s)[i] = both[i]
      /\ Append(both, s)[n] = s
  BY <1>1, <1>4
<1>7. \A i \in 1..n : i = n \/ i \in 1..n - 1
  BY <1>1
<1> QED
  BY <1>1, <1>4, <1>5, <1>6, <1>7 DEF n, at

(* A remembered session has seen fewer than Capacity others since. *)
LEMMA FewBehind ==
    ASSUME MemoryInv, NEW i \in 1..Len(seen)
    PROVE  /\ IsFiniteSet(others[seen[i]])
           /\ Cardinality(others[seen[i]]) = Len(seen) - i
<1> DEFINE n == Len(seen)
           behind == others[seen[i]]
           at == [j \in i + 1 .. n |-> seen[j]]
<1>1. n \in Nat /\ i \in Nat /\ seen[i] \in Sessions
  BY DEF MemoryInv
<1>2. \A j \in i + 1 .. n : j \in 1..n /\ at[j] \in behind
  BY <1>1 DEF MemoryInv
<1>3. \A x \in behind : \E j \in i + 1 .. n : at[j] = x
  <2> SUFFICES ASSUME NEW x \in behind PROVE \E j \in i + 1 .. n : at[j] = x
    OBVIOUS
  <2>1. PICK j \in 1..n : seen[j] = x
    BY <1>1 DEF MemoryInv, Remembers
  <2>2. i < j
    BY <2>1 DEF MemoryInv
  <2> QED
    BY <1>1, <2>1, <2>2
<1>4. \A j, k \in i + 1 .. n : at[j] = at[k] => j = k
  <2> SUFFICES ASSUME NEW j \in i + 1 .. n, NEW k \in i + 1 .. n, seen[j] = seen[k], j # k
               PROVE  FALSE
    OBVIOUS
  <2>1. j \in 1..n /\ k \in 1..n /\ (j < k \/ k < j)
    BY <1>1
  <2>2. seen[j] \in others[seen[j]]
    BY <2>1 DEF MemoryInv
  <2> QED
    BY <1>1, <2>1, <2>2 DEF MemoryInv
<1>5. at \in Bijection(i + 1 .. n, behind)
  <2>1. at \in [i + 1 .. n -> behind]
    BY <1>2
  <2>2. at \in Injection(i + 1 .. n, behind)
    BY <1>4, <2>1 DEF Injection, IsInjective, at
  <2>3. at \in Surjection(i + 1 .. n, behind)
    BY <1>3, <2>1 DEF Surjection, at
  <2> QED
    BY <2>2, <2>3 DEF Bijection
<1>6. IsFiniteSet(i + 1 .. n) /\ Cardinality(i + 1 .. n) = n - i
  BY <1>1, FS_Interval
<1> QED
  BY <1>5, <1>6, FS_Bijection DEF ExistsBijection

(* is_new says that a session is new exactly when Capacity others came      *)
(* since its last request, or it was never there.                          *)
LEMMA NewWhenForgotten ==
    ASSUME MemoryInv, NEW s \in Sessions
    PROVE  Cardinality(others[s]) >= Capacity <=> ~ Remembers(s)
<1>1. ASSUME Remembers(s) PROVE ~ Cardinality(others[s]) >= Capacity
  <2>1. PlaceOf(s) \in 1..Len(seen) /\ seen[PlaceOf(s)] = s
    BY <1>1, PlaceIsThere
  <2>2. Cardinality(others[s]) = Len(seen) - PlaceOf(s)
    BY <2>1, FewBehind
  <2> QED
    BY <2>1, <2>2, AccessAssumption DEF MemoryInv
<1> QED
  BY <1>1 DEF MemoryInv

(* More others are not fewer. *)
LEMMA MoreOthers ==
    ASSUME NEW few \in SUBSET Sessions, NEW more \in SUBSET Sessions, few \subseteq more,
           Cardinality(few) >= Capacity
    PROVE  Cardinality(more) >= Capacity
<1>1. IsFiniteSet(more) /\ IsFiniteSet(few)
  BY AccessAssumption, FS_Subset
<1>2. Cardinality(few) <= Cardinality(more) /\ Cardinality(few) \in Nat /\ Cardinality(more) \in Nat
  BY <1>1, FS_Subset, FS_CardinalityType
<1> QED
  BY <1>2, AccessAssumption

(* A request keeps the order of the memory. *)
LEMMA ArriveKeepsMemory ==
    ASSUME MemoryInv, NEW s \in Sessions, seen' = Mark(s),
           others' = [x \in Sessions |-> IF x = s THEN {} ELSE others[x] \union {s}]
    PROVE  MemoryInv'
<1> DEFINE n == Len(seen)
<1>0. n \in Nat /\ n <= Capacity /\ Capacity \in Nat /\ Capacity > 0 /\ seen \in Seq(Sessions)
  BY AccessAssumption DEF MemoryInv
<1>1. others' \in [Sessions -> SUBSET Sessions]
  BY DEF MemoryInv
<1>2. \A x \in Sessions : x # s => others[x] \subseteq others'[x] /\ others'[x] \subseteq others[x] \union {s}
  OBVIOUS
<1>3. \A i, j \in 1..n : seen[i] \in Sessions /\ (seen[i] = seen[j] => i = j)
  <2>1. \A i \in 1..n : seen[i] \in Sessions /\ seen[i] \notin others[seen[i]]
    BY <1>0 DEF MemoryInv
  <2>2. \A i, j \in 1..n : i < j => seen[i] # seen[j]
    BY <2>1 DEF MemoryInv
  <2> QED
    BY <1>0, <2>1, <2>2
<1>4. ASSUME Remembers(s) PROVE MemoryInv'
  <2> DEFINE at == PlaceOf(s)
  <2>1. at \in 1..n /\ seen[at] = s
    BY <1>4, PlaceIsThere
  <2>2. /\ seen' \in Seq(Sessions) /\ Len(seen') = n
        /\ \A i \in 1..n : seen'[i] =
              IF i = n THEN s ELSE IF i < at THEN seen[i] ELSE seen[i + 1]
    BY <1>0, <1>4, MovedToEnd DEF Mark
  <2> HIDE DEF n, at
  <2> DEFINE old(i) == IF i < at THEN i ELSE i + 1
  <2>3. \A i \in 1..n : i # n => old(i) \in 1..n /\ old(i) # at /\ seen'[i] = seen[old(i)] /\ seen[old(i)] # s
    BY <1>0, <1>3, <2>1, <2>2
  <2>4. seen'[n] = s /\ n \in 1..n
    BY <1>0, <2>1, <2>2
  <2>5. \A i, j \in 1..n : seen'[j] \in others'[seen'[i]] <=> i < j
    <3> SUFFICES ASSUME NEW i \in 1..n, NEW j \in 1..n
                 PROVE  seen'[j] \in others'[seen'[i]] <=> i < j
      OBVIOUS
    <3>1. CASE i = n
      BY <1>0, <2>4, <3>1
    <3>2. CASE i # n /\ j = n
      BY <1>0, <1>3, <2>3, <2>4, <3>2
    <3>3. CASE i # n /\ j # n
      <4>1. seen'[j] \in others'[seen'[i]] <=> seen[old(j)] \in others[seen[old(i)]]
        BY <1>3, <2>3, <3>3
      <4>2. seen[old(j)] \in others[seen[old(i)]] <=> old(i) < old(j)
        BY <2>3, <3>3 DEF MemoryInv, n
      <4>3. old(i) < old(j) <=> i < j
        BY <1>0, <2>1
      <4> QED
        BY <4>1, <4>2, <4>3
    <3> QED
      BY <3>1, <3>2, <3>3
  <2>6. \A x : Remembers(x)' <=> Remembers(x)
    <3>1. ASSUME NEW i \in 1..n PROVE \E k \in 1..n : seen[k] = seen'[i]
      BY <2>1, <2>3, <2>4
    <3>2. ASSUME NEW k \in 1..n PROVE \E i \in 1..n : seen'[i] = seen[k]
      <4>1. CASE k = at
        BY <2>1, <2>4, <4>1
      <4>2. CASE k < at
        <5>1. k # n /\ old(k) = k
          BY <1>0, <2>1, <4>2
        <5> QED
          BY <2>3, <5>1
      <4>3. CASE k > at
        <5>1. k - 1 \in 1..n /\ k - 1 # n /\ old(k - 1) = k
          BY <1>0, <2>1, <4>3
        <5> QED
          BY <2>3, <5>1
      <4> QED
        BY <1>0, <2>1, <4>1, <4>2, <4>3
    <3>3. \A x : Remembers(x) <=> \E k \in 1..n : seen[k] = x
      BY DEF Remembers, n
    <3>4. \A x : Remembers(x)' <=> \E i \in 1..n : seen'[i] = x
      BY <2>2 DEF Remembers
    <3> QED
      BY <3>1, <3>2, <3>3, <3>4
  <2>7. \A i \in 1..n : \A x \in others'[seen'[i]] : Remembers(x)'
    <3> SUFFICES ASSUME NEW i \in 1..n, NEW x \in others'[seen'[i]] PROVE Remembers(x)
      BY <2>6
    <3>1. i # n
      BY <2>4
    <3>2. x = s \/ x \in others[seen[old(i)]]
      BY <1>3, <2>3, <3>1
    <3> QED
      BY <1>4, <2>3, <3>1, <3>2 DEF MemoryInv, n
  <2>8. \A x \in Sessions : ~ Remembers(x)' => Cardinality(others'[x]) >= Capacity
    <3> SUFFICES ASSUME NEW x \in Sessions, ~ Remembers(x) PROVE Cardinality(others'[x]) >= Capacity
      BY <2>6
    <3>1. x # s /\ Cardinality(others[x]) >= Capacity
      BY <1>4 DEF MemoryInv
    <3> QED
      BY <1>1, <1>2, <3>1, MoreOthers DEF MemoryInv
  <2> QED
    BY <1>0, <1>1, <2>2, <2>5, <2>7, <2>8 DEF MemoryInv
(* A new session comes to the end; when the memory is full the first goes. *)
<1>5. ASSUME ~ Remembers(s) PROVE MemoryInv'
  <2> DEFINE gone == IF n < Capacity THEN 0 ELSE 1
             m == n - gone
  <2>1. /\ seen' \in Seq(Sessions) /\ Len(seen') = m + 1 /\ m + 1 <= Capacity /\ m \in Nat
        /\ \A i \in 1..m : seen'[i] = seen[i + gone]
        /\ seen'[m + 1] = s
    <3>1. CASE n < Capacity
      BY <1>0, <1>5, <3>1 DEF Mark
    <3>2. CASE ~ n < Capacity
      <4>1. /\ seen' = Append(Tail(seen), s) /\ seen # <<>>
        BY <1>0, <1>5, <3>2 DEF Mark
      <4>2. /\ Tail(seen) \in Seq(Sessions) /\ Len(Tail(seen)) = n - 1
            /\ \A i \in 1..n - 1 : Tail(seen)[i] = seen[i + 1]
        BY <1>0, <4>1
      <4>3. m = n - 1 /\ gone = 1 /\ n = Capacity
        BY <1>0, <3>2
      <4> HIDE DEF n, m, gone
      <4> QED
        BY <1>0, <4>1, <4>2, <4>3
    <3> QED
      BY <3>1, <3>2
  <2>2. gone \in {0, 1} /\ n = m + gone /\ (gone = 1 => n = Capacity)
    BY <1>0
  <2> HIDE DEF n, m, gone
  <2>3. \A i \in 1..m : i + gone \in 1..n /\ seen[i + gone] \in Sessions /\ seen[i + gone] # s
    <3> SUFFICES ASSUME NEW i \in 1..m
                 PROVE  i + gone \in 1..n /\ seen[i + gone] \in Sessions /\ seen[i + gone] # s
      OBVIOUS
    <3>1. i + gone \in 1..n
      BY <2>1, <2>2
    <3> QED
      BY <1>0, <1>3, <1>5, <3>1 DEF Remembers, n
  <2>4. \A i \in 1..m + 1 : i = m + 1 \/ i \in 1..m
    BY <2>1
  <2>5. \A i, j \in 1..m + 1 : seen'[j] \in others'[seen'[i]] <=> i < j
    <3> SUFFICES ASSUME NEW i \in 1..m + 1, NEW j \in 1..m + 1
                 PROVE  seen'[j] \in others'[seen'[i]] <=> i < j
      OBVIOUS
    <3>1. CASE i = m + 1
      BY <2>1, <3>1
    <3>2. CASE i \in 1..m /\ j = m + 1
      BY <2>1, <2>3, <3>2
    <3>3. CASE i \in 1..m /\ j \in 1..m
      <4>1. seen'[j] \in others'[seen'[i]] <=> seen[j + gone] \in others[seen[i + gone]]
        BY <2>1, <2>3, <3>3
      <4>2. seen[j + gone] \in others[seen[i + gone]] <=> i + gone < j + gone
        BY <2>3, <3>3 DEF MemoryInv, n
      <4> QED
        BY <2>2, <4>1, <4>2
    <3> QED
      BY <2>4, <3>1, <3>2, <3>3
  <2>6. \A x : Remembers(x)' <=> x = s \/ (\E k \in gone + 1 .. n : seen[k] = x)
    <3>1. ASSUME NEW i \in 1..m + 1
          PROVE  seen'[i] = s \/ \E k \in gone + 1 .. n : seen[k] = seen'[i]
      <4>1. i \in 1..m => i + gone \in gone + 1 .. n
        BY <2>1, <2>2
      <4> QED
        BY <2>1, <2>4, <4>1
    <3>2. ASSUME NEW k \in gone + 1 .. n PROVE \E i \in 1..m + 1 : seen'[i] = seen[k]
      <4>1. k - gone \in 1..m /\ (k - gone) + gone = k /\ k - gone \in 1..m + 1
        BY <2>1, <2>2
      <4> QED
        BY <2>1, <4>1
    <3>3. m + 1 \in 1..m + 1
      BY <2>1
    <3> QED
      BY <2>1, <3>1, <3>2, <3>3 DEF Remembers
  <2>7. \A i \in 1..m + 1 : \A x \in others'[seen'[i]] : Remembers(x)'
    <3> SUFFICES ASSUME NEW i \in 1..m + 1, NEW x \in others'[seen'[i]], x # s
                 PROVE  \E k \in gone + 1 .. n : seen[k] = x
      BY <2>6
    <3>1. i \in 1..m
      BY <2>1, <2>4
    <3>2. x \in others[seen[i + gone]]
      BY <2>1, <2>3, <3>1
    <3>3. PICK k \in 1..n : seen[k] = x
      BY <2>3, <3>1, <3>2 DEF MemoryInv, Remembers, n
    <3>4. i + gone < k
      BY <2>3, <3>1, <3>2, <3>3 DEF MemoryInv, n
    <3> QED
      BY <1>0, <2>1, <2>2, <3>1, <3>3, <3>4
  <2>8. \A x \in Sessions : ~ Remembers(x)' => Cardinality(others'[x]) >= Capacity
    <3> SUFFICES ASSUME NEW x \in Sessions, ~ Remembers(x)' PROVE Cardinality(others'[x]) >= Capacity
      OBVIOUS
    <3>1. x # s /\ ~ \E k \in gone + 1 .. n : seen[k] = x
      BY <2>6
    <3>2. CASE ~ Remembers(x)
      <4>1. Cardinality(others[x]) >= Capacity
        BY <3>2 DEF MemoryInv
      <4> QED
        BY <1>1, <1>2, <3>1, <4>1, MoreOthers DEF MemoryInv
    <3>3. CASE Remembers(x)
      <4>1. PICK k \in 1..n : seen[k] = x
        BY <3>3 DEF Remembers, n
      <4>2. k = 1 /\ gone = 1 /\ n = Capacity
        BY <1>0, <2>2, <3>1, <4>1
      <4>3. IsFiniteSet(others[x]) /\ Cardinality(others[x]) = Capacity - 1
        BY <4>1, <4>2, FewBehind DEF n
      <4>4. s \notin others[x]
        BY <1>5, <4>1 DEF MemoryInv, n
      <4>5. Cardinality(others[x] \union {s}) = Capacity - 1 + 1
        BY <4>3, <4>4, FS_AddElement
      <4> QED
        BY <1>0, <3>1, <4>5
    <3> QED
      BY <3>2, <3>3
  <2> QED
    BY <1>0, <1>1, <2>1, <2>5, <2>7, <2>8 DEF MemoryInv
<1> QED
  BY <1>4, <1>5
-----------------------------------------------------------------------------
(* The requests that have yet to write a session's line. *)
Recording(s) == {r \in Requests : request[r] = At("record", s)}

RecorderInv ==
    /\ MemoryInv
    /\ request \in [Requests -> [place : {"idle", "record", "serve"}, session : Sessions \union {None}]]
    /\ \A r \in Requests : request[r].place = "record" => request[r].session \in Sessions
    /\ visits \in [Sessions -> Nat] /\ lines \in [Sessions -> Nat] /\ lost \in [Sessions -> Nat]
    /\ SignInsAreCounted

LEMMA RecordingIsFinite == \A s : IsFiniteSet(Recording(s)) /\ Cardinality(Recording(s)) \in Nat
<1> SUFFICES ASSUME NEW s PROVE IsFiniteSet(Recording(s)) /\ Cardinality(Recording(s)) \in Nat
  OBVIOUS
<1>1. IsFiniteSet(Recording(s))
  BY AccessAssumption, FS_Subset DEF Recording
<1> QED
  BY <1>1, FS_CardinalityType

(* One request moves: it leaves the requests that record, or joins them. *)
LEMMA OneMoves ==
    ASSUME NEW r \in Requests, NEW s, \A x \in Requests \ {r} : request'[x] = request[x]
    PROVE  /\ request[r] # At("record", s) /\ request'[r] # At("record", s) =>
                  Cardinality(Recording(s)') = Cardinality(Recording(s))
           /\ request[r] # At("record", s) /\ request'[r] = At("record", s) =>
                  Cardinality(Recording(s)') = Cardinality(Recording(s)) + 1
           /\ request[r] = At("record", s) /\ request'[r] # At("record", s) =>
                  Cardinality(Recording(s)') = Cardinality(Recording(s)) - 1
<1>1. IsFiniteSet(Recording(s))
  BY RecordingIsFinite
<1>2. ASSUME request[r] # At("record", s), request'[r] # At("record", s)
      PROVE  Recording(s)' = Recording(s)
  BY <1>2 DEF Recording
<1>3. ASSUME request[r] # At("record", s), request'[r] = At("record", s)
      PROVE  r \notin Recording(s) /\ Recording(s)' = Recording(s) \union {r}
  BY <1>3 DEF Recording
<1>4. ASSUME request[r] = At("record", s), request'[r] # At("record", s)
      PROVE  r \in Recording(s) /\ Recording(s)' = Recording(s) \ {r}
  BY <1>4 DEF Recording
<1> QED
  BY <1>1, <1>2, <1>3, <1>4, FS_AddElement, FS_RemoveElement

(* Nothing a request has to do after current_user touches the recorder. *)
LEMMA AfterTheRecorder ==
    ASSUME RecorderInv, NEW r \in Requests, request[r].place = "serve",
           request' = [request EXCEPT ![r] = Idle], UNCHANGED recorderVars
    PROVE  RecorderInv'
<1>1. request' \in [Requests -> [place : {"idle", "record", "serve"}, session : Sessions \union {None}]]
  BY DEF RecorderInv, Idle, At
<1>2. \A x \in Requests : request'[x].place = "record" => request'[x].session \in Sessions
  BY DEF RecorderInv, Idle, At
<1>3. \A s \in Sessions : Cardinality(Recording(s)') = Cardinality(Recording(s))
  <2> SUFFICES ASSUME NEW s \in Sessions PROVE Cardinality(Recording(s)') = Cardinality(Recording(s))
    OBVIOUS
  <2>1. /\ request[r] # At("record", s) /\ request'[r] # At("record", s)
        /\ \A x \in Requests \ {r} : request'[x] = request[x]
    BY DEF At, Idle, RecorderInv
  <2> QED
    BY <2>1, OneMoves
<1>4. MemoryInv'
  BY DEF RecorderInv, MemoryInv, Remembers, recorderVars
<1> QED
  BY <1>1, <1>2, <1>3, <1>4 DEF RecorderInv, SignInsAreCounted, Recording, recorderVars

LEMMA ArriveCounts ==
    ASSUME RecorderInv, NEW r \in Requests, NEW s \in Sessions, Arrive(r, s)
    PROVE  RecorderInv'
<1> DEFINE new == At(IF Remembers(s) THEN "serve" ELSE "record", s)
<1>1. request[r] = Idle /\ request' = [request EXCEPT ![r] = new] /\ DOMAIN request = Requests
  BY DEF Arrive, RecorderInv
<1>2. /\ request' \in [Requests -> [place : {"idle", "record", "serve"}, session : Sessions \union {None}]]
      /\ \A x \in Requests : request'[x].place = "record" => request'[x].session \in Sessions
  <2>1. new \in [place : {"idle", "record", "serve"}, session : Sessions \union {None}] /\ new.session \in Sessions
    BY DEF At
  <2> HIDE DEF new
  <2> QED
    BY <1>1, <2>1 DEF RecorderInv
<1>3. MemoryInv'
  BY ArriveKeepsMemory DEF RecorderInv, Arrive
<1>4. visits' = [visits EXCEPT ![s] = IF ~ Remembers(s) THEN @ + 1 ELSE @]
  <2>1. Cardinality(others[s]) >= Capacity <=> ~ Remembers(s)
    BY NewWhenForgotten DEF RecorderInv
  <2> QED
    BY <2>1 DEF Arrive
<1>5. visits' \in [Sessions -> Nat] /\ lines' = lines /\ lost' = lost
  BY <1>4 DEF Arrive, RecorderInv
<1>6. ASSUME NEW x \in Sessions
      PROVE  visits'[x] = lines[x] + lost[x] + Cardinality(Recording(x)')
  <2>1. request[r] # At("record", x)
    BY <1>1 DEF Idle, At
  <2>2. new = At("record", x) <=> x = s /\ ~ Remembers(s)
    BY DEF At
  <2>3. /\ visits[x] = lines[x] + lost[x] + Cardinality(Recording(x))
        /\ visits[x] \in Nat /\ lines[x] \in Nat /\ lost[x] \in Nat /\ Cardinality(Recording(x)) \in Nat
    BY RecordingIsFinite DEF RecorderInv, SignInsAreCounted, Recording
  <2>4. visits'[x] = IF x = s /\ ~ Remembers(s) THEN visits[x] + 1 ELSE visits[x]
    BY <1>4 DEF RecorderInv
  <2>5. Cardinality(Recording(x)') =
           IF x = s /\ ~ Remembers(s) THEN Cardinality(Recording(x)) + 1 ELSE Cardinality(Recording(x))
    <3> HIDE DEF new
    <3>1. request'[r] = new /\ \A y \in Requests \ {r} : request'[y] = request[y]
      BY <1>1
    <3> QED
      BY <2>1, <2>2, <3>1, OneMoves
  <2> QED
    BY <2>3, <2>4, <2>5
<1> QED
  BY <1>2, <1>3, <1>5, <1>6 DEF RecorderInv, SignInsAreCounted, Recording

(* A line, committed or lost, takes the place of the request that owed it. *)
LEMMA LineIsWritten ==
    ASSUME RecorderInv, NEW r \in Requests, Record(r) \/ RecordFails(r)
    PROVE  RecorderInv'
<1> DEFINE s == request[r].session
           new == IF Record(r) THEN At("serve", s) ELSE Idle
<1>1. /\ request \in [Requests -> [place : {"idle", "record", "serve"}, session : Sessions \union {None}]]
      /\ request[r].place = "record" /\ s \in Sessions
  BY DEF RecorderInv, Record, RecordFails
<1>2. request[r] = At("record", s)
  BY <1>1 DEF At
<1>3. Record(r) \/ (~ Record(r) /\ RecordFails(r))
  OBVIOUS
<1>4. request' = [request EXCEPT ![r] = new]
  <2>1. CASE Record(r)
    <3>1. [request[r] EXCEPT !.place = "serve"] = At("serve", s)
      BY <1>1 DEF At
    <3> QED
      BY <2>1, <3>1 DEF Record
  <2> QED
    BY <1>3, <2>1 DEF RecordFails
<1>5. new \in [place : {"idle", "serve"}, session : Sessions \union {None}]
  BY <1>1 DEF At, Idle
<1>6. \A x \in Sessions : lines'[x] + lost'[x] = IF x = s THEN lines[x] + lost[x] + 1 ELSE lines[x] + lost[x]
  <2>1. lines \in [Sessions -> Nat] /\ lost \in [Sessions -> Nat]
    BY DEF RecorderInv
  <2>2. \/ lines' = [lines EXCEPT ![s] = @ + 1] /\ lost' = lost
        \/ lost' = [lost EXCEPT ![s] = @ + 1] /\ lines' = lines
    BY <1>3 DEF Record, RecordFails
  <2> HIDE DEF s
  <2> QED
    BY <1>1, <2>1, <2>2
<1>7. UNCHANGED <<seen, visits, others>> /\ lines' \in [Sessions -> Nat] /\ lost' \in [Sessions -> Nat]
  BY <1>1, <1>3 DEF Record, RecordFails, RecorderInv
<1> HIDE DEF new, s
<1>8. /\ request' \in [Requests -> [place : {"idle", "record", "serve"}, session : Sessions \union {None}]]
      /\ \A x \in Requests : request'[x].place = "record" => request'[x].session \in Sessions
  BY <1>1, <1>4, <1>5 DEF RecorderInv
<1>9. ASSUME NEW x \in Sessions
      PROVE  visits[x] = lines'[x] + lost'[x] + Cardinality(Recording(x)')
  <2>1. request[r] = At("record", x) <=> x = s
    BY <1>2 DEF At
  <2>2. new # At("record", x) /\ DOMAIN request = Requests
    BY <1>1, <1>5 DEF At
  <2>3. /\ visits[x] = lines[x] + lost[x] + Cardinality(Recording(x))
        /\ visits[x] \in Nat /\ lines[x] \in Nat /\ lost[x] \in Nat /\ Cardinality(Recording(x)) \in Nat
    BY RecordingIsFinite DEF RecorderInv, SignInsAreCounted, Recording
  <2>4. Cardinality(Recording(x)') =
           IF x = s THEN Cardinality(Recording(x)) - 1 ELSE Cardinality(Recording(x))
    <3>1. request'[r] # At("record", x) /\ \A y \in Requests \ {r} : request'[y] = request[y]
      BY <1>4, <2>2
    <3> QED
      BY <2>1, <3>1, OneMoves
  <2> QED
    BY <1>6, <2>3, <2>4
<1> QED
  BY <1>7, <1>8, <1>9 DEF RecorderInv, SignInsAreCounted, Recording, MemoryInv, Remembers

(* A restart forgets everybody, and loses the lines that were not written.  *)
LEMMA RestartCounts == ASSUME RecorderInv, Restart PROVE RecorderInv'
<1>1. MemoryInv'
  <2>1. seen' = <<>> /\ others' = [s \in Sessions |-> Sessions]
    BY DEF Restart
  <2>2. \A s : ~ Remembers(s)'
    BY <2>1 DEF Remembers
  <2>3. Capacity \in Nat /\ Cardinality(Sessions) >= Capacity
    BY AccessAssumption, FS_CardinalityType
  <2> QED
    BY <2>1, <2>2, <2>3 DEF MemoryInv
<1>2. ASSUME NEW x \in Sessions
      PROVE  /\ lost'[x] = lost[x] + Cardinality(Recording(x)) /\ Recording(x)' = {}
             /\ visits[x] = lines[x] + lost[x] + Cardinality(Recording(x))
             /\ lost[x] \in Nat /\ lines[x] \in Nat /\ Cardinality(Recording(x)) \in Nat
  BY RecordingIsFinite DEF Restart, Recording, Idle, At, RecorderInv, SignInsAreCounted
<1>3. lost' \in [Sessions -> Nat] /\ lines' = lines /\ visits' = visits
  <2>1. lost' = [s \in Sessions |-> lost[s] + Cardinality(Recording(s))]
    BY DEF Restart, Recording
  <2>2. \A s \in Sessions : lost[s] + Cardinality(Recording(s)) \in Nat
    BY <1>2
  <2> QED
    BY <2>1, <2>2 DEF Restart, RecorderInv
<1>4. /\ request' \in [Requests -> [place : {"idle", "record", "serve"}, session : Sessions \union {None}]]
      /\ \A r \in Requests : request'[r].place = "idle"
  BY DEF Restart, Idle, At
<1>5. ASSUME NEW x \in Sessions
      PROVE  visits[x] = lines[x] + lost'[x] + Cardinality(Recording(x)')
  <2>1. Cardinality(Recording(x)') = 0
    BY <1>2, FS_EmptySet
  <2> HIDE DEF Recording
  <2> QED
    BY <1>2, <2>1
<1> QED
  BY <1>1, <1>3, <1>4, <1>5 DEF RecorderInv, SignInsAreCounted, Recording

LEMMA RecorderInductive == Spec => []RecorderInv
<1>1. Init => RecorderInv
  <2> SUFFICES ASSUME Init PROVE RecorderInv
    OBVIOUS
  <2>1. MemoryInv
    <3>1. \A s : ~ Remembers(s)
      BY DEF Init, Remembers
    <3>2. Capacity \in Nat /\ Cardinality(Sessions) >= Capacity
      BY AccessAssumption, FS_CardinalityType
    <3> QED
      BY <3>1, <3>2 DEF Init, MemoryInv
  <2>2. \A s \in Sessions : Recording(s) = {}
    BY DEF Init, Recording, Idle, At
  <2>3. SignInsAreCounted
    <3>1. \A s \in Sessions : Cardinality(Recording(s)) = 0
      BY <2>2, FS_EmptySet
    <3>2. \A s \in Sessions : visits[s] = 0 /\ lines[s] = 0 /\ lost[s] = 0
      BY DEF Init
    <3>3. \A s \in Sessions : visits[s] = lines[s] + lost[s] + Cardinality(Recording(s))
      BY <3>1, <3>2
    <3> QED
      BY <3>3 DEF SignInsAreCounted, Recording
  <2> QED
    BY <2>1, <2>3 DEF Init, RecorderInv, Idle, At
<1>2. RecorderInv /\ [Next]_vars => RecorderInv'
  <2> SUFFICES ASSUME RecorderInv, [Next]_vars PROVE RecorderInv'
    OBVIOUS
  <2>1. CASE UNCHANGED <<request, recorderVars>>
    <3>1. MemoryInv' /\ SignInsAreCounted'
      BY <2>1 DEF RecorderInv, MemoryInv, Remembers, SignInsAreCounted, Recording, recorderVars
    <3> QED
      BY <2>1, <3>1 DEF RecorderInv, recorderVars
  <2>2. ASSUME NEW r \in Requests, NEW s \in Sessions, Arrive(r, s) PROVE RecorderInv'
    BY <2>2, ArriveCounts
  <2>3. ASSUME NEW r \in Requests, Record(r) \/ RecordFails(r) PROVE RecorderInv'
    BY <2>3, LineIsWritten
  <2>4. ASSUME NEW r \in Requests, View(r) \/ (\E bucket \in Buckets : Change(r, bucket)) PROVE RecorderInv'
    BY <2>4, AfterTheRecorder DEF View, Change
  <2>5. CASE Restart
    BY <2>5, RestartCounts
  <2> QED
    BY <2>1, <2>2, <2>3, <2>4, <2>5 DEF Next, vars, Tick
<1> QED
  BY <1>1, <1>2, PTL DEF Spec

(* Every sign-in -- a session's first request, or one after Capacity other  *)
(* sessions, or after a restart -- has one line, is about to write it, or   *)
(* lost it with a commit that failed (SignInRecorder.is_new,                *)
(* record_sign_in).                                                        *)
THEOREM EverySignInIsCounted == Spec => []SignInsAreCounted
<1>1. RecorderInv => SignInsAreCounted
  BY DEF RecorderInv
<1> QED
  BY <1>1, RecorderInductive, PTL
=============================================================================
