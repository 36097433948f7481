-------------------------------- MODULE Access --------------------------------
(***************************************************************************)
(* What every request passes before its route: the sign-in is recorded     *)
(* once per session (app/auth.py), and what an editor changes is counted   *)
(* against a sliding window (app/security.py).                             *)
(*                                                                         *)
(* current_user runs in a thread of its own, so requests interleave        *)
(* between marking a session as seen and committing its audit line; the    *)
(* database may be locked by then.  Both memories are lost in a restart.   *)
(***************************************************************************)
EXTENDS Integers, Sequences, FiniteSets

CONSTANTS
    Requests,           \* requests that may be going on at once
    Sessions, People, None,
    PersonOf,           \* who a session belongs to
    Editors,            \* the people who may change something
    Buckets,            \* "upload" and "settings"
    Capacity,           \* how many sessions are remembered
    Limit, Window,      \* so many actions in so many ticks
    Second,             \* ticks in a second
    MaxRequests, MaxTime, MaxRestarts

ASSUME AccessAssumption ==
    /\ IsFiniteSet(Sessions) /\ IsFiniteSet(Requests)
    /\ None \notin Sessions /\ PersonOf \in [Sessions -> People] /\ Editors \subseteq People
    /\ Capacity \in Nat \ {0} /\ Cardinality(Sessions) > Capacity
    /\ {Limit, Window, Second} \subseteq Nat \ {0}
    /\ {MaxRequests, MaxTime, MaxRestarts} \subseteq Nat

VARIABLES
    now,                \* time.monotonic()
    request,            \* where each request is, and its session
    seen,               \* SignInRecorder._seen, the least recent first
    hits,               \* what the limiter has accepted, for each bucket and person
    dropped,            \* how many of them its deque has let go of
    lines,              \* the auth.signin lines of a session
    lost,               \* history: lines that were never committed
    visits,             \* history: sign-ins that are told apart, as the docs count them
    others,             \* history: who else was there since a session's last request
    retryAt,            \* history: when somebody refused may expect to get in
    served, restarts    \* bounds

limiterVars == <<hits, dropped, retryAt>>
recorderVars == <<seen, lines, lost, visits, others>>
vars == <<now, request, limiterVars, recorderVars, served, restarts>>

At(place, session) == [place |-> place, session |-> session]
Idle == At("idle", None)

Keys == Buckets \X People

Init ==
    /\ now = 0
    /\ request = [r \in Requests |-> Idle]
    /\ seen = <<>>
    /\ hits = [k \in Keys |-> <<>>]
    /\ dropped = [k \in Keys |-> 0]
    /\ lines = [s \in Sessions |-> 0]
    /\ lost = [s \in Sessions |-> 0]
    /\ visits = [s \in Sessions |-> 0]
    /\ others = [s \in Sessions |-> Sessions]
    /\ retryAt = [k \in Keys |-> -1]
    /\ served = 0
    /\ restarts = 0

-----------------------------------------------------------------------------
(* is_new, under its lock.                                                  *)
Remembers(s) == \E i \in 1..Len(seen) : seen[i] = s

PlaceOf(s) == CHOOSE i \in 1..Len(seen) : seen[i] = s

MoveToEnd(s) ==
    Append(SubSeq(seen, 1, PlaceOf(s) - 1) \o SubSeq(seen, PlaceOf(s) + 1, Len(seen)), s)

(* A variant with a fault: a known session keeps its place.                *)
MarkInPlace(s) ==
    IF Remembers(s) THEN seen
    ELSE IF Len(seen) < Capacity THEN Append(seen, s) ELSE Append(Tail(seen), s)

Mark(s) ==
    IF Remembers(s) THEN MoveToEnd(s)
    ELSE Append(IF Len(seen) < Capacity THEN seen ELSE Tail(seen), s)

Arrive(r, s) ==
    /\ request[r] = Idle
    /\ served < MaxRequests
    /\ served' = served + 1
    /\ request' = [request EXCEPT ![r] = At(IF Remembers(s) THEN "serve" ELSE "record", s)]
    /\ seen' = Mark(s)
    /\ visits' = [visits EXCEPT ![s] = IF Cardinality(others[s]) >= Capacity THEN @ + 1 ELSE @]
    /\ others' = [x \in Sessions |-> IF x = s THEN {} ELSE others[x] \union {s}]
    /\ UNCHANGED <<now, limiterVars, lines, lost, restarts>>

(* record_sign_in *)
Record(r) ==
    /\ request[r].place = "record"
    /\ request' = [request EXCEPT ![r].place = "serve"]
    /\ lines' = [lines EXCEPT ![request[r].session] = @ + 1]
    /\ UNCHANGED <<now, limiterVars, seen, lost, visits, others, served, restarts>>

(* The database is locked: the request fails, and the session stays marked. *)
RecordFails(r) ==
    /\ request[r].place = "record"
    /\ request' = [request EXCEPT ![r] = Idle]
    /\ lost' = [lost EXCEPT ![request[r].session] = @ + 1]
    /\ UNCHANGED <<now, limiterVars, seen, lines, visits, others, served, restarts>>

-----------------------------------------------------------------------------
(* A variant with a fault: a hit just as old as the window is let go of.    *)
StopsLate(key, d) ==
    /\ d \in dropped[key]..Len(hits[key])
    /\ \A i \in dropped[key] + 1 .. d : hits[key][i] <= now - Window
    /\ d < Len(hits[key]) => hits[key][d + 1] > now - Window

(* RateLimiter.check: how many hits are gone when the loop stops.           *)
Stops(key, d) ==
    /\ d \in dropped[key]..Len(hits[key])
    /\ \A i \in dropped[key] + 1 .. d : hits[key][i] < now - Window
    /\ d < Len(hits[key]) => hits[key][d + 1] >= now - Window

(* The retry hint, in seconds; the part of a second is cut off.  A variant  *)
(* with a fault takes the least instead of the most.                       *)
RetryAfterLeast(key, d) ==
    LET seconds == (hits[key][d + 1] + Window - now) \div Second
    IN  IF seconds < 1 THEN seconds ELSE 1

RetryAfter(key, d) ==
    LET seconds == (hits[key][d + 1] + Window - now) \div Second
    IN  IF seconds > 1 THEN seconds ELSE 1

Accept(key, d) ==
    /\ Len(hits[key]) - d < Limit
    /\ hits' = [hits EXCEPT ![key] = Append(@, now)]
    /\ retryAt' = [retryAt EXCEPT ![key] = -1]

Refuse(key, d) ==
    /\ Len(hits[key]) - d >= Limit
    /\ retryAt' = [retryAt EXCEPT ![key] = now + (RetryAfter(key, d) + 1) * Second]
    /\ UNCHANGED hits

Check(key) ==
    \E d \in 0..Len(hits[key]) :
        /\ Stops(key, d)
        /\ dropped' = [dropped EXCEPT ![key] = d]
        /\ Accept(key, d) \/ Refuse(key, d)

(* A route that changes something: require_editor comes before the limiter. *)
Change(r, bucket) ==
    /\ request[r].place = "serve"
    /\ request' = [request EXCEPT ![r] = Idle]
    /\ LET person == PersonOf[request[r].session] IN
       IF person \in Editors THEN Check(<<bucket, person>>) ELSE UNCHANGED limiterVars
    /\ UNCHANGED <<now, recorderVars, served, restarts>>

View(r) ==
    /\ request[r].place = "serve"
    /\ request' = [request EXCEPT ![r] = Idle]
    /\ UNCHANGED <<now, limiterVars, recorderVars, served, restarts>>

Tick ==
    /\ now < MaxTime
    /\ now' = now + 1
    /\ UNCHANGED <<request, limiterVars, recorderVars, served, restarts>>

Restart ==
    /\ restarts < MaxRestarts
    /\ restarts' = restarts + 1
    /\ lost' = [s \in Sessions |->
                   lost[s] + Cardinality({r \in Requests : request[r] = At("record", s)})]
    /\ request' = [r \in Requests |-> Idle]
    /\ seen' = <<>>
    /\ others' = [s \in Sessions |-> Sessions]
    /\ hits' = [k \in Keys |-> <<>>]
    /\ dropped' = [k \in Keys |-> 0]
    /\ retryAt' = [k \in Keys |-> -1]
    /\ UNCHANGED <<now, lines, visits, served>>

Next ==
    \/ \E r \in Requests :
          \/ \E s \in Sessions : Arrive(r, s)
          \/ Record(r) \/ RecordFails(r)
          \/ \E bucket \in Buckets : Change(r, bucket)
          \/ View(r)
    \/ Tick \/ Restart

Spec == Init /\ [][Next]_vars

-----------------------------------------------------------------------------
(* README.md, "the first request carrying a new Access token is the        *)
(* sign-in, and it is recorded": every sign-in has exactly one line, unless *)
(* its commit failed.  A session signs in again only after Capacity other   *)
(* ones were there since its last request, or a restart; requests of one    *)
(* session that arrive together are one sign-in.                           *)
SignInsAreCounted ==
    \A s \in Sessions :
        visits[s] = lines[s] + lost[s] + Cardinality({r \in Requests : request[r] = At("record", s)})

(* Rate: Limit actions per Window seconds.  Wherever a window is laid, both *)
(* of its ends included, no more than Limit actions of one person in one    *)
(* bucket were accepted in it.                                             *)
WindowBound ==
    \A k \in Keys : \A i \in 1..(Len(hits[k]) - Limit) : hits[k][i + Limit] - hits[k][i] > Window

(* "Wait ... seconds and try again": who waits that long, and one second    *)
(* for the part that was cut off, is not refused again -- unless another of *)
(* the person's requests was accepted meanwhile.                           *)
RetryIsAccepted ==
    [][\A k \in Keys : retryAt[k] # -1 /\ now >= retryAt[k] => retryAt'[k] \in {-1, retryAt[k]}]_vars
=============================================================================
