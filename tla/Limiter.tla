------------------------------- MODULE Limiter -------------------------------
(***************************************************************************)
(* The two rate limiters, for one key: auth.Limiter, a fixed window with a     *)
(* collector beside it, and the sliding window in front of the login form.     *)
(* The keys of auth.Limiter belong to a route: POST /session and               *)
(* /session/refresh announce the rest of the window, GET /sub/{token} always    *)
(* the same time. Time is counted in ticks, of which a second has several.     *)
(***************************************************************************)
EXTENDS Integers, FiniteSets

CONSTANTS
    Limit, Per,     \* events and ticks of a window
    Second,         \* ticks of a second
    SubRetry,       \* seconds GET /sub/{token} announces (60, of a window of 300)
    None,
    MaxTicks,       \* bound: clock
    MaxEvents       \* bound: events in a window

VARIABLES
    route,      \* who asks: "session", "sub" (auth.Limiter) or "form" (windowLimiter)
    tick,
    win,        \* Limiter.entries[key]: count and start, or None
    hits,       \* windowLimiter.hits[key]: times, told apart by a number when they are equal
    refused,    \* requests Allow refused that are not answered yet, by the start of their window
    \* --- history, read by properties only ---
    fixedLog,   \* events Limiter.Allow let pass in the last Per ticks: time, window, number in it
    slidingLog, \* events windowLimiter.allow let pass in the last Per ticks
    retry       \* what the last refused client was told, or None: the time to come back at, and the
                \* start of the window that was counting

Routes == {"session", "sub", "form"}

vars == <<route, tick, win, hits, refused, fixedLog, slidingLog, retry>>

Init ==
    /\ route \in Routes
    /\ tick = 0 /\ win = None /\ hits = {} /\ refused = {}
    /\ fixedLog = {} /\ slidingLog = {} /\ retry = None

Advance ==
    /\ tick < MaxTicks /\ tick' = tick + 1
    /\ fixedLog' = {e \in fixedLog : tick' - e.at < Per}
    /\ slidingLog' = {e \in slidingLog : tick' - e.at < Per}
    /\ UNCHANGED <<route, win, hits, refused, retry>>

\* A new window: there is none, or the old one is over.
Opens == win # None => tick - win.start >= Per

Allowed == Opens \/ win.count + 1 <= Limit

\* Allow, for one request; a refused one has its answer still to write.
Allow ==
    /\ route # "form" /\ (~Opens => win.count < MaxEvents)
    /\ win' = IF Opens THEN [count |-> 1, start |-> tick] ELSE [win EXCEPT !.count = @ + 1]
    /\ IF Allowed THEN /\ fixedLog' = fixedLog \cup {[at |-> tick, opened |-> win'.start, no |-> win'.count]}
                       /\ UNCHANGED refused
                  ELSE refused' = refused \cup {win.start} /\ UNCHANGED fixedLog
    /\ UNCHANGED <<route, tick, hits, slidingLog, retry>>

\* RetryAfter: the rest of the window in the map, which by now may be another one or none at all.
RetryAfter == IF win = None \/ Opens THEN 0 ELSE Per - (tick - win.start)

\* The seconds of the header: what int(RetryAfter(key).Seconds()) leaves, at least one, or the constant.
Announced ==
    LET s == RetryAfter \div Second
    IN IF route = "sub" THEN SubRetry ELSE IF s < 1 THEN 1 ELSE s

\* The answer 429 of a request that was refused in the window opened at start.
AnswerRefused(start) ==
    /\ start \in refused /\ refused' = refused \ {start}
    /\ retry' = [at |-> tick + Announced * Second,
                 window |-> IF win = None THEN start ELSE win.start]
    /\ UNCHANGED <<route, tick, win, hits, fixedLog, slidingLog>>

\* Mutant of Stale: windows are collected as soon as they are full.
StaleWhenFull == win # None /\ win.count > Limit

Stale == win # None /\ tick - win.start >= Per

GC == Stale /\ win' = None /\ UNCHANGED <<route, tick, hits, refused, fixedLog, slidingLog, retry>>

Recent == {h \in hits : tick - h.at < Per}

\* Now, as one more member of s.
Now(s) == [at |-> tick, no |-> Cardinality(s) + 1]

\* windowLimiter.allow
SlidingAllow ==
    /\ route = "form" /\ Cardinality(slidingLog) < MaxEvents
    /\ IF Cardinality(Recent) >= Limit
       THEN hits' = Recent /\ UNCHANGED slidingLog
       ELSE hits' = Recent \cup {Now(Recent)} /\ slidingLog' = slidingLog \cup {Now(slidingLog)}
    /\ UNCHANGED <<route, tick, win, refused, fixedLog, retry>>

Next == Advance \/ Allow \/ (\E start \in refused : AnswerRefused(start)) \/ GC \/ SlidingAllow

Spec == Init /\ [][Next]_vars
-----------------------------------------------------------------------------
(* Properties.                                                              *)

Times == 0..MaxTicks

\* Every variable keeps its type.
TypeOK ==
    /\ route \in Routes /\ tick \in Times /\ refused \subseteq Times
    /\ win # None => win.count \in Nat /\ win.start \in Times
    /\ hits \subseteq [at : Times, no : Nat] /\ slidingLog \subseteq [at : Times, no : Nat]
    /\ fixedLog \subseteq [at : Times, opened : Times, no : Nat]
    /\ retry # None => retry.at \in Nat /\ retry.window \in Times

\* Whatever the collector does in between, fewer than two windows' worth of logins pass in any
\* span of Per: two adjacent windows meet in it, and the first event of the later one opens it.
FixedWindowBound == Cardinality(fixedLog) <= 2 * Limit - 1

\* The login form lets Limit attempts pass in any span of Per: the window slides.
SlidingWindowBound == Cardinality(slidingLog) <= Limit

\* When a refused client finds the window over that was counting when its answer was written: at
\* /session a second after the announced time, which was cut down to whole seconds; at /sub/{token},
\* where the announced time says nothing of it, Per after the window was opened.
WorthAsking == IF route = "session" THEN tick >= retry.at + Second ELSE tick >= retry.window + Per

\* From then on it is let in, unless another request of its key was first and has opened a window of
\* its own, which it could not before: neither the collector, nor refusals, nor windows that change
\* between Allow and RetryAfter prolong the wait.
RetryAfterSuffices == retry # None /\ WorthAsking => Opens \/ win.start >= retry.window + Per
==============================================================================
