--------------------------------- MODULE Geo ---------------------------------
(***************************************************************************)
(* Geolocation of source addresses: geo.Service.Lookup with its cache, its     *)
(* table of calls in flight and its budget of lookups per minute. The         *)
(* handlers that list addresses call it concurrently.                        *)
(***************************************************************************)
EXTENDS Naturals, FiniteSets

CONSTANTS
    Lookups,        \* goroutines in Lookup
    Addresses,
    MaxPerMinute,   \* maxLookupsPerMinute
    Budget,         \* bound: minutes, expiries of the cache and calls of Lookup together
    None

VARIABLES
    cached,     \* addresses with an entry of ip_geo_cache younger than cacheTTL
    inflight,   \* Service.inflight: the goroutine that made the call of an address, or None
    count,      \* Service.count
    look,       \* goroutines: where they are, their address, the goroutine they wait for
    closed,     \* goroutines whose current call has its done channel closed
    spent

vars == <<cached, inflight, count, look, closed, spent>>

Idle == [pc |-> "idle", ip |-> None, on |-> None]

Init ==
    /\ cached = {} /\ inflight = [a \in Addresses |-> None] /\ count = 0
    /\ look = [l \in Lookups |-> Idle] /\ closed = {} /\ spent = 0

Spend == spent < Budget /\ spent' = spent + 1

\* GetGeo: a fresh entry is returned at once.
GetGeo(l, a) ==
    /\ look[l].pc = "idle" /\ Spend
    /\ look' = IF a \in cached THEN look ELSE [look EXCEPT ![l] = [Idle EXCEPT !.pc = "allow", !.ip = a]]
    /\ UNCHANGED <<cached, inflight, count, closed>>

\* Mutant of Within: one lookup too many.
WithinOffByOne == count <= MaxPerMinute

\* s.count >= maxLookupsPerMinute refuses.
Within == count < MaxPerMinute

\* allow: joining a call in flight costs as much as making one. A refusal is no error.
Allow(l) ==
    /\ look[l].pc = "allow"
    /\ IF Within
       THEN count' = count + 1 /\ look' = [look EXCEPT ![l].pc = "join"]
       ELSE look' = [look EXCEPT ![l] = Idle] /\ UNCHANGED count
    /\ UNCHANGED <<cached, inflight, closed, spent>>

\* Mutant of Joins: the table is not consulted.
JoinsNever(a) == FALSE

\* c, ok := s.inflight[ip]
Joins(a) == inflight[a] # None

\* Under the mutex: wait for the call in flight, or enter one's own.
Join(l) ==
    /\ look[l].pc = "join"
    /\ LET a == look[l].ip IN
       IF Joins(a)
       THEN look' = [look EXCEPT ![l].pc = "wait", ![l].on = inflight[a]] /\ UNCHANGED <<inflight, closed>>
       ELSE /\ inflight' = [inflight EXCEPT ![a] = l] /\ closed' = closed \ {l}
            /\ look' = [look EXCEPT ![l].pc = "fetch"]
    /\ UNCHANGED <<cached, count, spent>>

\* Mutant of Done: the channel is closed only after an answer.
DoneOnAnswer(l) == IF look[l].ip \in cached' THEN closed \cup {l} ELSE closed

\* close(c.done)
Done(l) == closed \cup {l}

\* fetch ends with an answer, which PutGeo caches (or fails to), or with an error: the
\* provider, its 4 s timeout or the caller's context. Either way the channel is closed.
FetchEnds(l) ==
    /\ look[l].pc = "fetch"
    /\ cached' \in {cached, cached \cup {look[l].ip}}
    /\ closed' = Done(l)
    /\ look' = [look EXCEPT ![l].pc = "remove"]
    /\ UNCHANGED <<inflight, count, spent>>

\* delete(s.inflight, ip), in a second critical section.
Remove(l) ==
    /\ look[l].pc = "remove"
    /\ inflight' = [inflight EXCEPT ![look[l].ip] = None]
    /\ look' = [look EXCEPT ![l] = Idle]
    /\ UNCHANGED <<cached, count, closed, spent>>

\* <-c.done. The call belongs to the goroutine until the last waiter has read it: look[l].on starts
\* no other call before (NextCall).
Released(l) ==
    /\ look[l].pc = "wait" /\ look[l].on \in closed
    /\ look' = [look EXCEPT ![l] = Idle]
    /\ UNCHANGED <<cached, inflight, count, closed, spent>>

\* The client of the waiting request hangs up: <-ctx.Done().
HangUp(l) ==
    /\ look[l].pc = "wait"
    /\ look' = [look EXCEPT ![l] = Idle]
    /\ UNCHANGED <<cached, inflight, count, closed, spent>>

\* A minute passes: allow starts a new window at its next call. An entry becomes 30 days old.
NewWindow == Spend /\ count' = 0 /\ UNCHANGED <<cached, inflight, look, closed>>

Expire(a) == a \in cached /\ Spend /\ cached' = cached \ {a} /\ UNCHANGED <<inflight, count, look, closed>>

\* A goroutine whose call somebody still waits for stands for that call.
NextCall(l) == \A w \in Lookups : look[w].on # l

Step(l) == Allow(l) \/ Join(l) \/ FetchEnds(l) \/ Remove(l) \/ Released(l)

Next ==
    \/ NewWindow
    \/ \E a \in Addresses : Expire(a)
    \/ \E l \in Lookups, a \in Addresses : NextCall(l) /\ GetGeo(l, a)
    \/ \E l \in Lookups : Step(l) \/ HangUp(l)

\* Goroutines run, and fetch has a timeout.
Fairness == \A l \in Lookups : WF_vars(Step(l))

Spec == Init /\ [][Next]_vars /\ Fairness
-----------------------------------------------------------------------------
(* Properties.                                                              *)

\* Every variable keeps its type.
TypeOK ==
    /\ cached \subseteq Addresses /\ inflight \in [Addresses -> Lookups \cup {None}]
    /\ count \in 0..MaxPerMinute /\ spent \in 0..Budget /\ closed \subseteq Lookups
    /\ look \in [Lookups -> [pc : {"idle", "allow", "join", "wait", "fetch", "remove"},
                             ip : Addresses \cup {None}, on : Lookups \cup {None}]]

\* The provider is asked at most once at a time for an address, and the entry in the table is
\* that call's until its own Lookup removes it, though fetch runs outside the mutex.
OneCallPerAddress ==
    \A l, m \in Lookups :
        /\ look[l].pc = "fetch" /\ look[m].pc = "fetch" /\ look[l].ip = look[m].ip => l = m
        /\ look[l].pc \in {"fetch", "remove"} => inflight[look[l].ip] = l

\* Waiters are released, also when the fetch they wait for fails.
WaitersReturn == \A l \in Lookups : look[l].pc = "wait" ~> look[l].pc = "idle"
==============================================================================
