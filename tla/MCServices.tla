------------------------------ MODULE MCServices ------------------------------
(* The services beside the sampler for TLC: settings, subscription links, probes,   *)
(* geolocation, rate limiters, paginated lists and the start of the process. None    *)
(* reads what another one writes, so a behaviour is one of one of them.            *)
EXTENDS Settings, Integers, FiniteSets, Sequences

CONSTANTS
    Accounts, Tokens, Fetches, Tabs, Hosts, Cooldown, MaxClock,
    Operations, MaxProbes, MaxLosses,
    Lookups, Addresses, MaxPerMinute, Budget,
    Limit, Per, Second, SubRetry, MaxTicks, MaxEvents,
    Rows, Sorts, Edges, PageSize, MaxWrites,
    Databases, Default, Postgres, Kinds, Posts, MaxStops

\* None stands for an empty pointer or a missing row, never for a goroutine.
ASSUME GeoAssumption == None \notin Lookups /\ MaxPerMinute \in Nat /\ Budget \in Nat

\* probeSem is a channel with a capacity.
ASSUME ProbeAssumption == IsFiniteSet(Operations) /\ MaxProbes \in Nat /\ MaxLosses \in Nat

\* Both limiters are made with positive constants.
ASSUME LimiterAssumption ==
    /\ Limit \in Nat \ {0} /\ Per \in Nat \ {0} /\ Second \in Nat \ {0} /\ MaxTicks \in Nat
    /\ SubRetry \in Nat /\ None \notin [count : Nat, start : Nat] \cup [at : Nat, window : Nat]

\* A row of user_subscriptions is never None, and None is no account and no token.
ASSUME SubscriptionAssumption ==
    /\ None \notin Accounts \cup Tokens \cup [tok : Tokens \cup {None}, last : 0..MaxClock]
    /\ Cooldown \in Nat /\ MaxClock \in Nat \ {0}

\* Keys are compared as numbers; a page has room for a row.
ASSUME ListingAssumption ==
    /\ IsFiniteSet(Rows) /\ Rows \subseteq Int /\ Sorts \subseteq Int /\ Edges \subseteq Int
    /\ PageSize \in Nat \ {0} /\ MaxWrites \in Nat

\* 0 is main among those who open a database, and None is neither a database nor a key.
ASSUME StartupAssumption ==
    /\ Default \in Databases /\ 0 \notin Posts /\ MaxStops \in Nat
    /\ None \notin Databases /\ None \notin Posts /\ None \notin Nat
    /\ None \notin [at : Databases, cred : Posts]
    /\ Kinds \in Seq({"create", "alter", "move"})

\* A migration of each kind.
EachKind == <<"create", "alter", "move">>

VARIABLES
    part,
    alive, sub, host, fetch, tab, clock, dead, stamped,
    op, go, box, node, exitIP, slots, losses, lost,
    cached, inflight, count, look, closed, spent,
    route, tick, win, hits, refused, fixedLog, slidingLog, retry,
    list, rowKey, matches, from, to, given, cursor, shown, done, writes, still, steady,
    release, config, chosen, db, key, pwFile, panel, post, outcome, drawn, stops, served, torn

subVars == <<alive, sub, host, fetch, tab, clock, dead, stamped>>
probeVars == <<op, go, box, node, exitIP, slots, losses, lost>>
geoVars == <<cached, inflight, count, look, closed, spent>>
limiterVars == <<route, tick, win, hits, refused, fixedLog, slidingLog, retry>>
listVars == <<list, rowKey, matches, from, to, given, cursor, shown, done, writes, still, steady>>
startVars ==
    <<release, config, chosen, db, key, pwFile, panel, post, outcome, drawn, stops, served, torn>>

S == INSTANCE Subscription
P == INSTANCE Probe
G == INSTANCE Geo
L == INSTANCE Limiter
K == INSTANCE Listing
B == INSTANCE Startup

Parts == {"settings", "subscription", "probe", "geo", "limiter", "listing", "startup"}

\* Initial states that differ only in a part that takes no step are counted once.
ServicesInit ==
    /\ part \in Parts
    /\ Init /\ S!Init /\ P!Init /\ G!Init /\ L!Init /\ K!Init /\ B!Init
    /\ part # "settings" => val = CHOOSE c \in Contents : TRUE
    /\ part # "limiter" => route = "session"
    /\ part # "listing" => list = "nodes" /\ DOMAIN rowKey = {} /\ matches = {}
    /\ part # "startup" => release = 1 /\ config = None

ServicesNext ==
    /\ UNCHANGED part
    /\ \/ /\ part = "settings" /\ Next
          /\ UNCHANGED <<subVars, probeVars, geoVars, limiterVars, listVars, startVars>>
       \/ /\ part = "subscription" /\ S!Next
          /\ UNCHANGED <<vars, probeVars, geoVars, limiterVars, listVars, startVars>>
       \/ /\ part = "probe" /\ P!Next
          /\ UNCHANGED <<vars, subVars, geoVars, limiterVars, listVars, startVars>>
       \/ /\ part = "geo" /\ G!Next
          /\ UNCHANGED <<vars, subVars, probeVars, limiterVars, listVars, startVars>>
       \/ /\ part = "limiter" /\ L!Next
          /\ UNCHANGED <<vars, subVars, probeVars, geoVars, listVars, startVars>>
       \/ /\ part = "listing" /\ K!Next
          /\ UNCHANGED <<vars, subVars, probeVars, geoVars, limiterVars, startVars>>
       \/ /\ part = "startup" /\ B!Next
          /\ UNCHANGED <<vars, subVars, probeVars, geoVars, limiterVars, listVars>>

servicesVars == <<part, vars, subVars, probeVars, geoVars, limiterVars, listVars, startVars>>

ServicesSpec == ServicesInit /\ [][ServicesNext]_servicesVars /\ P!Fairness /\ G!Fairness
-----------------------------------------------------------------------------
\* Every variable of every part keeps its type.
ServicesTypeOK == TypeOK /\ S!TypeOK /\ P!TypeOK /\ G!TypeOK /\ L!TypeOK /\ K!TypeOK /\ B!TypeOK

\* Subscription: handleSubscriptionContent serves nothing for a link that was dead when the request
\* began.
DeadLinksServeNothing == S!DeadLinksServeNothing

\* Subscription: handleUserProfileSubscriptionToken carries out a reset a full cooldown after every
\* one that SetResetNow had recorded when it asked.
ResetsSpaced == S!ResetsSpaced

\* Probe: whichever way runProbe ends, its slot of probeSem is given back once and no sing-box is
\* left running; never more than MaxProbes run at once.
ProbesCleanUp == P!SlotsMatchProbes /\ P!NoBoxLeft

\* Probe: an operation answered with 202 ends.
OperationsEnd == P!OperationsEnd

\* Geo: Lookup asks the provider once at a time for an address.
OneCallPerAddress == G!OneCallPerAddress

\* Geo: goroutines that wait in Lookup for somebody else's call return.
WaitersReturn == G!WaitersReturn

\* Limiter: Limiter.Allow lets fewer than two windows' worth pass in the span of one and
\* windowLimiter.allow one. A client refused at /session that waits the announced Retry-After and a
\* second more, or one refused at /sub/{token} that waits for the end of the window, is let in unless
\* another request of its key has opened a window first.
LimitsHold == L!FixedWindowBound /\ L!SlidingWindowBound /\ L!RetryAfterSuffices

\* Listing: a walk shows no row that stayed in its place twice, and in the end has shown every one that
\* passed the filter, and the range, of each page.
UnmovedShownOnce == K!UnmovedShownOnce

\* Startup: a recorded schema version means that its migrations were applied.
RecordedMeansApplied == B!RecordedMeansApplied

\* Startup: over stops, restarts and upgrades the panel keeps serving with the key of LoadOrCreateKey
\* it first served with, and initializeAdmin makes one account, whose password somebody can know.
SecretsKept == B!OneKey /\ B!PasswordKnown
==============================================================================
