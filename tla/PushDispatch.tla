---------------------------- MODULE PushDispatch ----------------------------
(***************************************************************************)
(* The push dispatcher of the api-server: it reads a stream of events as a *)
(* consumer group with one consumer, works out whom an event concerns and  *)
(* on which im-servers they are, and sends it there; all requests of an    *)
(* event are awaited before the next one.  Entries are acknowledged batch  *)
(* by batch, whatever became of the requests, and read again after a crash.*)
(* Routes are kept for route_cache_ttl_ms, here a number of ticks.         *)
(***************************************************************************)
EXTENDS Integers, Sequences, FiniteSets

CONSTANTS
    PushUser,  \* users
    ImServer,  \* im-servers
    RouteTtl,  \* route_cache_ttl_ms, in ticks
    PushBatch, \* push_dispatcher_batch_size
    MaxEvents, \* bound: events of the stream
    MaxMishaps \* bound: restarts of the dispatcher

ASSUME PushAssumption ==
    {RouteTtl, PushBatch} \subseteq Nat \ {0} /\ {MaxEvents, MaxMishaps} \subseteq Nat

VARIABLES
    events,    \* the stream: whom each event concerns
    handed,    \* entries handed to the consumer
    unacked,   \* of these, the ones it has not acknowledged
    phase,     \* of the dispatcher: "read", "dispatch" or "await"
    batch,     \* numbers of the events it has still to take
    sending,   \* servers whose answer it awaits, with the number of the event
    line,      \* events each server got since the dispatcher started
    routes,    \* where each user is connected, as the route table says
    routeAge,  \* history: ticks since a user came to, or left, a server
    routeCache,\* per user: routes and their age
    staleRoute,\* history: age of the oldest route that was followed or missed
    mishaps    \* restarts so far

streamVars == <<events, handed, unacked>>
routeVars  == <<routes, routeAge, routeCache>>
pushVars   == <<streamVars, phase, batch, sending, line, routeVars, staleRoute, mishaps>>

NotCached == [at |-> {}, left |-> 0]

PushInit ==
    /\ events = <<>> /\ handed = 0 /\ unacked = {}
    /\ phase = "read" /\ batch = {} /\ sending = {}
    /\ line = [i \in ImServer |-> <<>>]
    /\ routes = [u \in PushUser |-> {}]
    /\ routeAge = [u \in PushUser |-> [i \in ImServer |-> RouteTtl + 1]]
    /\ routeCache = [u \in PushUser |-> NotCached]
    /\ staleRoute = 0
    /\ mishaps = 0
-----------------------------------------------------------------------------
\* An event is published.  build_push names the users it concerns: the members
\* of a group, both ends of a private message or receipt, the target of a friend
\* request, and nobody for moments or an event without what it should carry.
PublishEvent(users) ==
    /\ Len(events) < MaxEvents
    /\ events' = Append(events, users)
    /\ UNCHANGED <<handed, unacked, phase, batch, sending, line, routeVars,
                   staleRoute, mishaps>>

\* The route table changes when users connect, disconnect, or leases end.
MoveUser(u, i) ==
    /\ routes' = [routes EXCEPT ![u] = IF i \in @ THEN @ \ {i} ELSE @ \cup {i}]
    /\ routeAge' = [routeAge EXCEPT ![u] = [@ EXCEPT ![i] = 0]]
    /\ UNCHANGED <<streamVars, phase, batch, sending, line, routeCache, staleRoute, mishaps>>

Up(n) == IF n > RouteTtl THEN n ELSE n + 1

Aged(cached) ==
    IF cached.left =< 1 THEN NotCached ELSE [at |-> cached.at, left |-> cached.left - 1]

RouteTick ==
    /\ routeAge' = [u \in PushUser |-> [i \in ImServer |-> Up(routeAge[u][i])]]
    /\ routeCache' = [u \in PushUser |-> Aged(routeCache[u])]
    /\ UNCHANGED <<streamVars, phase, batch, sending, line, routes, staleRoute, mishaps>>

\* A cached lease ends before the entry does: the entry is no longer valid_at.
LeaseEnds(u) ==
    /\ routeCache[u] # NotCached
    /\ routeCache' = [routeCache EXCEPT ![u] = NotCached]
    /\ UNCHANGED <<streamVars, phase, batch, sending, line, routes, routeAge,
                   staleRoute, mishaps>>
-----------------------------------------------------------------------------
\* read_group_events: what was handed out and not acknowledged comes first.
ReadPending ==
    /\ phase = "read"
    /\ unacked # {}
    /\ batch' = {n \in unacked : Cardinality({m \in unacked : m < n}) < PushBatch}
    /\ phase' = "dispatch"
    /\ UNCHANGED <<streamVars, sending, line, routeVars, staleRoute, mishaps>>

\* Where there is nothing of that kind, new entries.
ReadNew ==
    /\ phase = "read"
    /\ unacked = {}
    /\ handed < Len(events)
    /\ handed' = IF handed + PushBatch < Len(events) THEN handed + PushBatch ELSE Len(events)
    /\ unacked' = (handed + 1)..handed'
    /\ batch' = unacked'
    /\ phase' = "dispatch"
    /\ UNCHANGED <<events, sending, line, routeVars, staleRoute, mishaps>>

\* A fault: a route that is used starts a new life in the cache.
LookupsProlonging(users) ==
    [u \in PushUser |->
        IF u \notin users THEN routeCache[u]
        ELSE IF routeCache[u] # NotCached 
             THEN [at |-> routeCache[u].at, left |-> RouteTtl]
        ELSE IF routes[u] = {} THEN NotCached
        ELSE [at |-> routes[u], left |-> RouteTtl]]

\* routes_for_users: the cache after it; a user without routes is not cached.
Lookups(users) ==
    [u \in PushUser |->
        IF u \notin users \/ routeCache[u] # NotCached THEN routeCache[u]
        ELSE IF routes[u] = {} THEN NotCached
        ELSE [at |-> routes[u], left |-> RouteTtl]]

\* How old what is assumed of user u and server i is.
AgeOf(u, i, cache) == IF (i \in cache[u].at) = (i \in routes[u]) THEN 0 ELSE routeAge[u][i]

Oldest(ages) == {age \in ages : \A other \in ages : other =< age}

\* The events of a batch are taken in the order of the stream.
NextOf(numbers) == {n \in numbers : \A m \in numbers : n =< m}

\* A fault: dispatch_event does not wait for the requests of the event before.
DispatchUnawaited(n) ==
    /\ phase = "dispatch"
    /\ n \in NextOf(batch)
    /\ routeCache' = Lookups(events[n])
    /\ sending' = sending \cup
           {<<i, n>> : i \in UNION {routeCache'[u].at : u \in events[n]}}
    /\ staleRoute' \in Oldest({staleRoute}
           \cup {AgeOf(u, i, routeCache') : u \in events[n], i \in ImServer})
    /\ phase' = phase
    /\ batch' = batch \ {n}
    /\ UNCHANGED <<streamVars, line, routes, routeAge, mishaps>>

\* dispatch_event: one request for each server where somebody concerned is.
DispatchEvent(n) ==
    /\ phase = "dispatch"
    /\ n \in NextOf(batch)
    /\ routeCache' = Lookups(events[n])
    /\ sending' = {<<i, n>> : i \in UNION {routeCache'[u].at : u \in events[n]}}
    /\ staleRoute' \in Oldest({staleRoute}
           \cup {AgeOf(u, i, routeCache') : u \in events[n], i \in ImServer})
    /\ phase' = "await"
    /\ batch' = batch \ {n}
    /\ UNCHANGED <<streamVars, line, routes, routeAge, mishaps>>

\* send_internal_push_batch: the server has the event, in whatever order.
PushArrives(request) ==
    /\ request \in sending
    /\ sending' = sending \ {request}
    /\ line' = [line EXCEPT ![request[1]] = Append(@, request[2])]
    /\ UNCHANGED <<streamVars, phase, batch, routeVars, staleRoute, mishaps>>

\* It fails, and is logged.
PushFails(request) ==
    /\ request \in sending
    /\ sending' = sending \ {request}
    /\ UNCHANGED <<streamVars, phase, batch, line, routeVars, staleRoute, mishaps>>

EventDone ==
    /\ phase = "await"
    /\ sending = {}
    /\ phase' = "dispatch"
    /\ UNCHANGED <<streamVars, batch, sending, line, routeVars, staleRoute, mishaps>>

\* The batch is through: all its entries are acknowledged.
AckBatch ==
    /\ phase = "dispatch"
    /\ batch = {}
    /\ phase' = "read"
    /\ unacked' = {}
    /\ UNCHANGED <<events, handed, batch, sending, line, routeVars, staleRoute, mishaps>>

\* The connection fails or the process stops: the dispatcher starts again.
RestartDispatcher ==
    /\ mishaps < MaxMishaps
    /\ mishaps' = mishaps + 1
    /\ phase' = "read" /\ batch' = {} /\ sending' = {}
    /\ line' = [i \in ImServer |-> <<>>]
    /\ routeCache' = [u \in PushUser |-> NotCached]
    /\ UNCHANGED <<streamVars, routes, routeAge, staleRoute>>

PushNext ==
    \/ \E users \in SUBSET PushUser : PublishEvent(users)
    \/ \E u \in PushUser : (\E i \in ImServer : MoveUser(u, i)) \/ LeaseEnds(u)
    \/ RouteTick
    \/ ReadPending \/ ReadNew \/ EventDone \/ AckBatch \/ RestartDispatcher
    \/ \E n \in batch : DispatchEvent(n)
    \/ \E request \in sending : PushArrives(request) \/ PushFails(request)

PushSpec == PushInit /\ [][PushNext]_pushVars
-----------------------------------------------------------------------------
\* Batches, requests and cache entries are what they can be.
PushTypeOK ==
    /\ handed \in 0..Len(events)
    /\ unacked \subseteq 1..handed /\ Cardinality(unacked) =< PushBatch
    /\ phase \in {"read", "dispatch", "await"}
    /\ batch \subseteq unacked
    /\ sending \subseteq ImServer \X unacked
    /\ \A u \in PushUser : routeCache[u].left \in 0..RouteTtl

\* Between two starts of the dispatcher a server gets the events in the order of
\* the stream, and none twice: the read of the pending entries does not return a
\* batch that has been dispatched, and no request overtakes one of an earlier event.
PushesInOrder ==
    \A i \in ImServer : \A m, n \in DOMAIN line[i] : m < n => line[i][m] < line[i][n]

\* Whom an event is sent to is what the route table said less than one lifetime of
\* the route cache before: a user who stays on a server is missed no longer, one
\* who has left it is followed no longer, however often events come.
PushesFollowRoutes == staleRoute < RouteTtl
=============================================================================
