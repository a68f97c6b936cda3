--------------------------- MODULE SessionRegistry ---------------------------
(***************************************************************************)
(* The WebSocket sessions of one user on several im-servers and the user's *)
(* entry in the route table in Redis: a lease per server, with the number  *)
(* of sessions there.  Every change of sessions counts them first and then *)
(* rewrites the entry (load, change the own lease, store) under a lock     *)
(* with an expiry.  A loop of each server renews its leases.               *)
(***************************************************************************)
EXTENDS Naturals, FiniteSets

CONSTANTS
    Server,     \* im-server instances
    Session,    \* sessions the user may open, each by its socket task
    Worker,     \* clean-up loops, pushes and internal HTTP requests
    MaxFailures \* bound: crashes and failed Redis commands in a behaviour

\* A server stands for its renewal loop.
Task == Server \cup Session \cup Worker

ASSUME RegistryAssumption ==
    /\ Server \cap Session = {}
    /\ Server \cap Worker = {}
    /\ Session \cap Worker = {}
    /\ IsFiniteSet(Session)
    /\ MaxFailures \in Nat

VARIABLES
    sessions,     \* ImServiceInner.sessions of each server
    userSessions, \* ... its user_sessions: ids by user
    task,         \* local state of every task
    route,        \* session count in the lease of each server, 0 without one
    locked,       \* the lock key exists
    holder,       \* the task whose token it has, none if that has crashed
    failures,
    disturbed     \* history: a lock expired in use, or a load failed

redisVars == <<route, locked, holder>>
vars == <<sessions, userSessions, task, redisVars, failures, disturbed>>

NoRoute == [i \in Server |-> 0]

\* A task of server i that waits in the phase pc for something to do.  job is
\* what it does under the lock, then the phase it goes on to, victim the
\* session it removes, ids and count what it has read of the sessions, snap
\* what it has read of the route.
Waiting(i, pc) ==
    [at |-> i, pc |-> pc, job |-> "refresh", then |-> pc, victim |-> {},
     ids |-> {}, count |-> 0, snap |-> NoRoute]

Init ==
    /\ sessions = [i \in Server |-> {}]
    /\ userSessions = [i \in Server |-> {}]
    /\ \E home \in [Session \cup Worker -> Server] :
        task = [t \in Task |-> Waiting(IF t \in Server THEN t ELSE home[t], "idle")]
    /\ route = NoRoute
    /\ locked = FALSE
    /\ holder = {}
    /\ failures = 0
    /\ disturbed = FALSE

At(t, pc) == task[t].pc = pc

\* The task is then l; is back in the phase it goes on to.
Continue(t, l) == task' = [task EXCEPT ![t] = l]
Finish(t)      == Continue(t, Waiting(task[t].at, task[t].then))

\* The phases in which a task uses the lock.
Using == {t \in Task : task[t].pc \in {"load", "store"}}
-----------------------------------------------------------------------------
(* Sessions *)

\* register_session puts the session into both maps under both locks.
Register(s) ==
    /\ At(s, "idle")
    /\ sessions' = [sessions EXCEPT ![task[s].at] = @ \cup {s}]
    /\ userSessions' = [userSessions EXCEPT ![task[s].at] = @ \cup {s}]
    /\ Continue(s, [task[s] EXCEPT !.pc = "ids", !.then = "open"])
    /\ UNCHANGED <<redisVars, failures, disturbed>>

\* refresh_session_heartbeat of an open socket ...
Heartbeat(s) ==
    /\ At(s, "open")
    /\ s \in sessions[task[s].at]
    /\ Continue(s, [task[s] EXCEPT !.pc = "ids"])
    /\ UNCHANGED <<sessions, userSessions, redisVars, failures, disturbed>>

\* ... which ends when its session was removed; unregister_session finds nothing.
Close(s) ==
    /\ At(s, "open")
    /\ s \notin sessions[task[s].at]
    /\ Continue(s, Waiting(task[s].at, "closed"))
    /\ UNCHANGED <<sessions, userSessions, redisVars, failures, disturbed>>

\* remove_session_local, by the socket task itself or by the clean-up, a push
\* to a slow session or user_offline: out of sessions ...
Unregister(t, s) ==
    /\ \/ t = s /\ At(t, "open")
       \/ t \in Worker /\ At(t, "idle")
    /\ s \in sessions[task[t].at]
    /\ sessions' = [sessions EXCEPT ![task[t].at] = @ \ {s}]
    /\ Continue(t, [task[t] EXCEPT !.pc = "remove", !.victim = {s},
                                   !.then = IF t = s THEN "closed" ELSE "idle"])
    /\ UNCHANGED <<userSessions, redisVars, failures, disturbed>>

\* Fault: the user is forgotten with any of the sessions.
RemoveUser(t) ==
    /\ At(t, "remove")
    /\ userSessions' = [userSessions EXCEPT ![task[t].at] = {}]
    /\ Continue(t, [task[t] EXCEPT !.victim = {}, !.pc = "lock", !.count = 0])
    /\ UNCHANGED <<sessions, redisVars, failures, disturbed>>

\* ... then out of user_sessions.  The last session takes the route with it.
RemoveId(t) ==
    /\ At(t, "remove")
    /\ LET rest == userSessions[task[t].at] \ task[t].victim
       IN  /\ userSessions' = [userSessions EXCEPT ![task[t].at] = rest]
           /\ Continue(t, [task[t] EXCEPT !.victim = {}, !.count = 0,
                               !.pc = IF rest = {} THEN "lock" ELSE "ids"])
    /\ UNCHANGED <<sessions, redisVars, failures, disturbed>>

\* touch_user_heartbeat and user_offline for a user without sessions here
\* remove the route; the former refreshes the route of a user with sessions.
Touch(w) ==
    /\ At(w, "idle")
    /\ Continue(w, [task[w] EXCEPT !.pc = IF sessions[task[w].at] = {}
                                          THEN "lock" ELSE "ids"])
    /\ UNCHANGED <<sessions, userSessions, redisVars, failures, disturbed>>

\* get_instance_session_counts loads the entry and stores it as it was.
Query(w) ==
    /\ At(w, "idle")
    /\ Continue(w, [task[w] EXCEPT !.pc = "lock", !.job = "query"])
    /\ UNCHANGED <<sessions, userSessions, redisVars, failures, disturbed>>

\* Fault: the loop prolongs the lease with the count that is there.
RenewLease(i) ==
    /\ At(i, "idle")
    /\ route[i] > 0
    /\ Continue(i, [task[i] EXCEPT !.pc = "lock", !.count = route[i]])
    /\ UNCHANGED <<sessions, userSessions, redisVars, failures, disturbed>>

\* renew_routes_loop counts the ids of every user that has some.
Renew(i) ==
    /\ At(i, "idle")
    /\ userSessions[i] # {}
    /\ Continue(i, [task[i] EXCEPT !.pc = "lock",
                                   !.count = Cardinality(userSessions[i])])
    /\ UNCHANGED <<sessions, userSessions, redisVars, failures, disturbed>>

\* refresh_route_for_user reads the ids of the user ...
ReadIds(t) ==
    /\ At(t, "ids")
    /\ Continue(t, [task[t] EXCEPT !.pc = "count", !.ids = userSessions[task[t].at]])
    /\ UNCHANGED <<sessions, userSessions, redisVars, failures, disturbed>>

\* Fault: the session in question is subtracted although it may be gone.
CountOthers(t) ==
    /\ At(t, "count")
    /\ Continue(t, [task[t] EXCEPT !.pc = "lock", !.ids = {},
                        !.count = Cardinality(task[t].ids \cap sessions[task[t].at]) - 1])
    /\ UNCHANGED <<sessions, userSessions, redisVars, failures, disturbed>>

\* ... and counts those that have an entry.
CountSessions(t) ==
    /\ At(t, "count")
    /\ Continue(t, [task[t] EXCEPT !.pc = "lock", !.ids = {},
                        !.count = Cardinality(task[t].ids \cap sessions[task[t].at])])
    /\ UNCHANGED <<sessions, userSessions, redisVars, failures, disturbed>>
-----------------------------------------------------------------------------
(* The route *)

\* Fault: the guard is dropped at once.
LockDropped(t) ==
    /\ At(t, "lock")
    /\ ~locked
    /\ Continue(t, [task[t] EXCEPT !.pc = "load"])
    /\ UNCHANGED <<sessions, userSessions, redisVars, failures, disturbed>>

\* acquire_lock: SET NX PX.
Lock(t) ==
    /\ At(t, "lock")
    /\ ~locked
    /\ locked' = TRUE
    /\ holder' = {t}
    /\ Continue(t, [task[t] EXCEPT !.pc = "load"])
    /\ UNCHANGED <<sessions, userSessions, route, failures, disturbed>>

\* After twenty attempts in half a second the update is skipped: because the
\* holder has crashed, or by a failure (contention for so long, Redis errors).
GiveUp(t) ==
    /\ At(t, "lock")
    /\ \/ locked /\ holder = {} /\ UNCHANGED failures
       \/ failures < MaxFailures /\ failures' = failures + 1
    /\ Finish(t)
    /\ UNCHANGED <<sessions, userSessions, redisVars, disturbed>>

\* load_snapshot: HGET, without the expired leases ...
Load(t) ==
    /\ At(t, "load")
    /\ Continue(t, [task[t] EXCEPT !.pc = "store", !.snap = route])
    /\ UNCHANGED <<sessions, userSessions, redisVars, failures, disturbed>>

\* ... and empty if it fails.
LoadFails(t) ==
    /\ failures < MaxFailures
    /\ failures' = failures + 1
    /\ disturbed' = TRUE
    /\ At(t, "load")
    /\ Continue(t, [task[t] EXCEPT !.pc = "store", !.snap = NoRoute])
    /\ UNCHANGED <<sessions, userSessions, redisVars>>

\* The entry as the task stores it: a count of 0 removes the own lease.
Changed(t) ==
    IF task[t].job = "query" THEN task[t].snap
    ELSE [task[t].snap EXCEPT ![task[t].at] = task[t].count]

\* persist_snapshot: HSET or HDEL.
Store(t) ==
    /\ At(t, "store")
    /\ route' = Changed(t)
    /\ Finish(t)
    /\ UNCHANGED <<sessions, userSessions, locked, holder, failures, disturbed>>

StoreFails(t) ==
    /\ failures < MaxFailures
    /\ failures' = failures + 1
    /\ At(t, "store")
    /\ Finish(t)
    /\ UNCHANGED <<sessions, userSessions, redisVars, disturbed>>

\* RouteLock::drop has the lock deleted, if it still has the token, by a task
\* of its own; the caller does not wait for it.
Release(t) ==
    /\ holder = {t}
    /\ t \notin Using
    /\ locked' = FALSE
    /\ holder' = {}
    /\ UNCHANGED <<sessions, userSessions, task, route, failures, disturbed>>

\* The lock expires after three seconds if nobody uses it any more.
LockExpires ==
    /\ locked
    /\ holder \cap Using = {}
    /\ locked' = FALSE
    /\ holder' = {}
    /\ UNCHANGED <<sessions, userSessions, task, route, failures, disturbed>>

\* A slow task has the lock expire under it.
LockExpiresInUse ==
    /\ failures < MaxFailures
    /\ failures' = failures + 1
    /\ disturbed' = TRUE
    /\ holder \cap Using # {}
    /\ locked' = FALSE
    /\ holder' = {}
    /\ UNCHANGED <<sessions, userSessions, task, route>>

\* A lease nobody renews expires, in what a task has loaded too: the expiry is
\* part of the lease.
LeaseExpires(i) ==
    /\ route[i] > 0
    /\ userSessions[i] = {}
    /\ route' = [route EXCEPT ![i] = 0]
    /\ task' = [t \in Task |-> [task[t] EXCEPT !.snap[i] = 0]]
    /\ UNCHANGED <<sessions, userSessions, locked, holder, failures, disturbed>>

\* A server crashes and starts again without sessions.  Its lease and, if one
\* of its tasks had it, the lock stay.
Crash(i) ==
    /\ failures < MaxFailures
    /\ failures' = failures + 1
    /\ sessions' = [sessions EXCEPT ![i] = {}]
    /\ userSessions' = [userSessions EXCEPT ![i] = {}]
    /\ task' = [t \in Task |->
                   IF task[t].at # i \/ At(t, "idle") THEN task[t]
                   ELSE Waiting(i, IF t \in Session THEN "closed" ELSE "idle")]
    /\ holder' = {t \in holder : task[t].at # i}
    /\ UNCHANGED <<route, locked, disturbed>>
-----------------------------------------------------------------------------
\* What a task goes on with by itself.
Progress(t) ==
    ReadIds(t) \/ CountSessions(t) \/ RemoveId(t) \/ Load(t) \/ Store(t)

Next ==
    \/ \E s \in Session : \/ Register(s) \/ Heartbeat(s) \/ Close(s)
                          \/ \E t \in Worker \cup {s} : Unregister(t, s)
    \/ \E w \in Worker : Touch(w) \/ Query(w)
    \/ \E i \in Server : Renew(i) \/ LeaseExpires(i) \/ Crash(i)
    \/ \E t \in Task : \/ Progress(t) \/ Lock(t) \/ GiveUp(t) \/ Release(t)
                       \/ LoadFails(t) \/ StoreFails(t)
    \/ LockExpires \/ LockExpiresInUse

Spec == Init /\ [][Next]_vars

\* Tasks run, time passes, and a task that tries for ever gets the lock.
Fairness ==
    /\ \A t \in Task : WF_vars(Progress(t)) /\ WF_vars(Release(t)) /\ SF_vars(Lock(t))
    /\ \A i \in Server : WF_vars(Renew(i)) /\ WF_vars(LeaseExpires(i))
    /\ WF_vars(LockExpires)

FairSpec == Spec /\ Fairness
-----------------------------------------------------------------------------
(* Properties *)

Local ==
    [at : Server, job : {"refresh", "query"}, victim : SUBSET Session,
     pc : {"idle", "remove", "ids", "count", "lock", "load", "store", "open", "closed"},
     then : {"idle", "open", "closed"},
     ids : SUBSET Session, count : Nat, snap : [Server -> Nat]]

\* Every variable has its type; in particular no count of sessions is negative.
TypeOK ==
    /\ sessions \in [Server -> SUBSET Session]
    /\ userSessions \in [Server -> SUBSET Session]
    /\ task \in [Task -> Local]
    /\ route \in [Server -> Nat]
    /\ locked \in BOOLEAN
    /\ holder \subseteq Task
    /\ failures \in 0..MaxFailures
    /\ disturbed \in BOOLEAN

\* The two maps of a server, changed one after the other when a session goes,
\* only differ by the sessions somebody is about to remove: a session that has
\* an entry is never forgotten by user, and none is left behind.
MapsAgree ==
    \A i \in Server :
        /\ sessions[i] \subseteq userSessions[i]
        /\ \A s \in userSessions[i] \ sessions[i] :
            \E t \in Task : task[t].at = i /\ At(t, "remove") /\ s \in task[t].victim

\* A task on its way to store the entry stores it in this step.
Stores(t) == At(t, "store") /\ task'[t].pc # "store"

\* As long as no lock expires in use and no load fails, the lease of a server
\* only changes when a task of that server stores it, or when it expires: the
\* servers rewrite the common entry without undoing one another.
ForeignLeasesKept ==
    [][~disturbed => \A i \in Server : route'[i] # route[i] =>
        \/ \E t \in Task : task[t].at = i /\ task[t].job = "refresh" /\ Stores(t)
        \/ route'[i] = 0 /\ userSessions[i] = {}]_vars

\* Counts are read before the lock is taken, updates may be skipped, locks may
\* expire and loads fail; but in the end the route says of every server how
\* many sessions the user has there.
RoutesConverge == <>[](\A i \in Server : route[i] = Cardinality(userSessions[i]))
=============================================================================
