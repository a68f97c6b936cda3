------------------------ MODULE SessionRegistryProofs ------------------------
(***************************************************************************)
(* The maps of a server agree and servers never undo one another's leases: *)
(* proofs about SessionRegistry for any number of servers, sessions and    *)
(* tasks.                                                                  *)
(***************************************************************************)
EXTENDS SessionRegistry, FiniteSetTheorems, TLAPS

\* The number of sessions in a set of them.
LEMMA SessionsCount ==
    ASSUME NEW S \in SUBSET Session
    PROVE  Cardinality(S) \in Nat
BY RegistryAssumption, FS_Subset, FS_CardinalityType

LEMMA WaitingIsLocal ==
    ASSUME NEW i \in Server, NEW pc \in {"idle", "open", "closed"}
    PROVE  Waiting(i, pc) \in Local
BY DEF Waiting, Local, NoRoute

\* A task that becomes some local state leaves the others alone.
LEMMA Continued ==
    ASSUME TypeOK, NEW t \in Task, NEW l \in Local, Continue(t, l)
    PROVE  /\ task' \in [Task -> Local]
           /\ task'[t] = l
           /\ \A u \in Task : u # t => task'[u] = task[u]
BY DEF TypeOK, Continue

LEMMA Finished ==
    ASSUME TypeOK, NEW t \in Task, Finish(t)
    PROVE  /\ Waiting(task[t].at, task[t].then) \in Local
           /\ Continue(t, Waiting(task[t].at, task[t].then))
BY WaitingIsLocal DEF TypeOK, Finish, Local
-----------------------------------------------------------------------------
(* Type correctness *)

LEMMA TypeInit == Init => TypeOK
<1> SUFFICES ASSUME Init PROVE TypeOK
  OBVIOUS
<1>1. PICK home \in [Session \cup Worker -> Server] :
        task = [t \in Task |-> Waiting(IF t \in Server THEN t ELSE home[t], "idle")]
  BY DEF Init
<1>2. \A t \in Task : (IF t \in Server THEN t ELSE home[t]) \in Server
  BY DEF Task
<1>3. task \in [Task -> Local]
  BY <1>1, <1>2, WaitingIsLocal
<1>4. failures \in 0..MaxFailures
  BY RegistryAssumption DEF Init
<1> QED
  BY <1>3, <1>4 DEF Init, TypeOK, NoRoute

\* The steps by which one task changes its local state and perhaps the maps.
LEMMA TypeSessions ==
    ASSUME TypeOK, NEW t \in Task,
           \/ \E s \in Session : t = s /\ (Register(s) \/ Heartbeat(s) \/ Close(s))
           \/ \E s \in Session : Unregister(t, s)
           \/ RemoveId(t) \/ Touch(t) \/ Query(t)
    PROVE  TypeOK'
<1>1. task[t] \in Local
  BY DEF TypeOK
<1>2. CASE t \in Session /\ Register(t)
  <2>1. [task[t] EXCEPT !.pc = "ids", !.then = "open"] \in Local
    BY <1>1 DEF Local
  <2>2. task' \in [Task -> Local]
    BY <1>2, <2>1, Continued DEF Register
  <2> QED
    BY <1>2, <2>2 DEF Register, TypeOK, redisVars
<1>3. CASE t \in Session /\ Heartbeat(t)
  <2>1. [task[t] EXCEPT !.pc = "ids"] \in Local
    BY <1>1 DEF Local
  <2>2. task' \in [Task -> Local]
    BY <1>3, <2>1, Continued DEF Heartbeat
  <2> QED
    BY <1>3, <2>2 DEF Heartbeat, TypeOK, redisVars
<1>4. CASE t \in Session /\ Close(t)
  <2>1. Waiting(task[t].at, "closed") \in Local
    BY <1>1, WaitingIsLocal DEF Local
  <2>2. task' \in [Task -> Local]
    BY <1>4, <2>1, Continued DEF Close
  <2> QED
    BY <1>4, <2>2 DEF Close, TypeOK, redisVars
<1>5. ASSUME NEW s \in Session, Unregister(t, s)
      PROVE  TypeOK'
  <2>1. [task[t] EXCEPT !.pc = "remove", !.victim = {s},
                        !.then = IF t = s THEN "closed" ELSE "idle"] \in Local
    BY <1>1 DEF Local
  <2>2. task' \in [Task -> Local]
    BY <1>5, <2>1, Continued DEF Unregister
  <2> QED
    BY <1>5, <2>2 DEF Unregister, TypeOK, redisVars
<1>6. CASE RemoveId(t)
  <2> DEFINE rest == userSessions[task[t].at] \ task[t].victim
  <2>1. [task[t] EXCEPT !.victim = {}, !.count = 0,
             !.pc = IF rest = {} THEN "lock" ELSE "ids"] \in Local
    BY <1>1 DEF Local
  <2>2. task' \in [Task -> Local]
    BY <1>6, <2>1, Continued DEF RemoveId
  <2> QED
    BY <1>6, <2>2 DEF RemoveId, TypeOK, redisVars
<1>7. CASE Touch(t)
  <2>1. [task[t] EXCEPT !.pc = IF sessions[task[t].at] = {}
                               THEN "lock" ELSE "ids"] \in Local
    BY <1>1 DEF Local
  <2>2. task' \in [Task -> Local]
    BY <1>7, <2>1, Continued DEF Touch
  <2> QED
    BY <1>7, <2>2 DEF Touch, TypeOK, redisVars
<1>8. CASE Query(t)
  <2>1. [task[t] EXCEPT !.pc = "lock", !.job = "query"] \in Local
    BY <1>1 DEF Local
  <2>2. task' \in [Task -> Local]
    BY <1>8, <2>1, Continued DEF Query
  <2> QED
    BY <1>8, <2>2 DEF Query, TypeOK, redisVars
<1> QED
  BY <1>2, <1>3, <1>4, <1>5, <1>6, <1>7, <1>8

LEMMA TypeRoute ==
    ASSUME TypeOK, NEW t \in Task,
           \/ t \in Server /\ Renew(t)
           \/ ReadIds(t) \/ CountSessions(t) \/ Lock(t) \/ GiveUp(t)
           \/ Load(t) \/ LoadFails(t) \/ Store(t) \/ StoreFails(t)
    PROVE  TypeOK'
<1>1. task[t] \in Local
  BY DEF TypeOK
<1>2. CASE t \in Server /\ Renew(t)
  <2>1. Cardinality(userSessions[t]) \in Nat
    BY <1>2, SessionsCount DEF TypeOK
  <2>2. [task[t] EXCEPT !.pc = "lock", !.count = Cardinality(userSessions[t])] \in Local
    BY <1>1, <2>1 DEF Local
  <2>3. task' \in [Task -> Local]
    BY <1>2, <2>2, Continued DEF Renew
  <2> QED
    BY <1>2, <2>3 DEF Renew, TypeOK, redisVars
<1>3. CASE ReadIds(t)
  <2>1. userSessions[task[t].at] \in SUBSET Session
    BY <1>1 DEF TypeOK, Local
  <2>2. [task[t] EXCEPT !.pc = "count", !.ids = userSessions[task[t].at]] \in Local
    BY <1>1, <2>1 DEF Local
  <2>3. task' \in [Task -> Local]
    BY <1>3, <2>2, Continued DEF ReadIds
  <2> QED
    BY <1>3, <2>3 DEF ReadIds, TypeOK, redisVars
<1>4. CASE CountSessions(t)
  <2> DEFINE n == Cardinality(task[t].ids \cap sessions[task[t].at])
  <2>1. n \in Nat
    BY <1>1, SessionsCount DEF Local
  <2> HIDE DEF n
  <2>2. [task[t] EXCEPT !.pc = "lock", !.ids = {}, !.count = n] \in Local
    BY <1>1, <2>1 DEF Local
  <2>3. task' \in [Task -> Local]
    BY <1>4, <2>2, Continued DEF CountSessions, n
  <2> QED
    BY <1>4, <2>3 DEF CountSessions, TypeOK, redisVars
<1>5. CASE Lock(t)
  <2>1. [task[t] EXCEPT !.pc = "load"] \in Local
    BY <1>1 DEF Local
  <2>2. task' \in [Task -> Local]
    BY <1>5, <2>1, Continued DEF Lock
  <2> QED
    BY <1>5, <2>2 DEF Lock, TypeOK
<1>6. CASE GiveUp(t)
  <2>1. task' \in [Task -> Local]
    BY <1>6, Finished, Continued DEF GiveUp
  <2>2. failures' \in 0..MaxFailures
    BY <1>6, RegistryAssumption DEF GiveUp, TypeOK
  <2> QED
    BY <1>6, <2>1, <2>2 DEF GiveUp, TypeOK, redisVars
<1>7. CASE Load(t)
  <2>1. [task[t] EXCEPT !.pc = "store", !.snap = route] \in Local
    BY <1>1 DEF Local, TypeOK
  <2>2. task' \in [Task -> Local]
    BY <1>7, <2>1, Continued DEF Load
  <2> QED
    BY <1>7, <2>2 DEF Load, TypeOK, redisVars
<1>8. CASE LoadFails(t)
  <2>1. [task[t] EXCEPT !.pc = "store", !.snap = NoRoute] \in Local
    BY <1>1 DEF Local, NoRoute
  <2>2. task' \in [Task -> Local]
    BY <1>8, <2>1, Continued DEF LoadFails
  <2>3. failures' \in 0..MaxFailures
    BY <1>8, RegistryAssumption DEF LoadFails, TypeOK
  <2> QED
    BY <1>8, <2>2, <2>3 DEF LoadFails, TypeOK, redisVars
<1>9. CASE Store(t)
  <2>1. task' \in [Task -> Local]
    BY <1>9, Finished, Continued DEF Store
  <2>2. route' \in [Server -> Nat]
    BY <1>1, <1>9 DEF Store, Changed, Local
  <2> QED
    BY <1>9, <2>1, <2>2 DEF Store, TypeOK
<1>10. CASE StoreFails(t)
  <2>1. task' \in [Task -> Local]
    BY <1>10, Finished, Continued DEF StoreFails
  <2>2. failures' \in 0..MaxFailures
    BY <1>10, RegistryAssumption DEF StoreFails, TypeOK
  <2> QED
    BY <1>10, <2>1, <2>2 DEF StoreFails, TypeOK, redisVars
<1> QED
  BY <1>2, <1>3, <1>4, <1>5, <1>6, <1>7, <1>8, <1>9, <1>10

\* The steps that are not a task's own: the lock goes, a lease expires, a
\* server crashes.
LEMMA TypeEnvironment ==
    ASSUME TypeOK,
           \/ \E t \in Task : Release(t)
           \/ LockExpires \/ LockExpiresInUse
           \/ \E i \in Server : LeaseExpires(i) \/ Crash(i)
    PROVE  TypeOK'
<1>1. CASE (\E t \in Task : Release(t)) \/ LockExpires
  BY <1>1 DEF Release, LockExpires, TypeOK
<1>2. CASE LockExpiresInUse
  <2>1. failures' \in 0..MaxFailures
    BY <1>2, RegistryAssumption DEF LockExpiresInUse, TypeOK
  <2> QED
    BY <1>2, <2>1 DEF LockExpiresInUse, TypeOK
<1>3. ASSUME NEW i \in Server, LeaseExpires(i)
      PROVE  TypeOK'
  <2>1. \A t \in Task : [task[t] EXCEPT !.snap[i] = 0] \in Local
    BY ZenonT(30) DEF TypeOK, Local
  <2>2. task' \in [Task -> Local]
    BY <1>3, <2>1 DEF LeaseExpires
  <2> QED
    BY <1>3, <2>2 DEF LeaseExpires, TypeOK
<1>4. ASSUME NEW i \in Server, Crash(i)
      PROVE  TypeOK'
  <2>1. \A t \in Task : Waiting(i, IF t \in Session THEN "closed" ELSE "idle") \in Local
    BY WaitingIsLocal
  <2>2. task' \in [Task -> Local]
    BY <1>4, <2>1 DEF Crash, TypeOK
  <2>3. failures' \in 0..MaxFailures
    BY <1>4, RegistryAssumption DEF Crash, TypeOK
  <2> QED
    BY <1>4, <2>2, <2>3 DEF Crash, TypeOK
<1> QED
  BY <1>1, <1>2, <1>3, <1>4

LEMMA TypeStep == TypeOK /\ [Next]_vars => TypeOK'
<1> SUFFICES ASSUME TypeOK, [Next]_vars PROVE TypeOK'
  OBVIOUS
<1>1. CASE UNCHANGED vars
  BY <1>1 DEF TypeOK, vars, redisVars
<1>2. CASE Next
  BY <1>2, TypeSessions, TypeRoute, TypeEnvironment DEF Next, Progress, Task
<1> QED
  BY <1>1, <1>2

\* Type correctness: in particular no count of sessions is ever negative.
THEOREM TypeCorrect == Spec => []TypeOK
BY TypeInit, TypeStep, PTL DEF Spec
-----------------------------------------------------------------------------
(* The maps agree *)

\* The two maps and the tasks about to remove something from the second: such
\* a task is the only reason for a difference, what it removes has no entry any
\* more, and nothing that is in a map or being removed can register again.
MapsInv ==
    /\ \A i \in Server : sessions[i] \subseteq userSessions[i]
    /\ \A i \in Server : \A s \in userSessions[i] : ~At(s, "idle")
    /\ \A i \in Server : \A s \in userSessions[i] \ sessions[i] :
        \E t \in Task : task[t].at = i /\ At(t, "remove") /\ s \in task[t].victim
    /\ \A t \in Task : At(t, "remove") =>
        /\ task[t].victim \cap sessions[task[t].at] = {}
        /\ \A s \in task[t].victim : ~At(s, "idle")
    /\ \A s \in Session : ~At(s, "idle") => task[s].then # "idle"

\* What a step does to the tasks that leaves the maps and the removals alone.
Quiet ==
    \A t \in Task :
        /\ task'[t].at = task[t].at
        /\ task'[t].pc = "remove" <=> task[t].pc = "remove"
        /\ task[t].pc = "remove" => task'[t].victim = task[t].victim
        /\ t \in Session => /\ task'[t].pc = "idle" <=> task[t].pc = "idle"
                            /\ task'[t].then \in {task[t].then, "closed"}

LEMMA QuietKeepsMaps ==
    ASSUME TypeOK, MapsInv, Quiet, UNCHANGED <<sessions, userSessions>>
    PROVE  MapsInv'
<1>3. \A t \in Task : At(t, "remove")' => At(t, "remove") /\ task'[t].victim = task[t].victim
  BY DEF Quiet, At
<1>4. (\A i \in Server : sessions[i] \subseteq userSessions[i])'
  BY DEF MapsInv
<1>5. (\A i \in Server : \A s \in userSessions[i] : ~At(s, "idle"))'
  <2> SUFFICES ASSUME NEW i \in Server, NEW s \in userSessions[i]
               PROVE  ~At(s, "idle")'
    OBVIOUS
  <2>1. s \in Session
    BY DEF TypeOK
  <2> QED
    BY <2>1 DEF MapsInv, Quiet, At, Task
<1>6. (\A i \in Server : \A s \in userSessions[i] \ sessions[i] :
        \E t \in Task : task[t].at = i /\ At(t, "remove") /\ s \in task[t].victim)'
  BY DEF MapsInv, Quiet, At
<1>7. (\A t \in Task : At(t, "remove") =>
        /\ task[t].victim \cap sessions[task[t].at] = {}
        /\ \A s \in task[t].victim : ~At(s, "idle"))'
  <2> SUFFICES ASSUME NEW t \in Task, At(t, "remove")'
               PROVE  /\ task'[t].victim \cap sessions[task'[t].at] = {}
                      /\ \A s \in task'[t].victim : ~At(s, "idle")'
    OBVIOUS
  <2>1. At(t, "remove") /\ task'[t].victim = task[t].victim /\ task'[t].at = task[t].at
    BY <1>3 DEF Quiet
  <2>2. \A s \in task[t].victim : s \in Session
    BY DEF TypeOK, Local
  <2> QED
    BY <2>1, <2>2 DEF MapsInv, Quiet, At, Task
<1>8. (\A s \in Session : ~At(s, "idle") => task[s].then # "idle")'
  BY DEF MapsInv, Quiet, At, Task
<1> QED
  BY <1>4, <1>5, <1>6, <1>7, <1>8 DEF MapsInv

\* One task goes on, or is done and back where it came from.
LEMMA QuietContinue ==
    ASSUME TypeOK, NEW t \in Task, NEW l \in Local, Continue(t, l),
           l.at = task[t].at, ~At(t, "remove"), l.pc # "remove",
           t \in Session => /\ l.pc = "idle" <=> At(t, "idle")
                            /\ l.then \in {task[t].then, "closed"}
    PROVE  Quiet
<1>1. \A u \in Task : u # t => task'[u] = task[u]
  BY Continued
<1>2. task'[t] = l
  BY Continued
<1> QED
  BY <1>1, <1>2 DEF Quiet, At

LEMMA QuietFinish ==
    ASSUME TypeOK, MapsInv, NEW t \in Task, Finish(t),
           ~At(t, "remove"), ~At(t, "idle")
    PROVE  Quiet
<1> DEFINE l == Waiting(task[t].at, task[t].then)
<1>1. l \in Local /\ Continue(t, l)
  BY Finished
<1>2. l.at = task[t].at /\ l.pc = task[t].then /\ l.then = task[t].then
  BY DEF Waiting
<1>3. task[t].then # "remove"
  BY DEF TypeOK, Local
<1>4. t \in Session => task[t].then # "idle"
  BY DEF MapsInv
<1> HIDE DEF l
<1> QED
  BY <1>1, <1>2, <1>3, <1>4, QuietContinue

LEMMA MapsQuiet ==
    ASSUME TypeOK, MapsInv, NEW t \in Task,
           \/ t \in Session /\ (Heartbeat(t) \/ Close(t))
           \/ t \in Worker /\ (Touch(t) \/ Query(t))
           \/ t \in Server /\ Renew(t)
           \/ ReadIds(t) \/ CountSessions(t) \/ Lock(t) \/ GiveUp(t)
           \/ Load(t) \/ LoadFails(t) \/ Store(t) \/ StoreFails(t)
    PROVE  MapsInv'
<1>1. task[t] \in Local
  BY DEF TypeOK
<1>2. CASE t \in Session /\ Heartbeat(t)
  <2>1. [task[t] EXCEPT !.pc = "ids"] \in Local
    BY <1>1 DEF Local
  <2>2. Quiet
    BY <1>1, <1>2, <2>1, QuietContinue DEF Heartbeat, At, Local
  <2> QED
    BY <1>2, <2>2, QuietKeepsMaps DEF Heartbeat
<1>3. CASE t \in Session /\ Close(t)
  <2>1. Waiting(task[t].at, "closed") \in Local
    BY <1>1, WaitingIsLocal DEF Local
  <2>2. Quiet
    BY <1>1, <1>3, <2>1, QuietContinue DEF Close, At, Waiting
  <2> QED
    BY <1>3, <2>2, QuietKeepsMaps DEF Close
<1>4. CASE t \in Worker /\ Touch(t)
  <2>1. [task[t] EXCEPT !.pc = IF sessions[task[t].at] = {}
                               THEN "lock" ELSE "ids"] \in Local
    BY <1>1 DEF Local
  <2>2. t \notin Session
    BY <1>4, RegistryAssumption
  <2>3. Quiet
    BY <1>1, <1>4, <2>1, <2>2, QuietContinue DEF Touch, At, Local
  <2> QED
    BY <1>4, <2>3, QuietKeepsMaps DEF Touch
<1>5. CASE t \in Worker /\ Query(t)
  <2>1. [task[t] EXCEPT !.pc = "lock", !.job = "query"] \in Local
    BY <1>1 DEF Local
  <2>2. t \notin Session
    BY <1>5, RegistryAssumption
  <2>3. Quiet
    BY <1>1, <1>5, <2>1, <2>2, QuietContinue DEF Query, At, Local
  <2> QED
    BY <1>5, <2>3, QuietKeepsMaps DEF Query
<1>6. CASE t \in Server /\ Renew(t)
  <2>1. Cardinality(userSessions[t]) \in Nat
    BY <1>6, SessionsCount DEF TypeOK
  <2>2. [task[t] EXCEPT !.pc = "lock", !.count = Cardinality(userSessions[t])] \in Local
    BY <1>1, <2>1 DEF Local
  <2>3. t \notin Session
    BY <1>6, RegistryAssumption
  <2>4. Quiet
    BY <1>1, <1>6, <2>2, <2>3, QuietContinue DEF Renew, At, Local
  <2> QED
    BY <1>6, <2>4, QuietKeepsMaps DEF Renew
<1>7. CASE ReadIds(t)
  <2>1. userSessions[task[t].at] \in SUBSET Session
    BY <1>1 DEF TypeOK, Local
  <2>2. [task[t] EXCEPT !.pc = "count", !.ids = userSessions[task[t].at]] \in Local
    BY <1>1, <2>1 DEF Local
  <2>3. Quiet
    BY <1>1, <1>7, <2>2, QuietContinue DEF ReadIds, At, Local
  <2> QED
    BY <1>7, <2>3, QuietKeepsMaps DEF ReadIds
<1>8. CASE CountSessions(t)
  <2> DEFINE n == Cardinality(task[t].ids \cap sessions[task[t].at])
  <2>1. n \in Nat
    BY <1>1, SessionsCount DEF Local
  <2>2. Continue(t, [task[t] EXCEPT !.pc = "lock", !.ids = {}, !.count = n])
    BY <1>8 DEF CountSessions
  <2> HIDE DEF n
  <2>3. [task[t] EXCEPT !.pc = "lock", !.ids = {}, !.count = n] \in Local
    BY <1>1, <2>1 DEF Local
  <2>4. At(t, "count")
    BY <1>8 DEF CountSessions
  <2>5. Quiet
    BY <1>1, <2>2, <2>3, <2>4, QuietContinue DEF At, Local
  <2> QED
    BY <1>8, <2>5, QuietKeepsMaps DEF CountSessions
<1>9. CASE Lock(t)
  <2>1. [task[t] EXCEPT !.pc = "load"] \in Local
    BY <1>1 DEF Local
  <2>2. Quiet
    BY <1>1, <1>9, <2>1, QuietContinue DEF Lock, At, Local
  <2> QED
    BY <1>9, <2>2, QuietKeepsMaps DEF Lock
<1>10. CASE Load(t)
  <2>1. [task[t] EXCEPT !.pc = "store", !.snap = route] \in Local
    BY <1>1 DEF Local, TypeOK
  <2>2. Quiet
    BY <1>1, <1>10, <2>1, QuietContinue DEF Load, At, Local
  <2> QED
    BY <1>10, <2>2, QuietKeepsMaps DEF Load
<1>11. CASE LoadFails(t)
  <2>1. [task[t] EXCEPT !.pc = "store", !.snap = NoRoute] \in Local
    BY <1>1 DEF Local, NoRoute
  <2>2. Quiet
    BY <1>1, <1>11, <2>1, QuietContinue DEF LoadFails, At, Local
  <2> QED
    BY <1>11, <2>2, QuietKeepsMaps DEF LoadFails
<1>12. CASE GiveUp(t) \/ Store(t) \/ StoreFails(t)
  <2>1. Quiet
    BY <1>12, QuietFinish DEF GiveUp, Store, StoreFails, At
  <2> QED
    BY <1>12, <2>1, QuietKeepsMaps DEF GiveUp, Store, StoreFails
<1> QED
  BY <1>2, <1>3, <1>4, <1>5, <1>6, <1>7, <1>8, <1>9, <1>10, <1>11, <1>12

\* The lock goes or a lease expires: nothing the maps depend on.
LEMMA MapsEnvironment ==
    ASSUME TypeOK, MapsInv,
           \/ \E t \in Task : Release(t)
           \/ LockExpires \/ LockExpiresInUse
           \/ \E i \in Server : LeaseExpires(i)
    PROVE  MapsInv'
<1>1. UNCHANGED <<sessions, userSessions>>
  BY DEF Release, LockExpires, LockExpiresInUse, LeaseExpires
<1>2. CASE UNCHANGED task
  BY <1>1, <1>2, QuietKeepsMaps DEF Quiet
<1>3. ASSUME NEW i \in Server, LeaseExpires(i)
      PROVE  MapsInv'
  <2>1. \A t \in Task : task'[t] = [task[t] EXCEPT !.snap[i] = 0]
    BY <1>3 DEF LeaseExpires
  <2>2. \A t \in Task : task[t] \in Local
    BY DEF TypeOK
  <2>3. Quiet
    BY <2>1, <2>2 DEF Quiet, Local
  <2> QED
    BY <1>1, <2>3, QuietKeepsMaps
<1> QED
  BY <1>2, <1>3 DEF Release, LockExpires, LockExpiresInUse

\* A new session is in both maps, and nobody is about to remove it.
LEMMA MapsRegister ==
    ASSUME TypeOK, MapsInv, NEW s \in Session, Register(s)
    PROVE  MapsInv'
<1> DEFINE i == task[s].at
           l == [task[s] EXCEPT !.pc = "ids", !.then = "open"]
<1>1. s \in Task /\ task[s] \in Local /\ At(s, "idle")
  BY DEF Task, TypeOK, Register
<1>2. l \in Local /\ l.at = i /\ l.pc = "ids" /\ l.then = "open"
  BY <1>1 DEF Local
<1>3. /\ task'[s] = l
      /\ \A t \in Task : t # s => task'[t] = task[t]
  BY <1>1, <1>2, Continued DEF Register
<1>4. /\ sessions' = [sessions EXCEPT ![i] = @ \cup {s}]
      /\ userSessions' = [userSessions EXCEPT ![i] = @ \cup {s}]
  BY DEF Register
<1> HIDE DEF l
<1>5. \A t \in Task : At(t, "remove")' <=> t # s /\ At(t, "remove")
  BY <1>1, <1>2, <1>3 DEF At
<1>6. \A r \in Session : At(r, "idle")' => At(r, "idle")
  BY <1>2, <1>3 DEF At, Task
<1>7. (\A j \in Server : sessions[j] \subseteq userSessions[j])'
  BY <1>4 DEF MapsInv, TypeOK
<1>8. (\A j \in Server : \A r \in userSessions[j] : ~At(r, "idle"))'
  <2>1. ~At(s, "idle")'
    BY <1>2, <1>3 DEF At
  <2> QED
    BY <1>4, <1>6, <2>1 DEF MapsInv, TypeOK
<1>9. (\A j \in Server : \A r \in userSessions[j] \ sessions[j] :
        \E t \in Task : task[t].at = j /\ At(t, "remove") /\ r \in task[t].victim)'
  <2> SUFFICES ASSUME NEW j \in Server, NEW r \in userSessions'[j] \ sessions'[j]
               PROVE  \E t \in Task : /\ task'[t].at = j /\ At(t, "remove")'
                                      /\ r \in task'[t].victim
    OBVIOUS
  <2>1. r \in userSessions[j] \ sessions[j]
    BY <1>4 DEF TypeOK
  <2>2. PICK t \in Task : task[t].at = j /\ At(t, "remove") /\ r \in task[t].victim
    BY <2>1 DEF MapsInv
  <2>3. t # s
    BY <1>1, <2>2 DEF At
  <2> QED
    BY <1>3, <1>5, <2>2, <2>3
<1>10. (\A t \in Task : At(t, "remove") =>
        /\ task[t].victim \cap sessions[task[t].at] = {}
        /\ \A r \in task[t].victim : ~At(r, "idle"))'
  <2> SUFFICES ASSUME NEW t \in Task, At(t, "remove")'
               PROVE  /\ task'[t].victim \cap sessions'[task'[t].at] = {}
                      /\ \A r \in task'[t].victim : ~At(r, "idle")'
    OBVIOUS
  <2>1. t # s /\ At(t, "remove") /\ task'[t] = task[t]
    BY <1>3, <1>5
  <2>2. task[t].victim \subseteq Session /\ task[t].at \in Server
    BY DEF TypeOK, Local
  <2>3. s \notin task[t].victim
    BY <1>1, <2>1 DEF MapsInv
  <2> QED
    BY <1>4, <1>6, <2>1, <2>2, <2>3 DEF MapsInv, TypeOK
<1>11. (\A r \in Session : ~At(r, "idle") => task[r].then # "idle")'
  BY <1>2, <1>3 DEF MapsInv, At, Task
<1> QED
  BY <1>7, <1>8, <1>9, <1>10, <1>11 DEF MapsInv

\* A session leaves the first map, and the task has still to take it from the
\* second.
LEMMA MapsUnregister ==
    ASSUME TypeOK, MapsInv, NEW t \in Task, NEW s \in Session,
           t \in Session => t = s, Unregister(t, s)
    PROVE  MapsInv'
<1> DEFINE i == task[t].at
           l == [task[t] EXCEPT !.pc = "remove", !.victim = {s},
                                !.then = IF t = s THEN "closed" ELSE "idle"]
<1>1. task[t] \in Local /\ ~At(t, "remove") /\ s \in sessions[i]
  BY DEF TypeOK, Unregister, At
<1>2. /\ l \in Local /\ l.at = i /\ l.pc = "remove" /\ l.victim = {s}
      /\ l.then = IF t = s THEN "closed" ELSE "idle"
  BY <1>1 DEF Local
<1>3. /\ task'[t] = l
      /\ \A u \in Task : u # t => task'[u] = task[u]
  BY <1>1, <1>2, Continued DEF Unregister
<1>4. sessions' = [sessions EXCEPT ![i] = @ \ {s}] /\ userSessions' = userSessions
  BY DEF Unregister
<1> HIDE DEF l
<1>5. s \in userSessions[i] /\ i \in Server
  BY <1>1 DEF MapsInv, Local
<1>6. \A r \in Session : At(r, "idle")' => At(r, "idle")
  BY <1>2, <1>3 DEF At, Task
<1>7. (\A j \in Server : sessions[j] \subseteq userSessions[j])'
  BY <1>4 DEF MapsInv, TypeOK
<1>8. (\A j \in Server : \A r \in userSessions[j] : ~At(r, "idle"))'
  BY <1>4, <1>6 DEF MapsInv, TypeOK
<1>9. (\A j \in Server : \A r \in userSessions[j] \ sessions[j] :
        \E u \in Task : task[u].at = j /\ At(u, "remove") /\ r \in task[u].victim)'
  <2> SUFFICES ASSUME NEW j \in Server, NEW r \in userSessions'[j] \ sessions'[j]
               PROVE  \E u \in Task : /\ task'[u].at = j /\ At(u, "remove")'
                                      /\ r \in task'[u].victim
    OBVIOUS
  <2>1. CASE j = i /\ r = s
    BY <1>2, <1>3, <2>1 DEF At
  <2>2. CASE ~(j = i /\ r = s)
    <3>1. r \in userSessions[j] \ sessions[j]
      BY <1>4, <2>2 DEF TypeOK
    <3>2. PICK u \in Task : task[u].at = j /\ At(u, "remove") /\ r \in task[u].victim
      BY <3>1 DEF MapsInv
    <3> QED
      BY <1>1, <1>3, <3>2 DEF At
  <2> QED
    BY <2>1, <2>2
<1>10. (\A u \in Task : At(u, "remove") =>
        /\ task[u].victim \cap sessions[task[u].at] = {}
        /\ \A r \in task[u].victim : ~At(r, "idle"))'
  <2> SUFFICES ASSUME NEW u \in Task, At(u, "remove")'
               PROVE  /\ task'[u].victim \cap sessions'[task'[u].at] = {}
                      /\ \A r \in task'[u].victim : ~At(r, "idle")'
    OBVIOUS
  <2>1. CASE u = t
    BY <1>2, <1>3, <1>4, <1>5, <1>6, <2>1 DEF MapsInv, TypeOK
  <2>2. CASE u # t
    <3>1. task'[u] = task[u] /\ At(u, "remove")
      BY <1>3, <2>2 DEF At
    <3>2. task[u].victim \subseteq Session /\ task[u].at \in Server
      BY DEF TypeOK, Local
    <3> QED
      BY <1>4, <1>6, <3>1, <3>2 DEF MapsInv, TypeOK
  <2> QED
    BY <2>1, <2>2
<1>11. (\A r \in Session : ~At(r, "idle") => task[r].then # "idle")'
  BY <1>2, <1>3 DEF MapsInv, At, Task
<1> QED
  BY <1>7, <1>8, <1>9, <1>10, <1>11 DEF MapsInv

\* The second map loses what has no entry in the first.
LEMMA MapsRemoveId ==
    ASSUME TypeOK, MapsInv, NEW t \in Task, RemoveId(t)
    PROVE  MapsInv'
<1> DEFINE i == task[t].at
           rest == userSessions[i] \ task[t].victim
           l == [task[t] EXCEPT !.victim = {}, !.count = 0,
                                !.pc = IF rest = {} THEN "lock" ELSE "ids"]
<1>1. task[t] \in Local /\ At(t, "remove") /\ i \in Server
  BY DEF TypeOK, RemoveId, Local
<1>2. /\ l \in Local /\ l.pc \in {"lock", "ids"} /\ l.then = task[t].then
  BY <1>1 DEF Local
<1>3. /\ task'[t] = l
      /\ \A u \in Task : u # t => task'[u] = task[u]
  BY <1>1, <1>2, Continued DEF RemoveId
<1>4. sessions' = sessions /\ userSessions' = [userSessions EXCEPT ![i] = rest]
  BY DEF RemoveId
<1> HIDE DEF l
<1>5. \A r \in Session : At(r, "idle")' => At(r, "idle")
  BY <1>2, <1>3 DEF At, Task
<1>6. (\A j \in Server : sessions[j] \subseteq userSessions[j])'
  <2>1. sessions[i] \subseteq rest
    BY <1>1 DEF MapsInv
  <2> QED
    BY <1>4, <2>1 DEF MapsInv, TypeOK
<1>7. (\A j \in Server : \A r \in userSessions[j] : ~At(r, "idle"))'
  BY <1>4, <1>5 DEF MapsInv, TypeOK
<1>8. (\A j \in Server : \A r \in userSessions[j] \ sessions[j] :
        \E u \in Task : task[u].at = j /\ At(u, "remove") /\ r \in task[u].victim)'
  <2> SUFFICES ASSUME NEW j \in Server, NEW r \in userSessions'[j] \ sessions'[j]
               PROVE  \E u \in Task : /\ task'[u].at = j /\ At(u, "remove")'
                                      /\ r \in task'[u].victim
    OBVIOUS
  <2>1. r \in userSessions[j] \ sessions[j] /\ (j = i => r \notin task[t].victim)
    BY <1>4 DEF TypeOK
  <2>2. PICK u \in Task : task[u].at = j /\ At(u, "remove") /\ r \in task[u].victim
    BY <2>1 DEF MapsInv
  <2>3. u # t
    BY <2>1, <2>2
  <2> QED
    BY <1>3, <2>2, <2>3 DEF At
<1>9. (\A u \in Task : At(u, "remove") =>
        /\ task[u].victim \cap sessions[task[u].at] = {}
        /\ \A r \in task[u].victim : ~At(r, "idle"))'
  <2> SUFFICES ASSUME NEW u \in Task, At(u, "remove")'
               PROVE  /\ task'[u].victim \cap sessions'[task'[u].at] = {}
                      /\ \A r \in task'[u].victim : ~At(r, "idle")'
    OBVIOUS
  <2>1. task'[u] = task[u] /\ At(u, "remove")
    BY <1>2, <1>3 DEF At
  <2>2. task[u].victim \subseteq Session
    BY DEF TypeOK, Local
  <2> QED
    BY <1>4, <1>5, <2>1, <2>2 DEF MapsInv
<1>10. (\A r \in Session : ~At(r, "idle") => task[r].then # "idle")'
  BY <1>1, <1>2, <1>3 DEF MapsInv, At, Task
<1> QED
  BY <1>6, <1>7, <1>8, <1>9, <1>10 DEF MapsInv

\* A server that crashes loses both maps and all removals at once.
LEMMA MapsCrash ==
    ASSUME TypeOK, MapsInv, NEW i \in Server, Crash(i)
    PROVE  MapsInv'
<1>1. /\ \A t \in Task : task[t].at # i \/ At(t, "idle") => task'[t] = task[t]
      /\ \A t \in Task : ~(task[t].at # i \/ At(t, "idle")) =>
            task'[t] = Waiting(i, IF t \in Session THEN "closed" ELSE "idle")
  BY DEF Crash
<1> DEFINE Lost(t) == task[t].at = i /\ ~At(t, "idle")
<1>2. \A t \in Task : Lost(t) =>
        /\ task'[t].pc # "remove"
        /\ t \in Session => task'[t].pc = "closed" /\ task'[t].then = "closed"
  <2> SUFFICES ASSUME NEW t \in Task, Lost(t)
               PROVE  /\ task'[t].pc # "remove"
                      /\ t \in Session => task'[t].pc = "closed" /\ task'[t].then = "closed"
    OBVIOUS
  <2>1. CASE t \in Session
    <3>1. task'[t] = Waiting(i, "closed")
      BY <1>1, <2>1
    <3> QED
      BY <3>1 DEF Waiting
  <2>2. CASE t \notin Session
    <3>1. task'[t] = Waiting(i, "idle")
      BY <1>1, <2>2
    <3> QED
      BY <2>2, <3>1 DEF Waiting
  <2> QED
    BY <2>1, <2>2
<1>3. \A t \in Task : At(t, "remove")' =>
        task'[t] = task[t] /\ task[t].at # i /\ At(t, "remove")
  BY <1>2, <1>1 DEF At
<1>4. \A s \in Session : At(s, "idle")' => At(s, "idle")
  BY <1>2, <1>1 DEF At, Task
<1>5. /\ sessions'[i] = {} /\ userSessions'[i] = {}
      /\ \A j \in Server : j # i => /\ sessions'[j] = sessions[j]
                                    /\ userSessions'[j] = userSessions[j]
  BY DEF Crash, TypeOK
<1>6. (\A j \in Server : sessions[j] \subseteq userSessions[j])'
  BY <1>5 DEF MapsInv
<1>7. (\A j \in Server : \A s \in userSessions[j] : ~At(s, "idle"))'
  BY <1>4, <1>5 DEF MapsInv, TypeOK
<1>8. (\A j \in Server : \A s \in userSessions[j] \ sessions[j] :
        \E t \in Task : task[t].at = j /\ At(t, "remove") /\ s \in task[t].victim)'
  <2> SUFFICES ASSUME NEW j \in Server, NEW s \in userSessions'[j] \ sessions'[j]
               PROVE  \E t \in Task : /\ task'[t].at = j /\ At(t, "remove")'
                                      /\ s \in task'[t].victim
    OBVIOUS
  <2>1. j # i /\ s \in userSessions[j] \ sessions[j]
    BY <1>5
  <2>2. PICK t \in Task : task[t].at = j /\ At(t, "remove") /\ s \in task[t].victim
    BY <2>1 DEF MapsInv
  <2> QED
    BY <1>1, <2>1, <2>2 DEF At
<1>9. (\A t \in Task : At(t, "remove") =>
        /\ task[t].victim \cap sessions[task[t].at] = {}
        /\ \A s \in task[t].victim : ~At(s, "idle"))'
  <2> SUFFICES ASSUME NEW t \in Task, At(t, "remove")'
               PROVE  /\ task'[t].victim \cap sessions'[task'[t].at] = {}
                      /\ \A s \in task'[t].victim : ~At(s, "idle")'
    OBVIOUS
  <2>1. task[t].victim \subseteq Session /\ task[t].at \in Server
    BY DEF TypeOK, Local
  <2> QED
    BY <1>3, <1>4, <1>5, <2>1 DEF MapsInv
<1>10. (\A s \in Session : ~At(s, "idle") => task[s].then # "idle")'
  BY <1>2, <1>1 DEF MapsInv, At, Task
<1> QED
  BY <1>6, <1>7, <1>8, <1>9, <1>10 DEF MapsInv

LEMMA MapsInit == Init => MapsInv
<1> SUFFICES ASSUME Init PROVE MapsInv
  OBVIOUS
<1>1. \A t \in Task : At(t, "idle")
  BY DEF Init, At, Waiting
<1>2. \A t \in Task : ~At(t, "remove")
  BY <1>1 DEF At
<1>3. \A i \in Server : sessions[i] = {} /\ userSessions[i] = {}
  BY DEF Init
<1> QED
  BY <1>1, <1>2, <1>3 DEF MapsInv, Task

LEMMA MapsStep == TypeOK /\ MapsInv /\ [Next]_vars => MapsInv'
<1> SUFFICES ASSUME TypeOK, MapsInv, [Next]_vars PROVE MapsInv'
  OBVIOUS
<1>1. CASE UNCHANGED vars
  <2>1. Quiet /\ UNCHANGED <<sessions, userSessions>>
    BY <1>1 DEF vars, Quiet
  <2> QED
    BY <2>1, QuietKeepsMaps
<1>2. ASSUME NEW s \in Session, Register(s) \/ Heartbeat(s) \/ Close(s)
      PROVE  MapsInv'
  BY <1>2, MapsRegister, MapsQuiet DEF Task
<1>3. ASSUME NEW s \in Session, NEW t \in Worker \cup {s}, Unregister(t, s)
      PROVE  MapsInv'
  <2>1. t \in Task /\ (t \in Session => t = s)
    BY RegistryAssumption DEF Task
  <2> QED
    BY <1>3, <2>1, MapsUnregister
<1>4. CASE \E w \in Worker : Touch(w) \/ Query(w)
  BY <1>4, MapsQuiet DEF Task
<1>5. CASE \E i \in Server : Renew(i)
  BY <1>5, MapsQuiet DEF Task
<1>6. CASE \E i \in Server : Crash(i)
  BY <1>6, MapsCrash
<1>7. CASE \E t \in Task : RemoveId(t)
  BY <1>7, MapsRemoveId
<1>8. CASE \E t \in Task : \/ ReadIds(t) \/ CountSessions(t) \/ Load(t) \/ Store(t)
                           \/ Lock(t) \/ GiveUp(t) \/ LoadFails(t) \/ StoreFails(t)
  BY <1>8, MapsQuiet
<1>9. CASE \/ \E t \in Task : Release(t)
           \/ LockExpires \/ LockExpiresInUse
           \/ \E i \in Server : LeaseExpires(i)
  BY <1>9, MapsEnvironment
<1> QED
  BY <1>1, <1>2, <1>3, <1>4, <1>5, <1>6, <1>7, <1>8, <1>9 DEF Next, Progress

\* The two maps of a server only differ by sessions a task is about to remove,
\* whatever else the socket tasks, pushes, clean-ups and crashes do meanwhile.
THEOREM MapsCorrect == Spec => []MapsAgree
<1>1. Init => TypeOK /\ MapsInv
  BY TypeInit, MapsInit
<1>2. TypeOK /\ MapsInv /\ [Next]_vars => TypeOK' /\ MapsInv'
  BY TypeStep, MapsStep
<1>3. MapsInv => MapsAgree
  BY DEF MapsInv, MapsAgree
<1> QED
  BY <1>1, <1>2, <1>3, PTL DEF Spec
-----------------------------------------------------------------------------
(* The servers do not undo one another's leases *)

\* As long as no lock expired in use and no load failed, one task at most works
\* on the entry, under the lock, and what it has loaded is still the entry.
LockInv ==
    ~disturbed =>
        /\ \A t \in Using : locked /\ holder = {t}
        /\ \A t \in Task : At(t, "store") => task[t].snap = route

\* Nobody starts to use the lock, or to store, in a step that keeps the entry.
LEMMA LockKept ==
    ASSUME LockInv, disturbed' = FALSE => disturbed = FALSE, TypeOK, TypeOK',
           \A t \in Task : task'[t].pc \in {"load", "store"} => task'[t] = task[t],
           UNCHANGED <<route, locked, holder>>
    PROVE  LockInv'
BY DEF LockInv, TypeOK, Using, At

\* What a task that goes on or is done looks like.
LEMMA After ==
    ASSUME TypeOK, NEW t \in Task
    PROVE  /\ Finish(t) => task'[t].pc \notin {"load", "store"}
           /\ \A l : Continue(t, l) => task'[t] = l
           /\ Finish(t) \/ (\E l : Continue(t, l)) =>
                \A u \in Task : u # t => task'[u] = task[u]
BY DEF TypeOK, Finish, Continue, Waiting, Local

\* Steps of tasks that do not use the lock.
LEMMA LockSessions ==
    ASSUME TypeOK, TypeOK', LockInv, NEW t \in Task,
           \/ \E s \in Session : t = s /\ (Register(s) \/ Heartbeat(s) \/ Close(s))
           \/ \E s \in Session : Unregister(t, s)
           \/ RemoveId(t) \/ Touch(t) \/ Query(t) \/ Renew(t)
           \/ ReadIds(t) \/ CountSessions(t) \/ GiveUp(t)
    PROVE  LockInv'
<1>1. UNCHANGED <<route, locked, holder>> /\ disturbed' = disturbed
  BY DEF Register, Heartbeat, Close, Unregister, RemoveId, Touch, Query, Renew,
         ReadIds, CountSessions, GiveUp, redisVars
<1>2. task[t] \in Local
  BY DEF TypeOK
<1>3. task'[t].pc \notin {"load", "store"}
  <2>1. CASE Register(t) \/ Heartbeat(t)
    BY <1>2, <2>1, After DEF Register, Heartbeat, Local
  <2>2. CASE \E s \in Session : Unregister(t, s)
    BY ZenonT(30), <1>2, <2>2, After DEF Unregister, Local
  <2>3. CASE RemoveId(t)
    BY <1>2, <2>3, After DEF RemoveId, Local
  <2>4. CASE Touch(t) \/ Query(t)
    BY <1>2, <2>4, After DEF Touch, Query, Local
  <2>5. CASE Renew(t)
    BY <1>2, <2>5, After DEF Renew, Local
  <2>6. CASE ReadIds(t) \/ CountSessions(t)
    BY <1>2, <2>6, After DEF ReadIds, CountSessions, Local
  <2>7. CASE GiveUp(t)
    BY <2>7, After DEF GiveUp
  <2>8. CASE Close(t)
    <3>1. task'[t] = Waiting(task[t].at, "closed")
      BY <2>8, After DEF Close
    <3> QED
      BY <3>1 DEF Waiting
  <2> QED
    BY <2>1, <2>2, <2>3, <2>4, <2>5, <2>6, <2>7, <2>8
<1>4. \A u \in Task : u # t => task'[u] = task[u]
  BY After DEF Register, Heartbeat, Close, Unregister, RemoveId, Touch, Query, Renew,
         ReadIds, CountSessions, GiveUp
<1> QED
  BY <1>1, <1>3, <1>4, LockKept

\* Steps of tasks that do.
LEMMA LockUsed ==
    ASSUME TypeOK, TypeOK', LockInv, NEW t \in Task,
           Lock(t) \/ Load(t) \/ LoadFails(t) \/ Store(t) \/ StoreFails(t)
    PROVE  LockInv'
<1>1. task[t] \in Local
  BY DEF TypeOK
<1>2. CASE Lock(t)
  <2>1. task'[t].pc = "load" /\ \A u \in Task : u # t => task'[u] = task[u]
    BY <1>1, <1>2, After DEF Lock, Local
  <2>2. ~disturbed => Using = {}
    BY <1>2 DEF Lock, LockInv
  <2> QED
    BY <1>2, <2>1, <2>2 DEF Lock, LockInv, Using, At
<1>3. CASE Load(t)
  <2>1. /\ task'[t].pc = "store" /\ task'[t].snap = route
        /\ \A u \in Task : u # t => task'[u] = task[u]
    BY <1>1, <1>3, After DEF Load, Local
  <2> QED
    BY <1>3, <2>1 DEF Load, LockInv, Using, At, redisVars
<1>4. CASE LoadFails(t)
  BY <1>4 DEF LoadFails, LockInv
<1>5. CASE Store(t)
  <2>1. /\ task'[t].pc \notin {"load", "store"}
        /\ \A u \in Task : u # t => task'[u] = task[u]
    BY <1>5, After DEF Store
  <2>2. ~disturbed => \A u \in Using : u = t
    BY <1>5 DEF Store, LockInv, Using, At
  <2> QED
    BY <1>5, <2>1, <2>2 DEF Store, LockInv, Using, At
<1>6. CASE StoreFails(t)
  <2>1. /\ task'[t].pc \notin {"load", "store"}
        /\ \A u \in Task : u # t => task'[u] = task[u]
    BY <1>6, After DEF StoreFails
  <2> QED
    BY <1>6, <2>1, LockKept DEF StoreFails, redisVars
<1> QED
  BY <1>2, <1>3, <1>4, <1>5, <1>6

LEMMA LockEnvironment ==
    ASSUME TypeOK, TypeOK', LockInv,
           \/ \E t \in Task : Release(t)
           \/ LockExpires \/ LockExpiresInUse
           \/ \E i \in Server : LeaseExpires(i) \/ Crash(i)
    PROVE  LockInv'
<1>1. ASSUME NEW t \in Task, Release(t)
      PROVE  LockInv'
  <2>1. ~disturbed => Using = {}
    BY <1>1 DEF Release, LockInv
  <2> QED
    BY <1>1, <2>1 DEF Release, LockInv, Using, At
<1>2. CASE LockExpires
  <2>1. ~disturbed => Using = {}
    BY <1>2 DEF LockExpires, LockInv
  <2> QED
    BY <1>2, <2>1 DEF LockExpires, LockInv, Using, At
<1>3. CASE LockExpiresInUse
  BY <1>3 DEF LockExpiresInUse, LockInv
<1>4. ASSUME NEW i \in Server, LeaseExpires(i)
      PROVE  LockInv'
  <2>1. \A t \in Task : /\ task[t] \in Local
                        /\ task'[t] = [task[t] EXCEPT !.snap[i] = 0]
    BY <1>4 DEF LeaseExpires, TypeOK
  <2>2. \A t \in Task : /\ task'[t].pc = task[t].pc
                        /\ task'[t].snap = [task[t].snap EXCEPT ![i] = 0]
    BY ZenonT(30), <2>1 DEF Local
  <2> QED
    BY <1>4, <2>2 DEF LeaseExpires, LockInv, Using, At
<1>5. ASSUME NEW i \in Server, Crash(i)
      PROVE  LockInv'
  <2>1. \A t \in Task : task'[t].pc \in {"load", "store"} =>
            task'[t] = task[t] /\ task[t].at # i
    <3> SUFFICES ASSUME NEW t \in Task, task[t].at = i, ~At(t, "idle")
                 PROVE  task'[t].pc \notin {"load", "store"}
      BY <1>5 DEF Crash, At
    <3>1. task'[t] = Waiting(i, IF t \in Session THEN "closed" ELSE "idle")
      BY <1>5 DEF Crash
    <3>2. CASE t \in Session
      BY <3>1, <3>2 DEF Waiting
    <3>3. CASE t \notin Session
      BY <3>1, <3>3 DEF Waiting
    <3> QED
      BY <3>2, <3>3
  <2>2. locked' = locked /\ route' = route /\ disturbed' = disturbed
    BY <1>5 DEF Crash
  <2>3. ASSUME NEW t \in Using', ~disturbed
        PROVE  locked' /\ holder' = {t}
    <3>1. t \in Using /\ task[t].at # i
      BY <2>1 DEF Using
    <3>2. locked /\ holder = {t}
      BY <2>3, <3>1 DEF LockInv
    <3> QED
      BY <1>5, <2>2, <3>1, <3>2 DEF Crash
  <2> QED
    BY <2>1, <2>2, <2>3 DEF LockInv, At
<1> QED
  BY <1>1, <1>2, <1>3, <1>4, <1>5

LEMMA LockStep == TypeOK /\ LockInv /\ [Next]_vars => LockInv'
<1> SUFFICES ASSUME TypeOK, LockInv, [Next]_vars PROVE LockInv'
  OBVIOUS
<1>1. TypeOK'
  BY TypeStep
<1>2. CASE UNCHANGED vars
  BY <1>2 DEF vars, redisVars, LockInv, Using, At
<1>3. ASSUME NEW s \in Session, Register(s) \/ Heartbeat(s) \/ Close(s)
      PROVE  LockInv'
  BY <1>1, <1>3, LockSessions DEF Task
<1>4. ASSUME NEW s \in Session, NEW t \in Worker \cup {s}, Unregister(t, s)
      PROVE  LockInv'
  BY <1>1, <1>4, LockSessions DEF Task
<1>5. CASE \/ \E w \in Worker : Touch(w) \/ Query(w)
           \/ \E i \in Server : Renew(i)
           \/ \E t \in Task : ReadIds(t) \/ CountSessions(t) \/ RemoveId(t) \/ GiveUp(t)
  BY <1>1, <1>5, LockSessions DEF Task
<1>6. CASE \E t \in Task : Lock(t) \/ Load(t) \/ LoadFails(t) \/ Store(t) \/ StoreFails(t)
  BY <1>1, <1>6, LockUsed
<1>7. CASE \/ \E t \in Task : Release(t)
           \/ LockExpires \/ LockExpiresInUse
           \/ \E i \in Server : LeaseExpires(i) \/ Crash(i)
  BY <1>1, <1>7, LockEnvironment
<1> QED
  BY <1>2, <1>3, <1>4, <1>5, <1>6, <1>7 DEF Next, Progress

LEMMA LockInit == Init => LockInv
<1> SUFFICES ASSUME Init PROVE LockInv
  OBVIOUS
<1>1. \A t \in Task : task[t].pc = "idle"
  BY DEF Init, Waiting
<1> QED
  BY <1>1 DEF LockInv, Using, At

\* The task that stores the entry changes the lease of its own server only.
LEMMA StoresOwnLease ==
    ASSUME TypeOK, LockInv, ~disturbed, NEW t \in Task, Store(t),
           NEW i \in Server, route'[i] # route[i]
    PROVE  task[t].at = i /\ task[t].job = "refresh" /\ Stores(t)
<1>1. task[t].snap = route
  BY DEF Store, LockInv
<1>2. route' = Changed(t)
  BY DEF Store
<1>3. task[t].job # "query"
  BY <1>1, <1>2 DEF Changed
<1>4. route' = [route EXCEPT ![task[t].at] = task[t].count]
  BY <1>1, <1>2, <1>3 DEF Changed
<1>5. task[t].at = i /\ task[t].job = "refresh"
  BY <1>3, <1>4 DEF TypeOK, Local
<1>6. Stores(t)
  BY After DEF Store, Stores, At
<1> QED
  BY <1>5, <1>6

\* As long as no lock expires in use and no load fails, a server's lease changes
\* by its own tasks or by expiry only, whatever the others write meanwhile.
THEOREM LeasesIndependent == Spec => ForeignLeasesKept
<1> DEFINE Step ==
        ~disturbed => \A i \in Server : route'[i] # route[i] =>
            \/ \E t \in Task : task[t].at = i /\ task[t].job = "refresh" /\ Stores(t)
            \/ route'[i] = 0 /\ userSessions[i] = {}
<1>1. Init => TypeOK /\ LockInv
  BY TypeInit, LockInit
<1>2. TypeOK /\ LockInv /\ [Next]_vars => TypeOK' /\ LockInv'
  BY TypeStep, LockStep
<1>3. TypeOK /\ LockInv /\ [Next]_vars => [Step]_vars
  <2> SUFFICES ASSUME TypeOK, LockInv, Next, ~disturbed,
                      NEW i \in Server, route'[i] # route[i]
               PROVE  \/ \E t \in Task : /\ task[t].at = i /\ task[t].job = "refresh"
                                         /\ Stores(t)
                      \/ route'[i] = 0 /\ userSessions[i] = {}
    OBVIOUS
  <2>1. (\E t \in Task : Store(t)) \/ (\E j \in Server : LeaseExpires(j))
    BY DEF Next, Progress, Register, Heartbeat, Close, Unregister, Touch, Query,
           Renew, Crash, ReadIds, CountSessions, RemoveId, Load, Lock, GiveUp,
           Release, LoadFails, StoreFails, LockExpires, LockExpiresInUse, redisVars
  <2>2. ASSUME NEW j \in Server, LeaseExpires(j)
        PROVE  route'[i] = 0 /\ userSessions[i] = {}
    BY <2>2 DEF LeaseExpires, TypeOK
  <2> QED
    BY <2>1, <2>2, StoresOwnLease
<1> QED
  BY <1>1, <1>2, <1>3, PTL DEF Spec, ForeignLeasesKept
=============================================================================
