------------------------------ MODULE AutoReply ------------------------------
(***************************************************************************)
(* The automatic replies of two users who write to each other.  A message  *)
(* starts a background job for its receiver; if he has switched replies on *)
(* the job queues a task for the AI service, whose reply is a message too. *)
(* A lock for each receiver and a counter of rounds keep two robots from   *)
(* talking without end.  The switch is a row in MySQL and a copy of it in  *)
(* Redis; who writes himself in an automatic conversation turns his off.   *)
(***************************************************************************)
EXTENDS Integers, FiniteSets

CONSTANTS
    Persona,    \* the two users
    Job,        \* bound: jobs of triggers at one time
    Switching,  \* bound: requests at the switch at one time
    RoundLimit, \* rounds before a pause, 20
    MaxMissed   \* bound: failures to read or write the counter

ASSUME ReplyAssumption ==
    /\ Cardinality(Persona) = 2 /\ IsFiniteSet(Job)
    /\ RoundLimit \in Nat \ {0} /\ MaxMissed \in Nat

VARIABLES
    matter,    \* what this behaviour follows, "switch" or "rounds": a job has done
               \* with the one before it comes to the other
    enabled,   \* auto_reply_enabled of each user
    copied,    \* im:ai:auto_reply:{u}: "none", "fading" if it expires, or "lasting"
    revived,   \* history: the copy was written by somebody who did not know the row
               \* had been turned off, or could not be removed
    reentry,   \* users whose lock against reentry is taken
    rounds,    \* im:ai:rounds:{c}
    streak,    \* history: tasks queued since the counter was last gone
    missed,    \* history: the counter could not be read or written
    job,       \* what each job is doing
    switching  \* what each request at a switch is doing

switchVars == <<matter, enabled, copied, revived, switching>>
roundVars  == <<rounds, streak, missed>>
replyVars  == <<switchVars, roundVars, reentry, job>>

Peer(u) == CHOOSE v \in Persona : v # u

\* A job or a request: its next step, for whom, what it writes, and (history)
\* whether the row has been turned off since it was read or written.
JobFor(pc, u) == [pc |-> pc, user |-> u, on |-> FALSE, old |-> FALSE]
NoJob == JobFor("idle", "nobody")

ReplyInit ==
    /\ matter \in {"switch", "rounds"}
    /\ enabled \in [Persona -> BOOLEAN]
    /\ copied = [u \in Persona |-> "none"] /\ revived = {}
    /\ reentry = {}
    /\ rounds \in IF matter = "switch" THEN {0, 1} ELSE {0}
    /\ streak = 0 /\ missed = 0
    /\ job = [t \in Job |-> NoJob]
    /\ switching = [s \in Switching |-> NoJob]

JobAt(t, pc) == job[t].pc = pc
JobGoes(t, pc) == job' = [job EXCEPT ![t].pc = pc]
JobEnds(t) == job' = [job EXCEPT ![t] = NoJob]
-----------------------------------------------------------------------------
(* Messages.                                                               *)

\* maybe_trigger is spawned for the receiver of a message.
Trigger(u) ==
    \E t \in Job : /\ JobAt(t, "idle")
                   /\ job' = [job EXCEPT ![t] = JobFor("copy", u)]

\* send_private_message by u himself.  If rounds are counted his own replies are
\* to be turned off; an error is taken for no rounds.
WriteOneself(u) ==
    /\ Trigger(Peer(u))
    /\ \/ UNCHANGED switching
       \/ /\ matter = "switch" /\ rounds > 0
          /\ \E s \in Switching :
                /\ switching[s].pc = "idle"
                /\ switching' = [switching EXCEPT ![s] = JobFor("row", u)]
    /\ UNCHANGED <<matter, enabled, copied, revived, roundVars, reentry>>

\* internal_reply: the AI service has done a task of u, which may be any time after
\* it was queued; people write at any time as well.
ReplyArrives(u) ==
    /\ Trigger(Peer(u))
    /\ UNCHANGED <<switchVars, roundVars, reentry>>
-----------------------------------------------------------------------------
(* The switch.                                                             *)

Outdated(r, u, on) ==
    IF r.user = u /\ ~on /\ (r.pc = "refresh" \/ r.on)
    THEN [pc |-> r.pc, user |-> u, on |-> r.on, old |-> TRUE] ELSE r

\* The row is written, and whoever is on the way with what it said before is late.
TurnRow(s, u, on) ==
    /\ enabled' = [enabled EXCEPT ![u] = on]
    /\ switching' = [r \in Switching |->
          IF r = s THEN [pc |-> "copy", user |-> u, on |-> on, old |-> FALSE]
          ELSE Outdated(switching[r], u, on)]
    /\ job' = [t \in Job |-> Outdated(job[t], u, on)]

\* A fault: the copy is not removed with the row.
UpdateRowOnly(s, u, on) ==
    /\ matter = "switch" /\ switching[s].pc = "idle"
    /\ enabled' = [enabled EXCEPT ![u] = on]
    /\ job' = [t \in Job |-> Outdated(job[t], u, on)]
    /\ UNCHANGED <<matter, copied, revived, switching, roundVars, reentry>>

\* update, with the switch among its fields
UpdateSwitch(s, u, on) ==
    /\ matter = "switch" /\ switching[s].pc = "idle"
    /\ TurnRow(s, u, on)
    /\ UNCHANGED <<matter, copied, revived, roundVars, reentry>>

\* What send_private_message spawned: an error of the statement is ignored.
TurnOwnOff(s) ==
    /\ switching[s].pc = "row"
    /\ \/ TurnRow(s, switching[s].user, FALSE)
       \/ /\ switching' = [switching EXCEPT ![s].pc = "copy"]
          /\ UNCHANGED <<matter, enabled, job>>
    /\ UNCHANGED <<matter, copied, revived, roundVars, reentry>>

\* HSET leaves the lifetime of a key as it is.
Set(copy) == IF copy = "none" THEN "lasting" ELSE copy

\* Both then write the copy, or fail to.
WriteCopy(s) ==
    /\ switching[s].pc = "copy"
    /\ LET u == switching[s].user IN
       \/ /\ ~switching[s].on
          /\ copied' = [copied EXCEPT ![u] = "none"]
          /\ revived' = revived \ {u}
       \/ /\ ~switching[s].on
          /\ revived' = revived \cup {u}
          /\ UNCHANGED copied
       \/ /\ switching[s].on
          /\ copied' = [copied EXCEPT ![u] = Set(@)]
          /\ revived' = IF switching[s].old THEN revived \cup {u} ELSE revived
       \/ /\ switching[s].on
          /\ UNCHANGED <<copied, revived>>
    /\ switching' = [switching EXCEPT ![s] = NoJob]
    /\ UNCHANGED <<matter, enabled, roundVars, reentry, job>>

\* A request fails at the row, or the server stops before the copy is written.
SwitchFails(s) ==
    /\ switching[s].pc # "idle"
    /\ switching' = [switching EXCEPT ![s] = NoJob]
    /\ revived' = IF switching[s].pc = "copy" /\ ~switching[s].on
                  THEN revived \cup {switching[s].user} ELSE revived
    /\ UNCHANGED <<matter, enabled, copied, roundVars, reentry, job>>

CopyExpires(u) ==
    /\ copied[u] = "fading"
    /\ copied' = [copied EXCEPT ![u] = "none"]
    /\ revived' = revived \ {u}
    /\ UNCHANGED <<matter, enabled, switching, roundVars, reentry, job>>
-----------------------------------------------------------------------------
(* trigger_if_enabled, the job.                                            *)

\* The switch is on.
Proceed(t) ==
    IF matter = "switch" THEN JobEnds(t)
    ELSE job' = [job EXCEPT ![t] = JobFor("lock", @.user)]

ReadCopy(t) ==
    /\ JobAt(t, "copy")
    /\ IF copied[job[t].user] = "none" THEN JobGoes(t, "row") ELSE Proceed(t)
    /\ UNCHANGED <<switchVars, roundVars, reentry>>

\* check_auto_reply_db
ReadSwitch(t) ==
    /\ JobAt(t, "row")
    /\ IF enabled[job[t].user]
       THEN JobGoes(t, "refresh") ELSE JobEnds(t)
    /\ UNCHANGED <<switchVars, roundVars, reentry>>

\* HSET and EXPIRE, each of which may fail without notice.
RefreshCopy(t) ==
    /\ JobAt(t, "refresh")
    /\ LET u == job[t].user IN
       \/ /\ copied' \in {[copied EXCEPT ![u] = "fading"], [copied EXCEPT ![u] = Set(@)]}
          /\ revived' = IF job[t].old THEN revived \cup {u} ELSE revived
       \/ /\ copied' \in {copied, [copied EXCEPT ![u] = IF @ = "none" THEN @ ELSE "fading"]}
          /\ UNCHANGED revived
    /\ Proceed(t)
    /\ UNCHANGED <<matter, enabled, switching, roundVars, reentry>>

\* SET NX PX: one job at a time for a user, for as long as the key lives.
LockReentry(t) ==
    /\ JobAt(t, "lock")
    /\ reentry' = reentry \cup {job[t].user}
    /\ IF job[t].user \in reentry THEN JobEnds(t) ELSE JobGoes(t, "rounds")
    /\ UNCHANGED <<switchVars, roundVars>>

ReentryExpires(u) ==
    /\ reentry' = reentry \ {u}
    /\ UNCHANGED <<switchVars, roundVars, job>>

\* A fault: the limit is passed before the pause.
PastLimit(n) == n > RoundLimit

AtLimit(n) == n >= RoundLimit

\* GET; an error is taken for a missing counter.
ReadRounds(t) ==
    /\ JobAt(t, "rounds")
    /\ \/ /\ JobGoes(t, IF AtLimit(rounds) THEN "pause" ELSE "queue")
          /\ UNCHANGED missed
       \/ /\ rounds > 0 /\ missed < MaxMissed
          /\ JobGoes(t, "queue")
          /\ missed' = missed + 1
    /\ UNCHANGED <<switchVars, rounds, streak, reentry>>

\* After 20 seconds the counter is deleted, whoever has counted meanwhile.
RestartRounds(t) ==
    /\ JobAt(t, "pause")
    /\ rounds' = 0 /\ streak' = 0
    /\ JobGoes(t, "queue")
    /\ UNCHANGED <<switchVars, missed, reentry>>

\* enqueue_task, after persona and key of the user have been found
QueueTask(t) ==
    /\ JobAt(t, "queue")
    /\ streak' = streak + 1
    /\ JobGoes(t, "count")
    /\ UNCHANGED <<switchVars, rounds, missed, reentry>>

\* INCR, which may bring a counter back that has just been deleted.
CountRound(t) ==
    /\ JobAt(t, "count")
    /\ rounds' = rounds + 1
    /\ JobEnds(t)
    /\ UNCHANGED <<switchVars, streak, missed, reentry>>

\* Any command fails, or the user has no key: the job is over.
JobFails(t) ==
    /\ ~JobAt(t, "idle")
    /\ missed' = IF JobAt(t, "count") THEN missed + 1 ELSE missed
    /\ missed' =< MaxMissed
    /\ JobEnds(t)
    /\ UNCHANGED <<switchVars, rounds, streak, reentry>>

\* The counter lives for 20 seconds after it was last counted up.
RoundsExpire ==
    /\ rounds > 0
    /\ rounds' = 0 /\ streak' = 0
    /\ UNCHANGED <<switchVars, missed, reentry, job>>

ReplyNext ==
    \/ \E u \in Persona :
          \/ WriteOneself(u) \/ ReplyArrives(u)
          \/ CopyExpires(u) \/ ReentryExpires(u)
    \/ \E s \in Switching :
          \/ TurnOwnOff(s) \/ WriteCopy(s) \/ SwitchFails(s)
          \/ \E u \in Persona, on \in BOOLEAN : UpdateSwitch(s, u, on)
    \/ \E t \in Job :
          \/ ReadCopy(t) \/ ReadSwitch(t) \/ RefreshCopy(t) \/ LockReentry(t)
          \/ ReadRounds(t) \/ RestartRounds(t) \/ QueueTask(t) \/ CountRound(t) \/ JobFails(t)
    \/ RoundsExpire

ReplySpec == ReplyInit /\ [][ReplyNext]_replyVars
-----------------------------------------------------------------------------
\* The counter counts what was queued.
ReplyTypeOK ==
    /\ copied \in [Persona -> {"none", "fading", "lasting"}]
    /\ reentry \subseteq Persona /\ revived \subseteq Persona
    /\ rounds \in Nat /\ missed \in 0..MaxMissed

\* Between two restarts of the counter no more tasks are queued than the limit
\* allows and jobs that overlap can add, one each: every job counts after it has
\* queued, and reads before, so that the last of them may read what is too low.
RobotsPause == streak =< RoundLimit - 1 + Cardinality(Job) + missed

\* The copy does not say that replies are on when the row says they are off, but
\* for the moment between the two writes of the one who turns them off; unless a
\* job or request that had read or written the row before that was late, or the
\* copy could not be removed.  The order of the writes alone does not do it.
OffMeansOff ==
    \A u \in Persona :
        copied[u] = "none" \/ enabled[u] \/ u \in revived
        \/ \E s \in Switching : /\ switching[s].pc = "copy" /\ switching[s].user = u
                                 /\ ~switching[s].on
=============================================================================
