---------------------------- MODULE AccessCaches ----------------------------
(***************************************************************************)
(* The caches in front of the permission checks: each api-server keeps     *)
(* answers in memory, all of them share Redis, and behind it is MySQL.     *)
(* The module follows one relation (user A is a friend of B, is a member   *)
(* of group G, is active, is among the members a push goes to).  Friends   *)
(* are loaded all at once, and a marker says that this has been done.      *)
(*                                                                         *)
(* A tick of the clock is the shortest lifetime of an entry; requests are  *)
(* short beside it, so that time passes only between requests.             *)
(***************************************************************************)
EXTENDS Integers

CONSTANTS
    Api,           \* api-server processes
    LocalTtl,      \* POSITIVE_TTL of the memory cache, in ticks
    LocalShortTtl, \* NEGATIVE_TTL
    RedisTtl,      \* VALIDATION_CACHE_TTL_SECONDS, FRIEND_CACHE_TTL_SECONDS
    RedisShortTtl  \* VALIDATION_NEGATIVE_CACHE_TTL_SECONDS

\* In the code 60 s and 10 s in memory, 300 s and 60 s in Redis.
ASSUME CachesAssumption ==
    /\ {LocalTtl, LocalShortTtl, RedisTtl, RedisShortTtl} \subseteq Nat \ {0}
    /\ LocalShortTtl =< LocalTtl /\ RedisShortTtl =< RedisTtl
    /\ LocalTtl =< RedisTtl /\ LocalShortTtl + RedisShortTtl =< RedisTtl

VARIABLES
    kind,    \* which relation this behaviour is about
    related, \* the row in MySQL
    since,   \* history: ticks since the relation last had each value
    shared,  \* the entry in Redis
    memory,  \* the entry of each process
    marker,  \* ticks the friend_preload marker of each process has left
    check,   \* the check each process has in progress, at most one by key_lock
    change,  \* the request each process has in progress that changes the relation
    oldest   \* history: age of the oldest answer given

cacheVars == <<kind, related, since, shared, memory, marker, check, change, oldest>>

\* No answer should be older than one lifetime in Redis and one in memory.
MaxAge == RedisTtl + LocalTtl

\* "1" and "0" in Redis.
Truth == {"yes", "no"}
Opposite(value) == IF value = "yes" THEN "no" ELSE "yes"

Missing == [left |-> 0, value |-> "no"]
Entry(value, ttl) == [left |-> ttl, value |-> value]
Known(entry) == entry.left > 0

\* Lists of members are kept for the long time whatever is in them.
Long(value) == value = "yes" \/ kind = "list"

LocalEntry(value) == Entry(value, IF Long(value) THEN LocalTtl ELSE LocalShortTtl)
RedisEntry(value) == Entry(value, IF Long(value) THEN RedisTtl ELSE RedisShortTtl)

\* Where the writers of a relation know of the caches.
WritersCache == kind = "friend"

CachesInit ==
    /\ kind \in {"friend", "member", "active", "list"}
    /\ related \in Truth
    /\ since = [v \in Truth |-> IF v = related THEN 0 ELSE MaxAge + 1]
    /\ shared = Missing
    /\ memory = [s \in Api |-> Missing]
    /\ marker = [s \in Api |-> 0]
    /\ check = [s \in Api |-> "none"]
    /\ change = [s \in Api |-> "none"]
    /\ oldest = 0
-----------------------------------------------------------------------------
\* The answer `value` is given: it is as old as the relation's last such value.
Answer(value) == oldest' = IF since[value] > oldest THEN since[value] ELSE oldest

\* validate_friend, validate_group_member, cached_resolve_active_*,
\* load_group_members_cached: the memory answers, before or under the lock.
AnswerFromMemory(s) ==
    /\ check[s] \in {"none", "locked"}
    /\ Known(memory[s])
    /\ Answer(memory[s].value)
    /\ check' = [check EXCEPT ![s] = "none"]
    /\ UNCHANGED <<kind, related, since, shared, memory, marker, change>>

LockKey(s) ==
    /\ check[s] = "none"
    /\ ~Known(memory[s])
    /\ check' = [check EXCEPT ![s] = "locked"]
    /\ UNCHANGED <<kind, related, since, shared, memory, marker, change, oldest>>

\* A fault: reading an entry prolongs its life in Redis.
AnswerFromRedisRefreshing(s) ==
    /\ check[s] = "locked" /\ ~Known(memory[s])
    /\ Known(shared)
    /\ memory' = [memory EXCEPT ![s] = LocalEntry(shared.value)]
    /\ shared' = RedisEntry(shared.value)
    /\ Answer(shared.value)
    /\ check' = [check EXCEPT ![s] = "none"]
    /\ UNCHANGED <<kind, related, since, marker, change>>

\* read_cached_bool, read_cached_i64_option: an entry of Redis starts a new life
\* in memory.
AnswerFromRedis(s) ==
    /\ check[s] = "locked" /\ ~Known(memory[s])
    /\ Known(shared)
    /\ memory' = [memory EXCEPT ![s] = LocalEntry(shared.value)]
    /\ Answer(shared.value)
    /\ check' = [check EXCEPT ![s] = "none"]
    /\ UNCHANGED <<kind, related, since, shared, marker, change>>

\* preload_friend_relations, friends loaded shortly before: who is not in Redis
\* now is no friend.
AnswerFromMarker(s) ==
    /\ check[s] = "locked" /\ ~Known(memory[s])
    /\ ~Known(shared)
    /\ kind = "friend" /\ marker[s] > 0
    /\ memory' = [memory EXCEPT ![s] = LocalEntry("no")]
    /\ shared' = RedisEntry("no")
    /\ Answer("no")
    /\ check' = [check EXCEPT ![s] = "none"]
    /\ UNCHANGED <<kind, related, since, marker, change>>

\* The query; its result is stored and answered in the next step.
QueryRelation(s) ==
    /\ check[s] = "locked" /\ ~Known(memory[s])
    /\ ~Known(shared)
    /\ kind = "friend" => marker[s] = 0
    /\ check' = [check EXCEPT ![s] = related]
    /\ UNCHANGED <<kind, related, since, shared, memory, marker, change, oldest>>

\* write_cached_bool, write_cached_i64_option, and the pipeline of the preload.
StoreAnswer(s) ==
    /\ check[s] \in Truth
    /\ memory' = [memory EXCEPT ![s] = LocalEntry(check[s])]
    /\ shared' = RedisEntry(check[s])
    /\ Answer(check[s])
    /\ marker' = IF kind = "friend" THEN [marker EXCEPT ![s] = LocalTtl] ELSE marker
    /\ check' = [check EXCEPT ![s] = "none"]
    /\ UNCHANGED <<kind, related, since, change>>

\* batch_validate_mentioned_members: asks the database for all members
\* mentioned, without the lock.  The members found are cached.
BeginMention(s) ==
    /\ kind = "member"
    /\ change[s] = "none"
    /\ related = "yes"
    /\ change' = [change EXCEPT ![s] = "mention"]
    /\ UNCHANGED <<kind, related, since, shared, memory, marker, check, oldest>>

\* add_friend between friends: the query, and then the answer goes to the caches.
BeginRepeatedAdd(s) ==
    /\ kind = "friend"
    /\ change[s] = "none"
    /\ related = "yes"
    /\ change' = [change EXCEPT ![s] = "add"]
    /\ UNCHANGED <<kind, related, since, shared, memory, marker, check, oldest>>

\* The row changes: accept_friend and remove_friend, which go on to the caches;
\* joining, leaving, and deleting an account, which do not know of them.
ChangeRow(s) ==
    /\ change[s] = "none"
    /\ related' = Opposite(related)
    /\ since' = [since EXCEPT ![Opposite(related)] = 0]
    /\ change' = IF WritersCache
                 THEN [change EXCEPT ![s] = IF related = "yes" THEN "remove" ELSE "accept"]
                 ELSE change
    /\ UNCHANGED <<kind, shared, memory, marker, check, oldest>>

\* cache_friendship writes memory and Redis for the long time, whatever it is.
CacheRelation(s) ==
    /\ change[s] # "none"
    /\ LET value == IF change[s] = "remove" THEN "no" ELSE "yes" IN
       /\ memory' = [memory EXCEPT ![s] = LocalEntry(value)]
       /\ shared' = Entry(value, RedisTtl)
    /\ change' = [change EXCEPT ![s] = "none"]
    /\ UNCHANGED <<kind, related, since, marker, check, oldest>>

\* The process stops before it has written the caches, and starts again empty.
RestartApi(s) ==
    /\ memory' = [memory EXCEPT ![s] = Missing]
    /\ marker' = [marker EXCEPT ![s] = 0]
    /\ check' = [check EXCEPT ![s] = "none"]
    /\ change' = [change EXCEPT ![s] = "none"]
    /\ UNCHANGED <<kind, related, since, shared, oldest>>

Older(entry) == IF entry.left =< 1 THEN Missing ELSE Entry(entry.value, entry.left - 1)

\* No request is in progress while time passes.
CacheTick ==
    /\ \A s \in Api : check[s] = "none" /\ change[s] = "none"
    /\ since' = [v \in Truth |->
                    IF v = related \/ since[v] > MaxAge THEN since[v] ELSE since[v] + 1]
    /\ shared' = Older(shared)
    /\ memory' = [s \in Api |-> Older(memory[s])]
    /\ marker' = [s \in Api |-> IF marker[s] > 0 THEN marker[s] - 1 ELSE 0]
    /\ UNCHANGED <<kind, related, check, change, oldest>>

CachesNext ==
    \/ \E s \in Api :
          \/ AnswerFromMemory(s) \/ LockKey(s) \/ AnswerFromRedis(s) \/ AnswerFromMarker(s)
          \/ QueryRelation(s) \/ StoreAnswer(s) \/ BeginMention(s) \/ BeginRepeatedAdd(s)
          \/ ChangeRow(s) \/ CacheRelation(s) \/ RestartApi(s)
    \/ CacheTick

CachesSpec == CachesInit /\ [][CachesNext]_cacheVars
-----------------------------------------------------------------------------
\* Entries live no longer than they may.
CachesTypeOK ==
    /\ related \in Truth
    /\ since \in [Truth -> 0..(MaxAge + 1)]
    /\ shared.left \in 0..RedisTtl /\ shared.value \in Truth
    /\ \A s \in Api : /\ memory[s].left \in 0..LocalTtl
                      /\ memory[s].value \in Truth
                      /\ marker[s] \in 0..LocalTtl
                      /\ check[s] \in {"none", "locked"} \cup Truth
                      /\ change[s] \in {"none", "mention", "add", "remove", "accept"}

\* Every check answers what the database said not longer ago than one lifetime in
\* Redis and one in memory: copies of copies, markers, writers that lose a race
\* or stop half way, and relations nobody invalidates make it no older.
AnswersAreRecent == oldest =< MaxAge
=============================================================================
