---------------------------- MODULE PreKeyClaims ----------------------------
(***************************************************************************)
(* The pre-key bundle of one device: the public keys it uploads and the    *)
(* pool of one-time pre-keys that other devices claim to start a           *)
(* conversation with it.  Requests run concurrently; what runs inside one  *)
(* database transaction is one step, any other statement is its own step.  *)
(***************************************************************************)
EXTENDS Integers, FiniteSets

CONSTANTS
    KeyClient,   \* requests for the bundle that may overlap
    Combination, \* what a claim is unique for: requester, its device, conversation
    PreKey,      \* ids the device gives its one-time pre-keys
    MaxBatch,    \* MAX_ONE_TIME_KEYS
    MaxUploads,  \* bound: uploads of the whole bundle
    MaxCopies    \* bound: how often the device sends one key

ASSUME KeysAssumption ==
    /\ MaxBatch \in Nat
    /\ MaxUploads \in Nat \ {0}
    /\ MaxCopies \in Nat

VARIABLES
    active,   \* e2ee_devices.status = 'active'
    gen,      \* number of the upload the identity and signed pre-key are from
    sent,     \* history: how often each key of that upload has been inserted
    pool,     \* rows of e2ee_one_time_pre_keys
    consumed, \* ... those marked consumed
    claims,   \* e2ee_pre_key_claims
    fetch,    \* get_bundle of each client
    handed,   \* history: which row was taken from the pool for whom
    answer    \* history: the last answered bundle

deviceVars  == <<active, gen, sent>>
poolVars    == <<pool, consumed>>
answerVars  == <<handed, answer>>
keysVars    == <<deviceVars, poolVars, claims, fetch, answerVars>>

\* A claim on no key: the signed pre-key has to do.
Fallback == [gen |-> 0, key |-> "none", copy |-> 0]
NoClaim  == [gen |-> -1, key |-> "none", copy |-> 0]
IdleFetch == [pc |-> "idle", who |-> "none", gen |-> 0, retried |-> FALSE,
              row |-> NoClaim, overtaken |-> FALSE]

\* What opk_status and refill_opk count.
Unconsumed == pool \ consumed

\* Not too many keys, all different, and exactly one signature for each.
ValidEntries(keys, signed) == Cardinality(keys) =< MaxBatch /\ signed = keys

\* Every insertion makes a row of its own, whatever key it holds.
NewRows(keys, g, copies) ==
    {[gen |-> g, key |-> k, copy |-> copies[k] + 1] : k \in keys}

KeysInit ==
    /\ active = TRUE
    /\ gen = 1
    /\ sent = [k \in PreKey |-> 0]
    /\ pool = {}
    /\ consumed = {}
    /\ claims = [w \in Combination |-> NoClaim]
    /\ fetch = [c \in KeyClient |-> IdleFetch]
    /\ handed = {}
    /\ answer = [gen |-> 0, row |-> Fallback, overtaken |-> FALSE]
-----------------------------------------------------------------------------
(* The owner of the device *)

NoCopies == [k \in PreKey |-> 0]
Counted(keys, copies) == [k \in PreKey |-> copies[k] + IF k \in keys THEN 1 ELSE 0]

\* A fault: the keys of the last upload stay.
PoolKept(new) == pool \cup new

\* What an upload leaves in the pool: its own keys.
PoolAfterUpload(new) == new

\* upload_bundle: one transaction writes the device, drops its one-time pre-keys
\* and the claims on them, and inserts the new keys.
Upload(keys, signed) ==
    /\ ValidEntries(keys, signed)
    /\ gen < MaxUploads
    /\ active' = TRUE
    /\ gen' = gen + 1
    /\ sent' = Counted(keys, NoCopies)
    /\ pool' = PoolAfterUpload(NewRows(keys, gen + 1, NoCopies))
    /\ consumed' = consumed \cap pool'
    /\ claims' = [w \in Combination |-> NoClaim]
    /\ fetch' = [c \in KeyClient |-> IF fetch[c].pc = "idle" THEN fetch[c]
                                     ELSE [fetch[c] EXCEPT !.overtaken = TRUE]]
    /\ UNCHANGED answerVars

\* refill_opk: adds keys.  Nothing tells a new batch from one the device sends
\* once more because it has seen no answer.
Refill(keys, signed) ==
    /\ active
    /\ ValidEntries(keys, signed)
    /\ \A k \in keys : sent[k] < MaxCopies
    /\ pool' = pool \cup NewRows(keys, gen, sent)
    /\ sent' = Counted(keys, sent)
    /\ UNCHANGED <<active, gen, consumed, claims, fetch, answerVars>>

\* delete_device: the device and its one-time pre-keys go, the claims stay.
DeleteDevice ==
    /\ active
    /\ active' = FALSE
    /\ pool' = {}
    /\ consumed' = {}
    /\ UNCHANGED <<gen, sent, claims, fetch, answerVars>>

\* delete_expired_opk and the daily cleanup: consumed keys of a certain age go.
DeleteExpired ==
    /\ \E r \in consumed : pool' = pool \ {r} /\ consumed' = consumed \ {r}
    /\ UNCHANGED <<deviceVars, claims, fetch, answerVars>>

\* The daily cleanup deletes a device without a heartbeat for 30 days, ...
CleanDevice ==
    /\ active
    /\ active' = FALSE
    /\ UNCHANGED <<gen, sent, poolVars, claims, fetch, answerVars>>

\* ... then the one-time pre-keys of devices that are not active, ...
CleanOrphans ==
    /\ ~active
    /\ pool # {}
    /\ pool' = {}
    /\ consumed' = {}
    /\ UNCHANGED <<deviceVars, claims, fetch, answerVars>>

\* ... and claims of a certain age.
CleanClaim(who) ==
    /\ claims[who] # NoClaim
    /\ claims' = [claims EXCEPT ![who] = NoClaim]
    /\ UNCHANGED <<deviceVars, poolVars, fetch, answerVars>>
-----------------------------------------------------------------------------
(* get_bundle *)

FetchAt(c, pc)   == fetch[c].pc = pc
FetchGoto(c, pc) == fetch' = [fetch EXCEPT ![c].pc = pc]

\* Reads the device, outside any transaction; 404 if it is not active.
ReadDevice(c, who) ==
    /\ FetchAt(c, "idle")
    /\ active
    /\ fetch' = [fetch EXCEPT ![c] =
          [IdleFetch EXCEPT !.pc = "check", !.who = who, !.gen = gen]]
    /\ UNCHANGED <<deviceVars, poolVars, claims, answerVars>>

\* Both users are members of the conversation (as they are here), both devices
\* are theirs and active.
MayFetch == active

\* The checks of a request, after the device has been read, or 403.
CheckFetch(c) ==
    /\ FetchAt(c, "check")
    /\ fetch' = [fetch EXCEPT ![c] = IF MayFetch THEN [@ EXCEPT !.pc = "claim"]
                                               ELSE IdleFetch]
    /\ UNCHANGED <<deviceVars, poolVars, claims, answerVars>>

AnswerBundle(c, row) ==
    /\ answer' = [gen |-> fetch[c].gen, row |-> row, overtaken |-> fetch[c].overtaken]
    /\ fetch' = [fetch EXCEPT ![c] = IdleFetch]

\* A fault: the key is not marked.
MarkNothing(r) == consumed

\* The key is marked.
MarkConsumed(r) == consumed \cup {r}

\* A transaction inserts the claim, marks a key consumed and notes it in the
\* claim.
ClaimKey(c) ==
    /\ FetchAt(c, "claim")
    /\ claims[fetch[c].who] = NoClaim
    /\ \E r \in Unconsumed :
          /\ claims' = [claims EXCEPT ![fetch[c].who] = r]
          /\ consumed' = MarkConsumed(r)
          /\ handed' = handed \cup {[row |-> r, who |-> fetch[c].who]}
          /\ AnswerBundle(c, r)
    /\ UNCHANGED <<deviceVars, pool>>

\* ... or leaves the claim empty when no key is left.
ClaimNothing(c) ==
    /\ FetchAt(c, "claim")
    /\ claims[fetch[c].who] = NoClaim
    /\ Unconsumed = {}
    /\ claims' = [claims EXCEPT ![fetch[c].who] = Fallback]
    /\ AnswerBundle(c, Fallback)
    /\ UNCHANGED <<deviceVars, poolVars, handed>>

\* The insertion hits the unique key and is rolled back.
ClaimExists(c) ==
    /\ FetchAt(c, "claim")
    /\ claims[fetch[c].who] # NoClaim
    /\ FetchGoto(c, "reread")
    /\ UNCHANGED <<deviceVars, poolVars, claims, answerVars>>

\* Reads the claim.  One without a key is the answer, as is none at all, when
\* the claim has gone since.
RereadClaim(c) ==
    /\ FetchAt(c, "reread")
    /\ LET claim == claims[fetch[c].who]
       IN \/ claim \in {NoClaim, Fallback} /\ AnswerBundle(c, Fallback)
          \/ /\ claim \notin {NoClaim, Fallback}
             /\ fetch' = [fetch EXCEPT ![c].pc = "verify", ![c].row = claim]
             /\ UNCHANGED answer
    /\ UNCHANGED <<deviceVars, poolVars, claims, handed>>

\* The claim is the answer if the row of its key is still there.
VerifyClaim(c) ==
    /\ FetchAt(c, "verify")
    /\ IF fetch[c].row \in pool
       THEN AnswerBundle(c, fetch[c].row)
       ELSE FetchGoto(c, "drop") /\ UNCHANGED answer
    /\ UNCHANGED <<deviceVars, poolVars, claims, handed>>

\* It is stale: whatever claim is there now is deleted, for a single retry.
DropStaleClaim(c) ==
    /\ FetchAt(c, "drop")
    /\ claims' = [claims EXCEPT ![fetch[c].who] = NoClaim]
    /\ fetch' = [fetch EXCEPT ![c] =
          IF @.retried THEN IdleFetch
          ELSE [@ EXCEPT !.pc = "claim", !.retried = TRUE, !.row = NoClaim]]
    /\ UNCHANGED <<deviceVars, poolVars, answerVars>>

\* A statement fails, or the server stops.
AbortFetch(c) ==
    /\ ~FetchAt(c, "idle")
    /\ fetch' = [fetch EXCEPT ![c] = IdleFetch]
    /\ UNCHANGED <<deviceVars, poolVars, claims, answerVars>>

KeysNext ==
    \/ \E keys \in SUBSET PreKey, signed \in SUBSET PreKey :
          Upload(keys, signed) \/ Refill(keys, signed)
    \/ DeleteDevice \/ DeleteExpired \/ CleanDevice \/ CleanOrphans
    \/ \E w \in Combination : CleanClaim(w)
    \/ \E c \in KeyClient, w \in Combination : ReadDevice(c, w)
    \/ \E c \in KeyClient :
          \/ CheckFetch(c) \/ ClaimKey(c) \/ ClaimNothing(c) \/ ClaimExists(c)
          \/ RereadClaim(c) \/ VerifyClaim(c) \/ DropStaleClaim(c) \/ AbortFetch(c)

KeysSpec == KeysInit /\ [][KeysNext]_keysVars
-----------------------------------------------------------------------------
KeyRow == [gen : 1..MaxUploads, key : PreKey, copy : 1..MaxCopies + 1]

\* Rows, claims and requests hold what the columns and locals can hold, and only
\* rows that are there are marked consumed.
KeysTypeOK ==
    /\ active \in BOOLEAN
    /\ gen \in 1..MaxUploads
    /\ pool \subseteq KeyRow
    /\ consumed \subseteq pool
    /\ claims \in [Combination -> KeyRow \cup {Fallback, NoClaim}]
    /\ \A c \in KeyClient : fetch[c].row \in KeyRow \cup {Fallback, NoClaim}

\* A one-time pre-key is handed to one requester and conversation at most, even
\* if claims of several run together with stale claims, cleanup and new uploads.
OtkHandedOnce ==
    \A h \in handed, i \in handed : h.row = i.row => h.who = i.who

\* The one-time pre-key of an answer belongs to the signed pre-key of the same
\* answer unless the device has uploaded a new bundle during the request: the
\* device was read before, and outside, the transaction that claims the key.
AnswerIsCoherent ==
    answer.row = Fallback \/ answer.row.gen = answer.gen \/ answer.overtaken
=============================================================================
