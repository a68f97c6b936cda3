-------------------------- MODULE GroupSenderKeys --------------------------
(***************************************************************************)
(* Members of a group and the sender keys of its end-to-end encryption.    *)
(* Whoever joins or leaves starts a new epoch, so that keys handed out     *)
(* before are of no use: only keys of the newest epoch are returned, and   *)
(* a message must carry it.  A handler is a sequence of statements; only   *)
(* leaving and enabling use a transaction for a part of them.              *)
(***************************************************************************)
EXTENDS Integers, Sequences, FiniteSets

CONSTANTS
    Handler,  \* requests that may overlap
    Owner,    \* the user who created the group, its only administrator
    Guest,    \* users who join and leave
    MaxEpoch, \* bound: epochs
    MaxKeys,  \* bound: stored keys
    MaxFaults \* bound: requests that fail half way

ASSUME GroupKeysAssumption ==
    /\ Owner \notin Guest
    /\ IsFiniteSet(Guest)
    /\ MaxEpoch \in Nat
    /\ MaxKeys \in Nat
    /\ MaxFaults \in Nat

VARIABLES
    member,    \* im_group_member rows with status 1
    count,     \* im_group.member_count
    dismissed, \* im_group.status = 0
    encrypted, \* e2ee_groups.status = 'encrypted'
    epoch,     \* greatest epoch in e2ee_group_epochs, 0 if none
    keys,      \* e2ee_sender_keys
    op,        \* the request each handler has in progress
    faults     \* history: users about whom a request has failed half way

groupVars  == <<member, count, dismissed>>
senderVars == <<groupVars, encrypted, epoch, keys, op, faults>>

Account == Guest \cup {Owner}

\* A request: its next step, who sends keys, about whom it is, the epoch it has
\* read, and (history) who has left the group since its checks.
IdleOp == [kind |-> "none", pc |-> "idle", by |-> Owner, whom |-> {}, epoch |-> 0,
           left |-> {}]

\* The statements of a request after its checks: join_group and
\* add_group_members, ...
JoinSteps == <<"upsert", "status", "read", "insert", "recount">>

\* A fault: the new epoch is started before the member leaves.
LeaveStepsRotatingFirst == <<"status", "read", "insert", "depart", "recount">>

\* ... leave_group, ...
LeaveSteps == <<"depart", "status", "read", "insert", "recount">>

\* ... remove_member_sender_keys, ...
RemoveSteps == <<"status", "read", "insert", "forget">>

\* ... enable_group_encryption, ...
EnableSteps == <<"read", "insert", "encrypt">>

\* ... disable_group_encryption, ...
DisableSteps == <<"status", "read", "insert", "plain", "purge">>

\* ... push_sender_key ...
PushSteps == <<"status", "read", "store">>

\* ... and dismiss_group.
DismissSteps == <<"dismiss", "purge">>

Steps == [join |-> JoinSteps, leave |-> LeaveSteps, remove |-> RemoveSteps,
          enable |-> EnableSteps, disable |-> DisableSteps, push |-> PushSteps,
          dismiss |-> DismissSteps]

\* The group as create_group leaves it.
GroupKeysInit ==
    /\ member = {Owner}
    /\ count = 1
    /\ dismissed = FALSE
    /\ encrypted = FALSE
    /\ epoch = 0
    /\ keys = {}
    /\ op = [h \in Handler |-> IdleOp]
    /\ faults = {}
-----------------------------------------------------------------------------
OpAt(h, pc) == op[h].pc = pc

\* op when a request is through with the statement `pc`, skipping `skipped`.
OpAfter(h, skipped) ==
    LET S    == Steps[op[h].kind]
        now  == CHOOSE n \in DOMAIN S : S[n] = op[h].pc
        rest == {n \in DOMAIN S : n > now /\ S[n] \notin skipped}
    IN [op EXCEPT ![h] = IF rest = {} THEN IdleOp
                         ELSE [@ EXCEPT !.pc = S[CHOOSE n \in rest : \A m \in rest : n =< m]]]

\* Who may do what: the group exists, is owned by or has as its administrator a
\* user, and has some users as its members.
Exists            == ~dismissed
IsOwner(u)        == u = Owner /\ Exists
IsAdmin(u)        == u = Owner /\ u \in member
AreMembers(users) == users \subseteq member

\* The checks each handler makes before its first write.
MayAsk(kind, u, whom) ==
    CASE kind = "join"    -> Exists /\ Cardinality(whom) = 1 /\ (u \in member \/ whom = {u})
      [] kind = "leave"   -> Exists /\ whom = {u}
      [] kind = "remove"  -> Cardinality(whom) = 1 /\ (whom = {u} \/ IsAdmin(u))
      [] kind = "enable"  -> IsAdmin(u) /\ whom = member \ {u}
      [] kind = "disable" -> IsAdmin(u) /\ whom = {}
      [] kind = "push"    -> AreMembers(whom \cup {u}) /\ Cardinality(whom) = 1
      [] kind = "dismiss" -> IsOwner(u) /\ whom = {}

Ask(h, kind, u, whom) ==
    /\ OpAt(h, "idle")
    /\ MayAsk(kind, u, whom)
    /\ whom \cap faults = {} /\ ~dismissed  \* bound: nothing is claimed after these
    /\ op' = [op EXCEPT ![h] =
          [kind |-> kind, pc |-> Steps[kind][1],
           by |-> IF kind \in {"enable", "push"} THEN u ELSE Owner,
           whom |-> whom, epoch |-> 0, left |-> {}]]
    /\ UNCHANGED <<groupVars, encrypted, epoch, keys, faults>>

\* add_group_member
Upsert(h) ==
    /\ OpAt(h, "upsert")
    /\ member' = member \cup op[h].whom
    /\ op' = OpAfter(h, {})
    /\ UNCHANGED <<count, dismissed, encrypted, epoch, keys, faults>>

\* (History) The group turns encrypted in an epoch that has begun already.
Enabling == \E h \in Handler : op[h].kind = "enable"

\* leave_group: one transaction ends the membership and drops the keys the user
\* has sent; those sent to the user are left to the new epoch.
Depart(h) ==
    /\ OpAt(h, "depart")
    /\ member' = member \ op[h].whom
    /\ keys' = {[k EXCEPT !.late = @ \/ (k.to \in op[h].whom /\ Enabling)] :
                    k \in {k \in keys : k.from \notin op[h].whom}}
    /\ op' = [g \in Handler |->
                 IF op[g].kind \in {"push", "enable"}
                 THEN [op[g] EXCEPT !.left = @ \cup (op[h].whom \cap op[g].whom)]
                 ELSE OpAfter(h, {})[g]]
    /\ UNCHANGED <<count, dismissed, encrypted, epoch, faults>>

\* rotate_group_epoch_if_encrypted: nothing to do in a plaintext group;
\* push_sender_key is refused there.
ReadStatus(h) ==
    /\ OpAt(h, "status")
    /\ op' = IF encrypted THEN OpAfter(h, {})
             ELSE IF op[h].kind = "push" THEN [op EXCEPT ![h] = IdleOp]
             ELSE OpAfter(h, {"read", "insert"})
    /\ UNCHANGED <<groupVars, encrypted, epoch, keys, faults>>

\* current_group_epoch: SELECT MAX(epoch)
ReadEpoch(h) ==
    /\ OpAt(h, "read")
    /\ op' = [OpAfter(h, {}) EXCEPT ![h].epoch = epoch]
    /\ UNCHANGED <<groupVars, encrypted, epoch, keys, faults>>

\* next_group_epoch: inserts the number read plus one, or finds it there.
InsertEpoch(h) ==
    /\ OpAt(h, "insert")
    /\ op[h].epoch < MaxEpoch
    /\ epoch' = IF op[h].epoch + 1 > epoch THEN op[h].epoch + 1 ELSE epoch
    /\ op' = OpAfter(h, {})
    /\ UNCHANGED <<groupVars, encrypted, keys, faults>>

\* The keys a request stores; each is for a device of its recipient.
NewKeys(h, e) ==
    {[from |-> op[h].by, to |-> u, device |-> u, epoch |-> e,
      late |-> u \in op[h].left] : u \in op[h].whom}

\* enable_group_encryption, the transaction: the status and the keys.
Encrypt(h) ==
    /\ OpAt(h, "encrypt")
    /\ encrypted' = TRUE
    /\ keys' = keys \cup NewKeys(h, op[h].epoch + 1)
    /\ Cardinality(keys') =< MaxKeys
    /\ op' = OpAfter(h, {})
    /\ UNCHANGED <<groupVars, epoch, faults>>

\* push_sender_key, the insertion.
StoreKey(h) ==
    /\ OpAt(h, "store")
    /\ keys' = keys \cup NewKeys(h, op[h].epoch)
    /\ Cardinality(keys') =< MaxKeys
    /\ op' = OpAfter(h, {})
    /\ UNCHANGED <<groupVars, encrypted, epoch, faults>>

\* remove_member_sender_keys: the keys the user has sent.
Forget(h) ==
    /\ OpAt(h, "forget")
    /\ keys' = {k \in keys : k.from \notin op[h].whom}
    /\ op' = OpAfter(h, {})
    /\ UNCHANGED <<groupVars, encrypted, epoch, faults>>

\* disable_group_encryption: the status, then all keys; dismiss_group ends alike.
Plain(h) ==
    /\ OpAt(h, "plain")
    /\ encrypted' = FALSE
    /\ op' = OpAfter(h, {})
    /\ UNCHANGED <<groupVars, epoch, keys, faults>>

Dismiss(h) ==
    /\ OpAt(h, "dismiss")
    /\ dismissed' = TRUE
    /\ op' = OpAfter(h, {})
    /\ UNCHANGED <<member, count, encrypted, epoch, keys, faults>>

Purge(h) ==
    /\ OpAt(h, "purge")
    /\ keys' = {}
    /\ op' = OpAfter(h, {})
    /\ UNCHANGED <<groupVars, encrypted, epoch, faults>>

\* refresh_group_member_count: one statement counts and writes.
Recount(h) ==
    /\ OpAt(h, "recount")
    /\ count' = Cardinality(member)
    /\ op' = OpAfter(h, {})
    /\ UNCHANGED <<member, dismissed, encrypted, epoch, keys, faults>>

\* A statement fails or the server stops; what was written stays.
FailOp(h) ==
    /\ ~OpAt(h, "idle")
    /\ Cardinality(faults) < MaxFaults
    /\ faults' = faults \cup op[h].whom
    /\ op' = [op EXCEPT ![h] = IdleOp]
    /\ UNCHANGED <<groupVars, encrypted, epoch, keys>>

\* The daily cleanup keeps a key if its device is an active one of the sender.
\* All devices are active here.
CleanSenderKeys ==
    /\ keys' = {k \in keys : k.device = k.from}
    /\ UNCHANGED <<groupVars, encrypted, epoch, op, faults>>

GroupKeysNext ==
    \/ \E h \in Handler, u \in Account, whom \in SUBSET Account, kind \in DOMAIN Steps :
          Ask(h, kind, u, whom)
    \/ \E h \in Handler :
          \/ Upsert(h) \/ Depart(h) \/ ReadStatus(h) \/ ReadEpoch(h) \/ InsertEpoch(h)
          \/ Encrypt(h) \/ StoreKey(h) \/ Forget(h) \/ Plain(h) \/ Dismiss(h)
          \/ Purge(h) \/ Recount(h) \/ FailOp(h)
    \/ CleanSenderKeys

GroupKeysSpec == GroupKeysInit /\ [][GroupKeysNext]_senderVars
-----------------------------------------------------------------------------
\* get_my_sender_keys: what a member is given.
MySenderKeys(u) == {k \in keys : k.to = u /\ k.epoch = epoch}

\* Epochs, users and steps are what they can be, and no key is newer than the
\* newest epoch.
GroupKeysTypeOK ==
    /\ member \subseteq Account
    /\ count \in 0..Cardinality(Account)
    /\ dismissed \in BOOLEAN /\ encrypted \in BOOLEAN
    /\ epoch \in 0..MaxEpoch
    /\ \A k \in keys : k.from \in Account /\ k.to \in Account /\ k.epoch \in 1..epoch

\* Departures and joins leave the group in order, whatever of them, of rotations
\* and of pushes overlaps.  In an encrypted group whoever has left would be given
\* no key of the newest epoch on coming back; except a key from a request that
\* made its checks before the departure, or after a request about the user failed
\* half way.  And the member count is right: each request counts after its own
\* change, so that the last one to count sees them all.
MembershipSettles ==
    /\ \A u \in Account \ (member \cup faults) :
          (encrypted /\ \A h \in Handler : op[h].kind = "leave" => u \notin op[h].whom)
              => \A k \in MySenderKeys(u) : k.late
    /\ (faults = {} /\ \A h \in Handler : op[h].kind \notin {"join", "leave"})
           => count = Cardinality(member)

\* The cleanup removes no key while all devices are active.
CleanupKeepsLiveKeys == [][op' = op => keys' = keys]_senderVars
=============================================================================
