---------------------------- MODULE E2eeSessions ----------------------------
(***************************************************************************)
(* Turning end-to-end encryption on and off in a private chat, and the     *)
(* check every message of the chat passes.  A request of the negotiation   *)
(* loads the row, decides, writes, loads the row again and pushes what it  *)
(* finds to the other user, without a transaction around it.  A row exists *)
(* per spelling of the session id: p_1_2 and p_2_1 are both accepted.      *)
(***************************************************************************)
EXTENDS Integers, FiniteSets

CONSTANTS
    Caller,     \* requests that may overlap
    Alice, Bob, \* the two users
    Stranger,   \* any other user
    Session,    \* spellings of the session id
    Canonical,  \* the one the message service uses
    MaxVersion, \* bound: changes of a row
    MaxRotation \* bound: epochs of the session metadata

ASSUME SessionAssumption ==
    /\ Alice # Bob
    /\ Stranger \notin {Alice, Bob}
    /\ Canonical \in Session
    /\ MaxVersion \in Nat
    /\ MaxRotation \in Nat

VARIABLES
    row,      \* e2ee_sessions, by session id
    meta,     \* epoch of the chat in e2ee_conversation_sessions, 0 for no row
    req,      \* the request each caller has in progress
    told,     \* the newest version told to a user, by session id
    lost,     \* history: session ids with a change nobody was told of
    answered, \* history: the answers to requests for encryption
    posted    \* history: the last message posted

negoVars == <<row, meta, req, told, lost, answered, posted>>

User    == {Alice, Bob}
Peer(u) == IF u = Alice THEN Bob ELSE Alice

NoRow   == [status |-> "none", requester |-> Alice, payload |-> FALSE,
            version |-> 0, asked |-> 0]
IdleReq == [kind |-> "none", pc |-> "idle", user |-> Alice, id |-> Canonical,
            seen |-> NoRow, plain |-> FALSE]

\* The answers and changes a user may ask for, and sending a message.
Change == {"request", "accept", "reject", "disable"}

NegoInit ==
    /\ row = [s \in Session |-> NoRow]
    /\ meta = 0
    /\ req = [c \in Caller |-> IdleReq]
    /\ told = [s \in Session |-> 0]
    /\ lost = {}
    /\ answered = {}
    /\ posted = [encrypted |-> FALSE, plain |-> TRUE]
-----------------------------------------------------------------------------
ReqAt(c, kinds, pc) == req[c].kind \in kinds /\ req[c].pc = pc
ReqGoto(c, pc)      == req' = [req EXCEPT ![c].pc = pc]
ReqEnds(c)          == req' = [req EXCEPT ![c] = IdleReq]

\* A participant asks for a change.  (A request that is refused at once, because
\* the users are not friends, changes nothing and is left out.)
AskChange(c, kind, u, s) ==
    /\ ReqAt(c, {"none"}, "idle")
    /\ req' = [req EXCEPT ![c] =
          [IdleReq EXCEPT !.kind = kind, !.pc = "load", !.user = u, !.id = s]]
    /\ UNCHANGED <<row, meta, told, lost, answered, posted>>

\* request_encryption is for a session that is neither encrypted nor asked for by
\* the other user.
MayRequest(u, r) ==
    \/ r.status \in {"none", "rejected", "plaintext"}
    \/ r.status = "pending" /\ r.requester = u

\* accept_encryption and reject_encryption are for the target of a request.
MayAnswer(u, r) == r.status = "pending" /\ r.requester # u

\* What the row loaded first allows; disable_encryption is always allowed.
Allowed(kind, u, r) ==
    CASE kind = "request"              -> MayRequest(u, r)
      [] kind \in {"accept", "reject"} -> MayAnswer(u, r)
      [] kind = "disable"              -> TRUE

\* Disabling a plaintext session writes nothing and only tells the other user.
AfterLoad(kind, r) ==
    IF kind = "disable" /\ r.status = "plaintext" THEN "push" ELSE "write"

\* Loads the row and refuses, or goes on.
LoadRow(c) ==
    /\ ReqAt(c, Change, "load")
    /\ LET r == row[req[c].id]
       IN IF Allowed(req[c].kind, req[c].user, r)
          THEN req' = [req EXCEPT ![c].pc = AfterLoad(req[c].kind, r), ![c].seen = r]
          ELSE ReqEnds(c)
    /\ UNCHANGED <<row, meta, told, lost, answered, posted>>

\* A fault: the version that was loaded, plus one.
LoadedVersion(c) == req[c].seen.version + 1

\* The version a change writes: the row's own plus one, whatever was loaded.
NextVersion(c) == row[req[c].id].version + 1

\* A session that is not encrypted for a moment is so for every send under way.
NoteSends(s, r) ==
    [d \in Caller |-> IF req[d].kind = "send" /\ s = Canonical /\ r.status # "encrypted"
                      THEN [req[d] EXCEPT !.plain = TRUE] ELSE req[d]]

WriteRow(c, r) ==
    /\ row' = [row EXCEPT ![req[c].id] = r]
    /\ req' = [NoteSends(req[c].id, r) EXCEPT ![c].pc = "reload"]

\* request_encryption: the same requester only replaces the payload; otherwise
\* the row becomes a new request, whatever its status is by now.
WriteRequest(c) ==
    /\ ReqAt(c, {"request"}, "write")
    /\ row[req[c].id].version < MaxVersion
    /\ LET s == req[c].id
       IN CASE req[c].seen.status = "pending" ->
                  WriteRow(c, [row[s] EXCEPT !.payload = TRUE])
            [] req[c].seen.status = "none" /\ row[s] # NoRow -> \* duplicate key
                  ReqEnds(c) /\ UNCHANGED row
            [] OTHER ->
                  WriteRow(c, [status |-> "pending", requester |-> req[c].user,
                               payload |-> TRUE, version |-> NextVersion(c),
                               asked |-> NextVersion(c)])
    /\ UNCHANGED <<meta, told, lost, answered, posted>>

\* A fault: ... whatever the status is.
AnyStatus(s) == TRUE

\* UPDATE ... WHERE status = 'pending'
StillPending(s) == row[s].status = "pending"

\* An answer to the request that is pending by now, if one is.
WriteAnswer(c, verdict) ==
    /\ row[req[c].id].version < MaxVersion
    /\ LET s == req[c].id
       IN IF StillPending(s)
          THEN /\ WriteRow(c, [row[s] EXCEPT !.status = verdict,
                                             !.version = NextVersion(c)])
               /\ answered' = answered \cup
                     {[id |-> s, asked |-> row[s].asked, verdict |-> verdict]}
          ELSE ReqEnds(c) /\ UNCHANGED <<row, answered>>
    /\ UNCHANGED <<meta, told, lost, posted>>

\* accept_encryption
WriteAccept(c) == ReqAt(c, {"accept"}, "write") /\ WriteAnswer(c, "encrypted")

\* reject_encryption
WriteReject(c) == ReqAt(c, {"reject"}, "write") /\ WriteAnswer(c, "rejected")

\* disable_encryption
WriteDisable(c) ==
    /\ ReqAt(c, {"disable"}, "write")
    /\ row[req[c].id].version < MaxVersion
    /\ LET s == req[c].id
       IN IF req[c].seen.status = "none" /\ row[s] # NoRow \* duplicate key
          THEN ReqEnds(c) /\ UNCHANGED row
          ELSE WriteRow(c, [status |-> "plaintext", payload |-> FALSE,
                            requester |-> IF row[s] = NoRow THEN req[c].user
                                          ELSE row[s].requester,
                            version |-> NextVersion(c), asked |-> row[s].asked])
    /\ UNCHANGED <<meta, told, lost, answered, posted>>

\* A fault: computed from the row loaded before.
VersionFromLoad(c) == req[c].seen.version + 1

\* The version to tell is read again after the write.
VersionToPush(c) == row[req[c].id].version

ReloadRow(c) ==
    /\ ReqAt(c, Change, "reload")
    /\ req' = [req EXCEPT ![c].pc = "push", ![c].seen.version = VersionToPush(c)]
    /\ UNCHANGED <<row, meta, told, lost, answered, posted>>

Push(c) ==
    /\ ReqAt(c, Change, "push")
    /\ told' = [told EXCEPT ![req[c].id] =
          IF req[c].seen.version > @ THEN req[c].seen.version ELSE @]
    /\ ReqEnds(c)
    /\ UNCHANGED <<row, meta, lost, answered, posted>>

\* A statement or the push fails: the request ends, what it wrote stays.
AbortReq(c) ==
    /\ req[c].pc # "idle"
    /\ lost' = IF req[c].pc \in {"reload", "push"} THEN lost \cup {req[c].id} ELSE lost
    /\ ReqEnds(c)
    /\ UNCHANGED <<row, meta, told, answered, posted>>
-----------------------------------------------------------------------------
(* Messages *)

\* fetch_device_owners: whose devices the recipients' are; all must be active.
DeviceOwners == SUBSET (User \cup {Stranger})

\* create_session is asked for by user u: the devices are of `owners`, which may
\* be the other user only.
Authorized(u, owners) == owners = {Peer(u)}

NextMeta ==
    /\ meta < MaxRotation
    /\ meta' = meta + 1
    /\ UNCHANGED <<row, req, told, lost, answered, posted>>

\* Makes the row, or starts its next epoch.  Nothing ever sets its status back.
CreateSession(u, owners) == Authorized(u, owners) /\ NextMeta

\* rotate_conversation_session is for a row that exists.
RotateSession == meta # 0 /\ NextMeta

\* send_private begins, the users being friends.
BeginSend(c, u) ==
    /\ ReqAt(c, {"none"}, "idle")
    /\ req' = [req EXCEPT ![c] =
          [IdleReq EXCEPT !.kind = "send", !.pc = "negotiated", !.user = u,
                          !.plain = row[Canonical].status # "encrypted"]]
    /\ UNCHANGED <<row, meta, told, lost, answered, posted>>

\* A fault: the negotiation is not asked.
MetadataOnly == FALSE

\* private_e2ee_enabled, first query: is the negotiated session encrypted?
Negotiated == row[Canonical].status = "encrypted"

ReadNegotiated(c) ==
    /\ ReqAt(c, {"send"}, "negotiated")
    /\ ReqGoto(c, IF Negotiated THEN "encrypted" ELSE "metadata")
    /\ UNCHANGED <<row, meta, told, lost, answered, posted>>

\* ... second query: is there session metadata?
ReadMetadata(c) ==
    /\ ReqAt(c, {"send"}, "metadata")
    /\ ReqGoto(c, IF meta # 0 THEN "encrypted" ELSE "plaintext")
    /\ UNCHANGED <<row, meta, told, lost, answered, posted>>

\* An envelope for one device of a user, and what is wrong with it: its wire format
\* or cipher, the session it names, or a device that is not active or not theirs.
Envelope == [to : User \cup {Stranger}, device : {1, 2},
             flaw : {"none", "format", "session", "device"}]
Batches  == {{}} \cup {{e, f} : e \in Envelope, f \in Envelope}

\* It is for another device of the sender, or for one of the receiver.
WellAddressed(e) == e.to \in User
WellFormed(e)    == e.flaw # "format"
OfThisSession(e) == e.flaw # "session"
DevicesActive(e) == e.flaw # "device"

\* validate_e2ee_envelope
ValidEnvelope(e) == WellFormed(e) /\ OfThisSession(e) /\ DevicesActive(e)

ValidBatch(batch) ==
    /\ \A e \in batch : WellAddressed(e) /\ ValidEnvelope(e)
    /\ \A e \in batch, f \in batch : e.device = f.device => e = f

\* What was found is what the payload must be, or the send is refused.
Consistent(found, batch) == found = IF batch = {} THEN "plaintext" ELSE "encrypted"

\* The message is written as it was checked.
Post(c) ==
    /\ ReqAt(c, {"send"}, "plaintext") \/ ReqAt(c, {"send"}, "encrypted")
    /\ \E batch \in Batches :
          /\ Consistent(req[c].pc, batch)
          /\ ValidBatch(batch)
          /\ posted' = [encrypted |-> batch # {}, plain |-> req[c].plain]
    /\ ReqEnds(c)
    /\ UNCHANGED <<row, meta, told, lost, answered>>

NegoNext ==
    \/ \E c \in Caller, kind \in Change, u \in User, s \in Session :
          AskChange(c, kind, u, s)
    \/ \E c \in Caller :
          \/ LoadRow(c) \/ WriteRequest(c) \/ WriteAccept(c) \/ WriteReject(c)
          \/ WriteDisable(c) \/ ReloadRow(c) \/ Push(c) \/ AbortReq(c)
          \/ ReadNegotiated(c) \/ ReadMetadata(c) \/ Post(c)
    \/ \E c \in Caller, u \in User : BeginSend(c, u)
    \/ \E u \in User, owners \in DeviceOwners : CreateSession(u, owners)
    \/ RotateSession

NegoSpec == NegoInit /\ [][NegoNext]_negoVars
-----------------------------------------------------------------------------
\* A row that exists has a version and the requester is a participant; an
\* encrypted or rejected row has been asked for.
NegoTypeOK ==
    /\ meta \in 0..MaxRotation
    /\ \A s \in Session :
          /\ row[s].requester \in User
          /\ row[s].version \in 0..MaxVersion
          /\ row[s].version = 0 <=> row[s] = NoRow
          /\ row[s].status \in {"encrypted", "rejected"} => row[s].asked # 0
          /\ told[s] \in 0..row[s].version

\* Whatever requests overlap, a change of a session raises its version by one:
\* a version names one state, and a client may drop events with an older one.
VersionNamesState ==
    [][\A s \in Session :
          row'[s] # row[s] =>
              \/ row'[s].version = row[s].version + 1
              \/ row'[s] = [row[s] EXCEPT !.payload = TRUE]]_negoVars

\* A request for encryption is accepted or rejected, never both, even if the
\* target answers from two devices at once.
AnsweredOnce ==
    \A a \in answered, b \in answered :
        (a.id = b.id /\ a.asked = b.asked) => a = b

\* When no request for a session is in progress and none has failed after its
\* write, the newest version has been pushed, however the pushes overtook each
\* other: every write is followed by a push of a version read after it.
NewestVersionIsTold ==
    \A s \in Session :
        (s \notin lost /\ \A c \in Caller : req[c].kind \in Change => req[c].id # s)
            => told[s] = row[s].version

\* A plaintext message is posted only if the session was not encrypted at some
\* moment of its send: the check made before the write may be out of date when
\* the message is written, but never older than the send.
PlaintextWasAllowed == posted.encrypted \/ posted.plain
=============================================================================
