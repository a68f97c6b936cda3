------------------------------ MODULE E2eeProofs ------------------------------
(***************************************************************************)
(* Proofs about the server's part of end-to-end encryption and about the   *)
(* hosts of its sessions: key backups, claims of one-time pre-keys, the    *)
(* negotiation of a session, the session managers, the members of a group  *)
(* and their sender keys.  Each part has its own inductive invariant.      *)
(***************************************************************************)
EXTENDS MCE2ee, RatchetProofs
-----------------------------------------------------------------------------
(* Key backups.                                                            *)

BackupTypes ==
    /\ stored \in [text : Nat, salt : Nat]
    /\ salts \in Nat
    /\ salt \in [Backer -> Nat]
    /\ asking \in [Backer -> Nat]
    /\ overlapped \in BOOLEAN

\* Before the first salt is stored no device has one; a salt is made only then,
\* and unless two requests overlap by one device at a time.
BackupInv ==
    /\ BackupTypes
    /\ stored.salt = 0 => stored = NoBackup /\ \A d \in Backer : salt[d] = 0
    /\ overlapped \/ \A d, o \in Backer : asking[d] # 0 /\ asking[o] # 0 => d = o
    /\ overlapped \/ \A d \in Backer : asking[d] # 0 => stored = NoBackup
    /\ BackupOpens

LEMMA BackupInvInit == BackupInit => BackupInv
<1> SUFFICES ASSUME BackupInit PROVE BackupInv
  OBVIOUS
<1>1. BackupTypes
  BY DEF BackupInit, BackupTypes, NoBackup
<1>2. QED
  BY <1>1 DEF BackupInit, BackupInv, NoBackup, IsEmpty, BackupOpens

LEMMA BackupInvStep == BackupInv /\ [BackupNext]_backupVars => BackupInv'
<1> SUFFICES ASSUME BackupInv, [BackupNext]_backupVars PROVE BackupInv'
  OBVIOUS
<1> USE DEF BackupInv, BackupTypes, NoBackup, IsEmpty, BackupOpens
<1>1. ASSUME NEW d \in Backer, ReadSalt(d) PROVE BackupInv'
  BY <1>1 DEF ReadSalt
<1>2. ASSUME NEW d \in Backer, MakeSalt(d) PROVE BackupInv'
  <2>1. BackupTypes'
    BY <1>2 DEF MakeSalt, NoSaltYet
  <2>2. QED
    BY <1>2, <2>1 DEF MakeSalt, NoSaltYet
<1>3. ASSUME NEW d \in Backer, StoreSalt(d) PROVE BackupInv'
  <2>1. BackupTypes'
    BY <1>3 DEF StoreSalt
  <2>2. overlapped \/ stored = NoBackup
    BY <1>3 DEF StoreSalt
  <2>3. QED
    BY <1>3, <2>1, <2>2 DEF StoreSalt
<1>4. ASSUME NEW d \in Backer, SaltFails(d) PROVE BackupInv'
  BY <1>4 DEF SaltFails
<1>5. ASSUME NEW d \in Backer, UploadBackup(d) PROVE BackupInv'
  BY <1>5 DEF UploadBackup, WithItsSalt
<1>6. ASSUME NEW d \in Backer, RestoreBackup(d) PROVE BackupInv'
  BY <1>6 DEF RestoreBackup
<1>7. ASSUME UNCHANGED backupVars PROVE BackupInv'
  BY <1>7 DEF backupVars
<1>8. QED
  BY <1>1, <1>2, <1>3, <1>4, <1>5, <1>6, <1>7 DEF BackupNext

\* A backup can be opened with the salt next to it (get_salt, upload_backup),
\* for any number of devices, unless two first requests for a salt overlapped.
THEOREM BackupsOpen == BackupSpec => []BackupOpens
<1>1. BackupInv => BackupOpens
  BY DEF BackupInv
<1>2. QED
  BY BackupInvInit, BackupInvStep, <1>1, PTL DEF BackupSpec
-----------------------------------------------------------------------------
(* One-time pre-keys.                                                      *)

\* The rows of one key are numbered.
RowType == [gen : Nat, key : PreKey, copy : Nat]

FetchType == [pc : {"idle", "check", "claim", "reread", "verify", "drop"},
              who : Combination \cup {"none"}, gen : Nat, retried : BOOLEAN,
              row : RowType \cup {Fallback, NoClaim}, overtaken : BOOLEAN]

KeysTypes ==
    /\ gen \in Nat
    /\ sent \in [PreKey -> Nat]
    /\ pool \subseteq RowType
    /\ claims \in [Combination -> RowType \cup {Fallback, NoClaim}]
    /\ fetch \in [KeyClient -> FetchType]
    /\ \A h \in handed : h.row \in RowType

\* No row is made twice: what was handed out is of an older upload or has been
\* counted, and is marked consumed as long as it is in the pool.  The pool holds
\* rows of the last upload, which a request has read unless it was overtaken.
KeysInv ==
    /\ KeysTypes
    /\ \A r \in pool : r.gen = gen /\ r.copy =< sent[r.key]
    /\ \A h \in handed :
          /\ h.row.gen =< gen
          /\ h.row.gen = gen => h.row.copy =< sent[h.row.key]
          /\ h.row \in pool => h.row \in consumed
    /\ \A c \in KeyClient :
          fetch[c].pc # "idle" => /\ fetch[c].gen = gen \/ fetch[c].overtaken
                                  /\ fetch[c].who \in Combination
    /\ OtkHandedOnce
    /\ AnswerIsCoherent

LEMMA IdleFetchType == IdleFetch \in FetchType
  BY DEF IdleFetch, FetchType

LEMMA KeysInvInit == KeysInit => KeysInv
<1> SUFFICES ASSUME KeysInit PROVE KeysInv
  OBVIOUS
<1>1. KeysTypes
  BY IdleFetchType DEF KeysInit, KeysTypes
<1>2. QED
  BY <1>1 DEF KeysInit, KeysInv, OtkHandedOnce, AnswerIsCoherent, IdleFetch

\* An answer with a key of the upload the request has read is coherent.
LEMMA AnswerCoheres ==
    ASSUME NEW c \in KeyClient, NEW r, AnswerBundle(c, r),
           r = Fallback \/ r.gen = fetch[c].gen \/ fetch[c].overtaken
    PROVE  AnswerIsCoherent'
<1>1. answer'.row = r /\ answer'.gen = fetch[c].gen
  BY DEF AnswerBundle
<1>2. fetch[c].overtaken => answer'.overtaken
  BY Zenon DEF AnswerBundle
<1>3. QED
  BY <1>1, <1>2 DEF AnswerIsCoherent

LEMMA FetchWithRow ==
    ASSUME NEW f \in FetchType, NEW r \in RowType \cup {Fallback, NoClaim}, NEW g,
           g = [f EXCEPT !.pc = "verify", !.row = r]
    PROVE  /\ g \in FetchType
           /\ g.gen = f.gen /\ g.who = f.who
           /\ f.overtaken => g.overtaken
  BY DEF FetchType

LEMMA KeysInvStep == KeysInv /\ [KeysNext]_keysVars => KeysInv'
<1> SUFFICES ASSUME KeysInv, [KeysNext]_keysVars PROVE KeysInv'
  OBVIOUS
<1> USE DEF KeysInv, KeysTypes, OtkHandedOnce, AnswerIsCoherent
<1>1. ASSUME NEW batch \in SUBSET PreKey, NEW signed \in SUBSET PreKey,
             Upload(batch, signed)
      PROVE  KeysInv'
  <2>1. pool' = {[gen |-> gen + 1, key |-> k, copy |-> 1] : k \in batch}
    BY <1>1 DEF Upload, PoolAfterUpload, NewRows, NoCopies
  <2>2. KeysTypes'
    <3>1. sent' \in [PreKey -> Nat]
      BY <1>1 DEF Upload, Counted, NoCopies
    <3>2. pool' \subseteq RowType
      BY <2>1 DEF RowType
    <3>3. claims' \in [Combination -> RowType \cup {Fallback, NoClaim}]
      BY <1>1 DEF Upload
    <3>4. fetch' \in [KeyClient -> FetchType]
      <4>1. \A f \in FetchType : [f EXCEPT !.overtaken = TRUE] \in FetchType
        BY DEF FetchType
      <4>2. QED
        BY <1>1, <4>1 DEF Upload
    <3>5. QED
      BY <1>1, <3>1, <3>2, <3>3, <3>4 DEF Upload, answerVars
  <2>3. \A h \in handed' : h.row.gen < gen' /\ h.row \notin pool'
    BY <1>1, <2>1 DEF Upload, answerVars, RowType
  <2>4. \A c \in KeyClient :
           fetch'[c].pc # "idle" => /\ fetch'[c].gen = gen' \/ fetch'[c].overtaken
                                    /\ fetch'[c].who \in Combination
    <3>1. \A f \in FetchType : LET g == [f EXCEPT !.overtaken = TRUE]
                               IN  g.pc = f.pc /\ g.who = f.who /\ g.overtaken
      BY DEF FetchType
    <3>2. QED
      BY <1>1, <3>1 DEF Upload
  <2>5. \A r \in pool' : r.gen = gen' /\ r.copy =< sent'[r.key]
    BY <1>1, <2>1 DEF Upload, Counted, NoCopies
  <2>6. OtkHandedOnce' /\ AnswerIsCoherent'
    BY <1>1 DEF Upload, answerVars
  <2>7. QED
    BY <1>1, <2>2, <2>3, <2>4, <2>5, <2>6 DEF Upload, answerVars, RowType
<1>2. ASSUME NEW batch \in SUBSET PreKey, NEW signed \in SUBSET PreKey,
             Refill(batch, signed)
      PROVE  KeysInv'
  <2>1. pool' = pool \cup {[gen |-> gen, key |-> k, copy |-> sent[k] + 1] : k \in batch}
    BY <1>2 DEF Refill, NewRows
  <2>2. /\ sent' \in [PreKey -> Nat]
        /\ \A k \in PreKey : sent[k] =< sent'[k]
        /\ \A k \in batch : sent'[k] = sent[k] + 1
    BY <1>2 DEF Refill, Counted
  <2>3. pool' \subseteq RowType
    BY <2>1 DEF RowType
  <2>4. \A h \in handed : h.row \in pool' => h.row \in pool
    BY <2>1 DEF RowType
  <2>5. \A r \in pool' : r.gen = gen /\ r.copy =< sent'[r.key]
    BY <2>1, <2>2 DEF RowType
  <2>6. OtkHandedOnce' /\ AnswerIsCoherent'
    BY <1>2 DEF Refill, answerVars
  <2>7. \A h \in handed :
           h.row.gen = gen => h.row.copy =< sent'[h.row.key]
    BY <2>2 DEF RowType
  <2>8. QED
    BY <1>2, <2>2, <2>3, <2>4, <2>5, <2>6, <2>7 DEF Refill, answerVars
<1>3. ASSUME DeleteDevice PROVE KeysInv'
  BY <1>3 DEF DeleteDevice, answerVars
<1>4. ASSUME DeleteExpired PROVE KeysInv'
  BY <1>4 DEF DeleteExpired, deviceVars, answerVars
<1>5. ASSUME CleanDevice PROVE KeysInv'
  BY <1>5 DEF CleanDevice, poolVars, answerVars
<1>6. ASSUME CleanOrphans PROVE KeysInv'
  BY <1>6 DEF CleanOrphans, deviceVars, answerVars
<1>7. ASSUME NEW w \in Combination, CleanClaim(w) PROVE KeysInv'
  BY <1>7 DEF CleanClaim, deviceVars, poolVars, answerVars
<1>8. ASSUME NEW c \in KeyClient, NEW w \in Combination, ReadDevice(c, w)
      PROVE  KeysInv'
  BY <1>8 DEF ReadDevice, deviceVars, poolVars, answerVars, FetchType, IdleFetch
<1>9. ASSUME NEW c \in KeyClient, CheckFetch(c) PROVE KeysInv'
  BY <1>9, IdleFetchType
  DEF CheckFetch, FetchAt, deviceVars, poolVars, answerVars, FetchType, IdleFetch
<1>10. ASSUME NEW c \in KeyClient, ClaimKey(c) PROVE KeysInv'
  <2> PICK r \in Unconsumed :
          /\ claims' = [claims EXCEPT ![fetch[c].who] = r]
          /\ consumed' = MarkConsumed(r)
          /\ handed' = handed \cup {[row |-> r, who |-> fetch[c].who]}
          /\ AnswerBundle(c, r)
    BY <1>10 DEF ClaimKey
  <2> USE DEF Unconsumed, MarkConsumed, AnswerBundle
  <2>1. r \in pool /\ r \in RowType /\ r.gen = gen
    OBVIOUS
  <2>2. KeysTypes'
    <3>1. claims' \in [Combination -> RowType \cup {Fallback, NoClaim}]
      BY <1>10, <2>1 DEF ClaimKey
    <3>2. fetch' \in [KeyClient -> FetchType]
      BY IdleFetchType
    <3>3. \A h \in handed' : h.row \in RowType
      BY <2>1
    <3>4. QED
      BY <1>10, <3>1, <3>2, <3>3 DEF ClaimKey, deviceVars
  <2>3. AnswerIsCoherent'
    <3>1. fetch[c].gen = gen \/ fetch[c].overtaken
      BY <1>10 DEF ClaimKey, FetchAt
    <3>2. QED
      BY <2>1, <3>1, AnswerCoheres
  <2>4. OtkHandedOnce'
    BY <2>1
  <2>5. \A d \in KeyClient :
           fetch'[d].pc # "idle" => /\ fetch'[d].gen = gen' \/ fetch'[d].overtaken
                                    /\ fetch'[d].who \in Combination
    BY <1>10 DEF ClaimKey, deviceVars, IdleFetch
  <2>6. \A h \in handed' :
           /\ h.row.gen =< gen
           /\ h.row.gen = gen => h.row.copy =< sent[h.row.key]
           /\ h.row \in pool => h.row \in consumed'
    BY <2>1
  <2>7. QED
    BY <1>10, <2>2, <2>3, <2>4, <2>5, <2>6 DEF ClaimKey, deviceVars
<1>11. ASSUME NEW c \in KeyClient, ClaimNothing(c) PROVE KeysInv'
  BY <1>11, IdleFetchType
  DEF ClaimNothing, AnswerBundle, deviceVars, poolVars, FetchType, IdleFetch
<1>12. ASSUME NEW c \in KeyClient, ClaimExists(c) PROVE KeysInv'
  BY <1>12 DEF ClaimExists, FetchType, FetchAt, FetchGoto, deviceVars, poolVars, answerVars
<1>13. ASSUME NEW c \in KeyClient, RereadClaim(c) PROVE KeysInv'
  <2>1. CASE AnswerBundle(c, Fallback)
    <3>1. AnswerIsCoherent'
      BY <2>1, AnswerCoheres
    <3>2. QED
      BY <1>13, <2>1, <3>1, IdleFetchType
      DEF RereadClaim, AnswerBundle, deviceVars, poolVars, IdleFetch
  <2>2. CASE /\ claims[fetch[c].who] \notin {NoClaim, Fallback}
             /\ fetch' = [fetch EXCEPT ![c].pc = "verify",
                                       ![c].row = claims[fetch[c].who]]
             /\ UNCHANGED answer
    <3> DEFINE claim == claims[fetch[c].who]
    <3>1. claim \in RowType \cup {Fallback, NoClaim}
      BY <1>13 DEF RereadClaim, FetchAt
    <3>2. fetch'[c] = [fetch[c] EXCEPT !.pc = "verify", !.row = claim]
      BY <2>2
    <3>3. /\ fetch'[c] \in FetchType
          /\ fetch'[c].gen = fetch[c].gen /\ fetch'[c].who = fetch[c].who
          /\ fetch[c].overtaken => fetch'[c].overtaken
      <4>1. fetch[c] \in FetchType
        OBVIOUS
      <4>2. QED
        BY <3>1, <3>2, <4>1, FetchWithRow
    <3>4. /\ fetch' \in [KeyClient -> FetchType]
          /\ \A d \in KeyClient : d # c => fetch'[d] = fetch[d]
      BY <2>2, <3>3
    <3>5. fetch[c].pc # "idle"
      BY <1>13 DEF RereadClaim, FetchAt
    <3>6. QED
      BY <1>13, <2>2, <3>3, <3>4, <3>5 DEF RereadClaim, deviceVars, poolVars
  <2>3. QED
    BY <1>13, <2>1, <2>2 DEF RereadClaim
<1>14. ASSUME NEW c \in KeyClient, VerifyClaim(c) PROVE KeysInv'
  <2>1. CASE fetch[c].row \in pool /\ AnswerBundle(c, fetch[c].row)
    <3>1. fetch[c].gen = gen \/ fetch[c].overtaken
      BY <1>14 DEF VerifyClaim, FetchAt
    <3>2. AnswerIsCoherent'
      BY <2>1, <3>1, AnswerCoheres
    <3>3. QED
      BY <1>14, <2>1, <3>2, IdleFetchType
      DEF VerifyClaim, AnswerBundle, deviceVars, poolVars, IdleFetch
  <2>2. CASE FetchGoto(c, "drop") /\ UNCHANGED answer
    BY <1>14, <2>2 DEF VerifyClaim, FetchAt, FetchGoto, FetchType, deviceVars, poolVars
  <2>3. QED
    BY <1>14, <2>1, <2>2 DEF VerifyClaim
<1>15. ASSUME NEW c \in KeyClient, DropStaleClaim(c) PROVE KeysInv'
  BY <1>15, IdleFetchType
  DEF DropStaleClaim, FetchAt, deviceVars, poolVars, answerVars, FetchType, IdleFetch
<1>16. ASSUME NEW c \in KeyClient, AbortFetch(c) PROVE KeysInv'
  BY <1>16, IdleFetchType DEF AbortFetch, deviceVars, poolVars, answerVars, FetchType, IdleFetch
<1>17. ASSUME UNCHANGED keysVars PROVE KeysInv'
  BY <1>17 DEF keysVars, deviceVars, poolVars, answerVars
<1>18. QED
  BY <1>1, <1>2, <1>3, <1>4, <1>5, <1>6, <1>7, <1>8, <1>9, <1>10, <1>11, <1>12,
     <1>13, <1>14, <1>15, <1>16, <1>17
  DEF KeysNext

LEMMA KeysCorrect == KeysSpec => []KeysInv
  BY KeysInvInit, KeysInvStep, PTL DEF KeysSpec

\* get_bundle hands a one-time pre-key to one requester and conversation at most,
\* for any number of requests, keys, uploads and clean-ups.
THEOREM KeysHandedOnce == KeysSpec => []OtkHandedOnce
<1>1. KeysInv => OtkHandedOnce
  BY DEF KeysInv
<1>2. QED
  BY KeysCorrect, <1>1, PTL

\* The keys of an answered bundle belong together, unless an upload overlapped.
THEOREM AnswersCohere == KeysSpec => []AnswerIsCoherent
<1>1. KeysInv => AnswerIsCoherent
  BY DEF KeysInv
<1>2. QED
  BY KeysCorrect, <1>1, PTL
-----------------------------------------------------------------------------
(* Negotiation.                                                            *)

RowOf == [status : {"none", "plaintext", "pending", "encrypted", "rejected"},
          requester : User, payload : BOOLEAN, version : Nat, asked : Nat]

ReqOf == [kind : Change \cup {"none", "send"},
          pc : {"idle", "load", "write", "reload", "push",
                "negotiated", "metadata", "encrypted", "plaintext"},
          user : User, id : Session, seen : RowOf, plain : BOOLEAN]

NegoTypes ==
    /\ row \in [Session -> RowOf]
    /\ req \in [Caller -> ReqOf]
    /\ told \in [Session -> Nat]

\* The requests that will tell the version row s has now, or a later one.
WillTell(c, s) ==
    /\ req[c].kind \in Change /\ req[c].id = s
    /\ \/ req[c].pc = "reload"
       \/ req[c].pc = "push" /\ req[c].seen.version = row[s].version

\* A pending request has not been answered; a version that was not told will be;
\* a send that may be found to be plain text was allowed to be at some moment.
NegoInv ==
    /\ NegoTypes
    /\ \A s \in Session : row[s].asked =< row[s].version /\ told[s] =< row[s].version
    /\ \A a \in answered :
          /\ a.id \in Session /\ a.asked \in Nat
          /\ a.asked =< row[a.id].version
          /\ row[a.id].status = "pending" => a.asked # row[a.id].asked
    /\ \A c \in Caller : req[c].kind \in Change =>
          req[c].seen.version =< row[req[c].id].version
    /\ \A s \in Session :
          s \in lost \/ told[s] = row[s].version \/ \E c \in Caller : WillTell(c, s)
    /\ \A c \in Caller : req[c].kind = "send" =>
          /\ row[Canonical].status # "encrypted" => req[c].plain
          /\ req[c].pc \in {"metadata", "plaintext"} => req[c].plain
    /\ AnsweredOnce
    /\ PlaintextWasAllowed

LEMMA RowTypes == NoRow \in RowOf /\ IdleReq \in ReqOf
<1>1. NoRow \in RowOf
  BY DEF NoRow, RowOf, User
<1>2. IdleReq \in ReqOf
  BY <1>1, SessionAssumption DEF IdleReq, ReqOf, User
<1>3. QED
  BY <1>1, <1>2

LEMMA NegoInvInit == NegoInit => NegoInv
<1> SUFFICES ASSUME NegoInit PROVE NegoInv
  OBVIOUS
<1>1. NegoTypes
  BY RowTypes DEF NegoInit, NegoTypes
<1>2. AnsweredOnce /\ PlaintextWasAllowed
  BY DEF NegoInit, AnsweredOnce, PlaintextWasAllowed
<1>3. /\ \A s \in Session : row[s].asked = 0 /\ row[s].version = 0 /\ told[s] = 0
      /\ \A c \in Caller : req[c].kind = "none"
      /\ answered = {}
  BY DEF NegoInit, NoRow, IdleReq
<1>4. QED
  BY <1>1, <1>2, <1>3 DEF NegoInv, Change
\* What the writes of the three changes have in common.
LEMMA WriteRowReq ==
    ASSUME NegoTypes, NEW c \in Caller, NEW r \in RowOf, WriteRow(c, r)
    PROVE  /\ row' = [row EXCEPT ![req[c].id] = r]
           /\ req' \in [Caller -> ReqOf]
           /\ req'[c].pc = "reload"
           /\ \A d \in Caller :
                 /\ req'[d].kind = req[d].kind /\ req'[d].id = req[d].id
                 /\ req'[d].seen = req[d].seen /\ (d # c => req'[d].pc = req[d].pc)
                 /\ req[d].plain => req'[d].plain
                 /\ /\ req[d].kind = "send" /\ req[c].id = Canonical
                    /\ r.status # "encrypted"
                    => req'[d].plain
<1> DEFINE notes == NoteSends(req[c].id, r)
<1>1. \A q \in ReqOf :
         /\ [q EXCEPT !.plain = TRUE] \in ReqOf
         /\ [q EXCEPT !.plain = TRUE].kind = q.kind
         /\ [q EXCEPT !.plain = TRUE].pc = q.pc
         /\ [q EXCEPT !.plain = TRUE].id = q.id
         /\ [q EXCEPT !.plain = TRUE].seen = q.seen
         /\ [q EXCEPT !.plain = TRUE].plain
  BY DEF ReqOf
<1>2. /\ notes \in [Caller -> ReqOf]
      /\ \A d \in Caller :
            /\ notes[d].kind = req[d].kind /\ notes[d].id = req[d].id
            /\ notes[d].seen = req[d].seen /\ notes[d].pc = req[d].pc
            /\ req[d].plain => notes[d].plain
            /\ /\ req[d].kind = "send" /\ req[c].id = Canonical /\ r.status # "encrypted"
               => notes[d].plain
  BY <1>1 DEF NoteSends, NegoTypes
<1>3. req' = [notes EXCEPT ![c].pc = "reload"] /\ row' = [row EXCEPT ![req[c].id] = r]
  BY DEF WriteRow
<1>4. \A q \in ReqOf :
         /\ [q EXCEPT !.pc = "reload"] \in ReqOf
         /\ [q EXCEPT !.pc = "reload"].kind = q.kind
         /\ [q EXCEPT !.pc = "reload"].pc = "reload"
         /\ [q EXCEPT !.pc = "reload"].id = q.id
         /\ [q EXCEPT !.pc = "reload"].seen = q.seen
         /\ q.plain => [q EXCEPT !.pc = "reload"].plain
  BY DEF ReqOf
<1> HIDE DEF notes
<1>5. QED
  BY <1>2, <1>3, <1>4
\* A write keeps the invariant, what it means for answers apart.
LEMMA WriteRowKeeps ==
    ASSUME NegoInv, NEW c \in Caller, req[c].kind \in Change, NEW r \in RowOf,
           WriteRow(c, r), UNCHANGED <<told, lost, posted>>,
           r.asked =< r.version, row[req[c].id].version =< r.version,
           /\ \A a \in answered' :
                 /\ a.id \in Session /\ a.asked \in Nat
                 /\ a.asked =< row'[a.id].version
                 /\ row'[a.id].status = "pending" => a.asked # row'[a.id].asked
           /\ AnsweredOnce'
    PROVE  NegoInv'
<1> USE DEF NegoInv
<1>1. /\ row' = [row EXCEPT ![req[c].id] = r]
      /\ req' \in [Caller -> ReqOf]
      /\ req'[c].pc = "reload"
      /\ \A d \in Caller :
            /\ req'[d].kind = req[d].kind /\ req'[d].id = req[d].id
            /\ req'[d].seen = req[d].seen /\ (d # c => req'[d].pc = req[d].pc)
            /\ req[d].plain => req'[d].plain
            /\ /\ req[d].kind = "send" /\ req[c].id = Canonical
               /\ r.status # "encrypted"
               => req'[d].plain
  BY WriteRowReq
<1>2. req[c].id \in Session /\ \A d \in Caller : req[d].id \in Session
  BY DEF NegoTypes, ReqOf
<1>3. NegoTypes'
  BY <1>1, <1>2 DEF NegoTypes
<1>4. \A s \in Session : /\ row'[s].asked =< row'[s].version
                         /\ row[s].version =< row'[s].version
                         /\ s # req[c].id => row'[s] = row[s]
  <2>1. \A s \in Session : row[s].version \in Nat
    BY DEF NegoTypes, RowOf
  <2>2. QED
    BY <1>1, <1>2, <2>1 DEF NegoTypes
<1>5. \A s \in Session : told'[s] =< row'[s].version
  BY <1>3, <1>4 DEF NegoTypes, RowOf
<1>6. \A d \in Caller : req'[d].kind \in Change =>
         req'[d].seen.version =< row'[req'[d].id].version
  <2>1. \A d \in Caller : req[d].seen.version \in Nat
    BY DEF NegoTypes, ReqOf, RowOf
  <2>2. \A s \in Session : row[s].version \in Nat /\ row'[s].version \in Nat
    BY <1>3 DEF NegoTypes, RowOf
  <2>3. QED
    BY <1>1, <1>2, <1>4, <2>1, <2>2
<1>7. ASSUME NEW s \in Session
      PROVE  s \in lost' \/ told'[s] = row'[s].version \/ \E d \in Caller : WillTell(d, s)'
  <2>1. CASE s = req[c].id
    BY <1>1, <2>1 DEF WillTell
  <2>2. CASE s # req[c].id
    <3>1. ASSUME NEW d \in Caller, WillTell(d, s) PROVE WillTell(d, s)'
      BY <1>1, <1>4, <2>2, <3>1 DEF WillTell
    <3>2. QED
      BY <1>4, <2>2, <3>1
  <2>3. QED
    BY <2>1, <2>2
<1>8. \A d \in Caller : req'[d].kind = "send" =>
         /\ row'[Canonical].status # "encrypted" => req'[d].plain
         /\ req'[d].pc \in {"metadata", "plaintext"} => req'[d].plain
  BY <1>1, <1>2, <1>4, SessionAssumption DEF Change, NegoTypes
<1>9. PlaintextWasAllowed'
  BY DEF PlaintextWasAllowed
<1>10. QED
  BY <1>3, <1>4, <1>5, <1>6, <1>7, <1>8, <1>9

\* A write that answers nothing, and leaves or makes a request that has no answer.
LEMMA WriteRowUnanswered ==
    ASSUME NegoInv, NEW c \in Caller, req[c].kind \in Change, NEW r \in RowOf,
           WriteRow(c, r), UNCHANGED <<told, lost, answered, posted>>,
           r.asked =< r.version, row[req[c].id].version =< r.version,
           r.status = "pending" =>
              \/ row[req[c].id].status = "pending" /\ r.asked = row[req[c].id].asked
              \/ row[req[c].id].version < r.asked
    PROVE  NegoInv'
<1>1. req[c].id \in Session /\ row' = [row EXCEPT ![req[c].id] = r]
  BY DEF WriteRow, NegoInv, NegoTypes, ReqOf
<1>2. ASSUME NEW a \in answered
      PROVE  /\ a.id \in Session /\ a.asked \in Nat
             /\ a.asked =< row'[a.id].version
             /\ row'[a.id].status = "pending" => a.asked # row'[a.id].asked
  <2>1. /\ a.id \in Session /\ a.asked \in Nat /\ a.asked =< row[a.id].version
        /\ row[a.id].status = "pending" => a.asked # row[a.id].asked
    BY DEF NegoInv
  <2>2. CASE a.id = req[c].id
    <3>1. row'[a.id] = r
      BY <1>1, <2>2 DEF NegoInv, NegoTypes
    <3>2. /\ row[a.id].version \in Nat /\ r.version \in Nat /\ r.asked \in Nat
      BY <2>1 DEF NegoInv, NegoTypes, RowOf
    <3>3. QED
      BY <2>1, <2>2, <3>1, <3>2
  <2>3. CASE a.id # req[c].id
    BY <1>1, <2>1, <2>3 DEF NegoInv, NegoTypes
  <2>4. QED
    BY <2>2, <2>3
<1>3. AnsweredOnce'
  BY DEF NegoInv, AnsweredOnce
<1>4. QED
  BY <1>2, <1>3, WriteRowKeeps

\* A request that goes on without writing: c is its caller, q what it is then.
LEMMA RequestGoesOn ==
    ASSUME NegoInv, NEW c \in Caller, NEW q \in ReqOf, req' = [req EXCEPT ![c] = q],
           UNCHANGED <<row, told, answered>>, lost \subseteq lost',
           UNCHANGED posted \/ PlaintextWasAllowed',
           q.kind \in Change => q.seen.version =< row[q.id].version,
           q.kind = "send" => /\ row[Canonical].status # "encrypted" => q.plain
                              /\ q.pc \in {"metadata", "plaintext"} => q.plain,
           \A s \in Session : WillTell(c, s) => WillTell(c, s)' \/ s \in lost'
    PROVE  NegoInv'
<1> USE DEF NegoInv
<1>1. NegoTypes'
  BY DEF NegoTypes
<1>2. \A d \in Caller : req'[d] = IF d = c THEN q ELSE req[d]
  BY DEF NegoTypes
<1>3. ASSUME NEW s \in Session
      PROVE  s \in lost' \/ told'[s] = row'[s].version \/ \E d \in Caller : WillTell(d, s)'
  <2>1. \A d \in Caller : d # c /\ WillTell(d, s) => WillTell(d, s)'
    BY <1>2 DEF WillTell
  <2>2. QED
    BY <2>1
<1>4. AnsweredOnce' /\ PlaintextWasAllowed'
  BY DEF AnsweredOnce, PlaintextWasAllowed
<1>5. QED
  BY <1>1, <1>2, <1>3, <1>4
\* A request that ends is not missed if it had nothing left to tell.
LEMMA RequestEnds ==
    ASSUME NegoInv, NEW c \in Caller, ReqEnds(c),
           UNCHANGED <<row, told, answered>>, lost \subseteq lost',
           UNCHANGED posted \/ PlaintextWasAllowed',
           \A s \in Session : WillTell(c, s) => s \in lost'
    PROVE  NegoInv'
<1>1. IdleReq \in ReqOf /\ IdleReq.kind = "none"
  BY RowTypes DEF IdleReq
<1>2. QED
  BY <1>1, RequestGoesOn DEF ReqEnds, Change

\* The fields of a request that goes to another step.
Step == {"idle", "load", "write", "reload", "push", "negotiated", "metadata",
         "encrypted", "plaintext"}

LEMMA RequestAtStep ==
    ASSUME NEW q \in ReqOf, NEW pc \in Step, NEW p, p = [q EXCEPT !.pc = pc]
    PROVE  /\ p \in ReqOf /\ p.pc = pc /\ p.seen = q.seen
           /\ p.kind = q.kind /\ p.id = q.id /\ (q.plain => p.plain)
  BY DEF ReqOf, Step

LEMMA NegoInvStep == NegoInv /\ [NegoNext]_negoVars => NegoInv'
<1> SUFFICES ASSUME NegoInv, [NegoNext]_negoVars PROVE NegoInv'
  OBVIOUS
<1>0. /\ NegoTypes
      /\ \A c \in Caller : req[c] \in ReqOf /\ req[c].id \in Session
                           /\ req[c].user \in User
      /\ \A s \in Session : row[s] \in RowOf /\ row[s].version \in Nat
  BY DEF NegoInv, NegoTypes, ReqOf, RowOf
<1>1. ASSUME NEW c \in Caller, NEW kind \in Change, NEW u \in User, NEW s \in Session,
             AskChange(c, kind, u, s)
      PROVE  NegoInv'
  <2> DEFINE q == [IdleReq EXCEPT !.kind = kind, !.pc = "load", !.user = u, !.id = s]
  <2>1. q \in ReqOf /\ q.id = s /\ q.seen = NoRow /\ q.kind = kind /\ q.pc = "load"
    BY RowTypes DEF IdleReq, ReqOf
  <2>2. NoRow.version = 0 /\ kind # "send"
    BY DEF NoRow, Change
  <2>3. req' = [req EXCEPT ![c] = q] /\ req[c].kind = "none"
    BY <1>1 DEF AskChange, ReqAt
  <2> HIDE DEF q
  <2>4. \A x \in Session : ~WillTell(c, x)
    BY <2>3 DEF WillTell, Change
  <2>5. q.seen.version =< row[q.id].version
    BY <1>0, <2>1, <2>2
  <2>6. QED
    BY <1>1, <2>1, <2>2, <2>3, <2>4, <2>5, RequestGoesOn DEF AskChange
<1>2. ASSUME NEW c \in Caller, LoadRow(c) PROVE NegoInv'
  <2> DEFINE r == row[req[c].id]
             pc == AfterLoad(req[c].kind, r)
  <2>1. req[c].kind \in Change /\ req[c].pc = "load" /\ req[c].kind # "send"
    BY <1>2 DEF LoadRow, ReqAt, Change
  <2>2. CASE ReqEnds(c)
    BY <1>2, <2>1, <2>2, RequestEnds DEF LoadRow, WillTell
  <2>3. CASE req' = [req EXCEPT ![c].pc = pc, ![c].seen = r]
    <3>1. pc \in Step /\ r \in RowOf
      BY <1>0 DEF AfterLoad, Step
    <3>2. /\ req'[c] = [req[c] EXCEPT !.pc = pc, !.seen = r]
          /\ req' = [req EXCEPT ![c] = req'[c]]
      BY <1>0, <2>3 DEF NegoTypes
    <3> HIDE DEF pc, r
    <3>3. /\ req'[c] \in ReqOf /\ req'[c].seen = r
          /\ req'[c].kind = req[c].kind /\ req'[c].id = req[c].id
      <4>1. req[c] \in ReqOf /\ pc \in Step /\ r \in RowOf
        BY <1>0, <3>1
      <4>2. req'[c] = [req[c] EXCEPT !.pc = pc, !.seen = r]
        BY <3>2
      <4>3. QED
        BY <4>1, <4>2 DEF ReqOf, Step
    <3>4. req'[c].seen.version =< row[req'[c].id].version
      BY <1>0, <3>3 DEF r
    <3>5. \A s \in Session : ~WillTell(c, s)
      BY <2>1 DEF WillTell
    <3>6. QED
      BY <1>2, <2>1, <3>2, <3>3, <3>4, <3>5, RequestGoesOn DEF LoadRow
  <2>4. QED
    BY <1>2, <2>2, <2>3 DEF LoadRow
<1>3. ASSUME NEW c \in Caller, WriteRequest(c) PROVE NegoInv'
  <2> DEFINE s == req[c].id
             v == row[s].version
             old == [row[s] EXCEPT !.payload = TRUE]
             new == [status |-> "pending", requester |-> req[c].user, payload |-> TRUE,
                     version |-> v + 1, asked |-> v + 1]
  <2>1. req[c].kind \in Change /\ req[c].pc = "write" /\ s \in Session /\ v \in Nat
    BY <1>0, <1>3 DEF WriteRequest, ReqAt, Change
  <2>2. UNCHANGED <<told, lost, answered, posted>>
    BY <1>3 DEF WriteRequest
  <2>3. CASE WriteRow(c, old)
    <3>1. /\ old \in RowOf /\ old.version = v
          /\ old.status = row[s].status /\ old.asked = row[s].asked
      BY <1>0 DEF RowOf
    <3>2. row[s].asked =< v
      BY <2>1 DEF NegoInv
    <3> HIDE DEF old
    <3>3. QED
      BY <2>1, <2>2, <2>3, <3>1, <3>2, WriteRowUnanswered
  <2>4. CASE WriteRow(c, new)
    <3>1. new \in RowOf /\ new.version = v + 1 /\ new.asked = v + 1
      BY <1>0, <2>1 DEF RowOf
    <3> HIDE DEF new
    <3>2. QED
      BY <2>1, <2>2, <2>4, <3>1, WriteRowUnanswered
  <2>5. CASE ReqEnds(c) /\ UNCHANGED row
    BY <2>1, <2>2, <2>5, RequestEnds DEF WillTell
  <2>6. WriteRow(c, old) \/ WriteRow(c, new) \/ (ReqEnds(c) /\ UNCHANGED row)
    BY <1>3 DEF WriteRequest, NextVersion
  <2>7. QED
    BY <2>3, <2>4, <2>5, <2>6
<1>4. ASSUME NEW c \in Caller, NEW verdict \in {"encrypted", "rejected"},
             req[c].kind \in Change, req[c].pc = "write", WriteAnswer(c, verdict)
      PROVE  NegoInv'
  <2> DEFINE s == req[c].id
             v == row[s].version
             r == [row[s] EXCEPT !.status = verdict, !.version = v + 1]
             a == [id |-> s, asked |-> row[s].asked, verdict |-> verdict]
  <2>1. s \in Session /\ v \in Nat /\ UNCHANGED <<told, lost, posted>>
    BY <1>0, <1>4 DEF WriteAnswer
  <2>2. CASE ReqEnds(c) /\ UNCHANGED <<row, answered>>
    BY <1>4, <2>1, <2>2, RequestEnds DEF WillTell
  <2>3. CASE /\ row[s].status = "pending"
             /\ WriteRow(c, r) /\ answered' = answered \cup {a}
    <3>1. /\ r \in RowOf /\ r.version = v + 1 /\ r.status = verdict
          /\ r.asked = row[s].asked
      <4>1. row[s] \in RowOf /\ v + 1 \in Nat
        BY <1>0, <2>1
      <4> HIDE DEF v, s
      <4>2. QED
        BY <4>1 DEF RowOf
    <3>2. row[s].asked =< v /\ row[s].asked \in Nat
      BY <1>0, <2>1 DEF NegoInv, RowOf
    <3>3. a.id = s /\ a.asked = row[s].asked
      OBVIOUS
    <3>4. row' = [row EXCEPT ![s] = r]
      BY <2>3 DEF WriteRow
    <3> HIDE DEF r, a
    <3>5. \A b \in answered : /\ b.id \in Session /\ b.asked \in Nat
                              /\ b.asked =< row[b.id].version
                              /\ b.id = s => b.asked # row[s].asked
                              /\ row[b.id].status = "pending" => b.asked # row[b.id].asked
      BY <2>3 DEF NegoInv
    <3>6. AnsweredOnce'
      BY <2>3, <3>3, <3>5 DEF AnsweredOnce, NegoInv
    <3>7. row'[s] = r /\ \A x \in Session \ {s} : row'[x] = row[x]
      BY <2>1, <3>4, <1>0 DEF NegoTypes
    <3>8. \A b \in answered' :
             /\ b.id \in Session /\ b.asked \in Nat
             /\ b.asked =< row'[b.id].version
             /\ row'[b.id].status = "pending" => b.asked # row'[b.id].asked
      <4>1. \A b \in answered : b.id = s => b.asked =< v
        BY <3>5
      <4>2. QED
        BY <2>1, <2>3, <3>1, <3>2, <3>3, <3>5, <3>7, <4>1
    <3>9. QED
      BY <1>4, <2>1, <2>3, <3>1, <3>2, <3>6, <3>8, WriteRowKeeps
  <2>4. QED
    BY <1>4, <2>2, <2>3 DEF WriteAnswer, StillPending, NextVersion
<1>5. ASSUME NEW c \in Caller, WriteDisable(c) PROVE NegoInv'
  <2> DEFINE s == req[c].id
             v == row[s].version
             u == IF row[s] = NoRow THEN req[c].user ELSE row[s].requester
             r == [status |-> "plaintext", payload |-> FALSE, requester |-> u,
                   version |-> v + 1, asked |-> row[s].asked]
  <2>1. req[c].kind \in Change /\ req[c].pc = "write" /\ s \in Session /\ v \in Nat
    BY <1>0, <1>5 DEF WriteDisable, ReqAt, Change
  <2>2. UNCHANGED <<told, lost, answered, posted>>
    BY <1>5 DEF WriteDisable
  <2>3. CASE WriteRow(c, r)
    <3>1. u \in User /\ row[s].asked \in Nat /\ row[s].asked =< v
      BY <1>0, <2>1 DEF RowOf, NegoInv
    <3> HIDE DEF u
    <3>2. r \in RowOf /\ r.version = v + 1 /\ r.asked = row[s].asked /\ r.status = "plaintext"
      BY <2>1, <3>1 DEF RowOf
    <3> HIDE DEF r
    <3>3. QED
      BY <2>1, <2>2, <2>3, <3>1, <3>2, WriteRowUnanswered
  <2>4. CASE ReqEnds(c) /\ UNCHANGED row
    BY <2>1, <2>2, <2>4, RequestEnds DEF WillTell
  <2>5. QED
    BY <1>5, <2>3, <2>4 DEF WriteDisable, NextVersion
<1>6. ASSUME NEW c \in Caller, ReloadRow(c) PROVE NegoInv'
  <2> DEFINE v == row[req[c].id].version
  <2>1. req[c].kind \in Change /\ req[c].pc = "reload" /\ req[c].kind # "send"
    BY <1>6 DEF ReloadRow, ReqAt, Change
  <2>2. req' = [req EXCEPT ![c].pc = "push", ![c].seen.version = v]
    BY <1>6 DEF ReloadRow, VersionToPush
  <2>3. /\ req'[c] = [req[c] EXCEPT !.pc = "push", !.seen.version = v]
        /\ req' = [req EXCEPT ![c] = req'[c]]
        /\ v \in Nat
    BY <1>0, <2>2 DEF NegoTypes
  <2> HIDE DEF v
  <2>4. /\ req'[c] \in ReqOf /\ req'[c].pc = "push" /\ req'[c].seen.version = v
        /\ req'[c].kind = req[c].kind /\ req'[c].id = req[c].id
    <3> DEFINE seen == [req[c].seen EXCEPT !.version = v]
    <3>1. req[c] \in ReqOf /\ req[c].seen \in RowOf
      BY <1>0 DEF ReqOf
    <3>2. seen \in RowOf /\ seen.version = v
      BY <2>3, <3>1 DEF RowOf
    <3>3. req'[c] = [req[c] EXCEPT !.pc = "push", !.seen = seen]
      BY <2>3, <3>1 DEF ReqOf
    <3> HIDE DEF seen
    <3>4. QED
      BY <3>1, <3>2, <3>3 DEF ReqOf
  <2>5. \A s \in Session : WillTell(c, s) => WillTell(c, s)'
    BY <1>6, <2>1, <2>4 DEF WillTell, ReloadRow, v
  <2>6. req'[c].seen.version =< row[req'[c].id].version
    BY <1>0, <2>4 DEF v
  <2>7. QED
    BY <1>6, <2>1, <2>3, <2>4, <2>5, <2>6, RequestGoesOn DEF ReloadRow
<1>7. ASSUME NEW c \in Caller, Push(c) PROVE NegoInv'
  <2> DEFINE s == req[c].id
             v == req[c].seen.version
  <2>1. /\ req[c].kind \in Change /\ req[c].pc = "push" /\ s \in Session
        /\ v =< row[s].version /\ v \in Nat
    BY <1>0, <1>7 DEF Push, ReqAt, NegoInv, ReqOf, RowOf
  <2>2. told' = [told EXCEPT ![s] = IF v > told[s] THEN v ELSE told[s]]
    BY <1>7 DEF Push
  <2>3. req' = [req EXCEPT ![c] = IdleReq] /\ UNCHANGED <<row, lost, answered, posted>>
    BY <1>7 DEF Push, ReqEnds
  <2> HIDE DEF s, v
  <2>4. IdleReq \in ReqOf /\ IdleReq.kind = "none"
    BY RowTypes DEF IdleReq
  <2>5. NegoTypes'
    BY <1>0, <2>1, <2>2, <2>3, <2>4 DEF NegoTypes
  <2>6. \A x \in Session : told[x] =< told'[x] /\ told'[x] =< row[x].version
    BY <1>0, <2>1, <2>2 DEF NegoTypes, NegoInv
  <2>7. ASSUME NEW x \in Session
        PROVE  x \in lost \/ told'[x] = row[x].version \/ \E d \in Caller : WillTell(d, x)'
    <3>1. CASE x \in lost \/ told[x] = row[x].version
      <4>1. told[x] \in Nat /\ told'[x] \in Nat /\ row[x].version \in Nat
        BY <1>0, <2>5 DEF NegoTypes
      <4>2. told[x] =< told'[x] /\ told'[x] =< row[x].version
        BY <2>6
      <4>3. QED
        BY <3>1, <4>1, <4>2
    <3>2. CASE WillTell(c, x)
      <4>1. x = s /\ v = row[x].version
        BY <2>1, <3>2 DEF WillTell, s, v
      <4>2. QED
        BY <1>0, <2>1, <2>2, <2>6, <4>1 DEF NegoTypes
    <3>3. ASSUME NEW d \in Caller, d # c, WillTell(d, x) PROVE WillTell(d, x)'
      BY <1>0, <2>3, <3>3 DEF WillTell, NegoTypes
    <3>4. QED
      BY <3>1, <3>2, <3>3 DEF NegoInv
  <2>8. \A d \in Caller : req'[d] = req[d] \/ req'[d].kind = "none"
    BY <1>0, <2>3, <2>4 DEF NegoTypes
  <2>9. AnsweredOnce' /\ PlaintextWasAllowed'
    BY <2>3 DEF NegoInv, AnsweredOnce, PlaintextWasAllowed
  <2>10. QED
    BY <2>3, <2>5, <2>6, <2>7, <2>8, <2>9 DEF NegoInv, Change
<1>8. ASSUME NEW c \in Caller, AbortReq(c) PROVE NegoInv'
  <2>1. \A s \in Session : WillTell(c, s) => s \in lost'
    BY <1>8 DEF AbortReq, WillTell
  <2>2. QED
    BY <1>8, <2>1, RequestEnds DEF AbortReq
<1>9. ASSUME NEW c \in Caller, NEW u \in User, BeginSend(c, u) PROVE NegoInv'
  <2> DEFINE plain == row[Canonical].status # "encrypted"
  <2>1. /\ req' = [req EXCEPT ![c] = [IdleReq EXCEPT !.kind = "send", !.pc = "negotiated",
                                                    !.user = u, !.plain = plain]]
        /\ req[c].kind = "none"
    BY <1>9 DEF BeginSend, ReqAt
  <2>2. plain \in BOOLEAN
    OBVIOUS
  <2>3. /\ req'[c] = [IdleReq EXCEPT !.kind = "send", !.pc = "negotiated",
                                     !.user = u, !.plain = plain]
        /\ req' = [req EXCEPT ![c] = req'[c]]
    BY <1>0, <2>1 DEF NegoTypes
  <2> HIDE DEF plain
  <2>4. /\ req'[c] \in ReqOf /\ req'[c].kind = "send" /\ req'[c].pc = "negotiated"
        /\ plain => req'[c].plain
    BY <2>2, <2>3, RowTypes DEF ReqOf
  <2>5. \A s \in Session : ~WillTell(c, s)
    BY <2>1 DEF WillTell, Change
  <2>6. "send" \notin Change
    BY DEF Change
  <2>7. QED
    BY ZenonT(60), <1>9, <2>3, <2>4, <2>5, <2>6, RequestGoesOn DEF BeginSend, plain
<1>10. ASSUME NEW c \in Caller, ReadNegotiated(c) \/ ReadMetadata(c) PROVE NegoInv'
  <2>1. PICK pc \in {"encrypted", "metadata", "plaintext"} :
           /\ req' = [req EXCEPT ![c].pc = pc]
           /\ req[c].kind = "send"
           /\ pc = "metadata" => row[Canonical].status # "encrypted"
           /\ pc = "plaintext" => req[c].pc = "metadata"
    BY <1>10 DEF ReadNegotiated, ReadMetadata, ReqAt, ReqGoto, Negotiated
  <2>2. /\ req'[c] = [req[c] EXCEPT !.pc = pc]
        /\ req' = [req EXCEPT ![c] = req'[c]]
    BY <1>0, <2>1 DEF NegoTypes
  <2>3. /\ req'[c] \in ReqOf /\ req'[c].pc = pc /\ req'[c].kind = "send"
        /\ req[c].plain => req'[c].plain
    BY <1>0, <2>1, <2>2, RequestAtStep DEF Step
  <2>4. /\ row[Canonical].status # "encrypted" => req'[c].plain
        /\ pc \in {"metadata", "plaintext"} => req'[c].plain
    BY <2>1, <2>3 DEF NegoInv
  <2>5. \A s \in Session : ~WillTell(c, s)
    BY <2>1 DEF WillTell, Change
  <2>6. "send" \notin Change
    BY DEF Change
  <2>7. QED
    BY <1>10, <2>2, <2>3, <2>4, <2>5, <2>6, RequestGoesOn
    DEF ReadNegotiated, ReadMetadata
<1>12. ASSUME NEW c \in Caller, Post(c) PROVE NegoInv'
  <2>1. /\ req[c].kind = "send" /\ req[c].pc \in {"plaintext", "encrypted"}
        /\ ReqEnds(c)
    BY <1>12 DEF Post, ReqAt
  <2>2. posted'.encrypted \/ posted'.plain
    <3>1. PICK batch \in Batches :
             /\ Consistent(req[c].pc, batch)
             /\ posted' = [encrypted |-> batch # {}, plain |-> req[c].plain]
      BY <1>12 DEF Post
    <3>2. CASE batch = {}
      <4>1. req[c].plain
        BY <2>1, <3>1, <3>2 DEF Consistent, NegoInv
      <4>2. QED
        BY <3>1, <4>1, Zenon
    <3>3. CASE batch # {}
      BY <3>1, <3>3, Zenon
    <3>4. QED
      BY <3>2, <3>3
  <2>3. \A s \in Session : ~WillTell(c, s)
    BY <2>1 DEF WillTell, Change
  <2>4. QED
    BY <1>12, <2>1, <2>2, <2>3, RequestEnds DEF Post, PlaintextWasAllowed
<1>13. ASSUME UNCHANGED <<row, req, told, lost, answered, posted>> PROVE NegoInv'
  BY <1>13 DEF NegoInv, NegoTypes, WillTell, AnsweredOnce, PlaintextWasAllowed
<1>14. QED
  BY <1>1, <1>2, <1>3, <1>4, <1>5, <1>6, <1>7, <1>8, <1>9, <1>10, <1>12, <1>13
  DEF NegoNext, negoVars, CreateSession, RotateSession, NextMeta, WriteAccept,
      WriteReject, ReqAt, Change
LEMMA NegoCorrect == NegoSpec => []NegoInv
  BY NegoInvInit, NegoInvStep, PTL DEF NegoSpec

\* accept_encryption and reject_encryption: a request has one answer, for any
\* number of requests that overlap and any spellings of the session id.
THEOREM RequestsAnsweredOnce == NegoSpec => []AnsweredOnce
<1>1. NegoInv => AnsweredOnce
  BY DEF NegoInv
<1>2. QED
  BY NegoCorrect, <1>1, PTL

\* Every change is pushed by somebody who read its version, or a later one, after
\* it was written, unless a request failed in between.
THEOREM NewestVersionsTold == NegoSpec => []NewestVersionIsTold
<1>1. NegoInv => NewestVersionIsTold
  BY DEF NegoInv, NewestVersionIsTold, WillTell
<1>2. QED
  BY NegoCorrect, <1>1, PTL

\* send_private posts plain text only if the session was not encrypted at some
\* moment of the send.
THEOREM PlaintextsWereAllowed == NegoSpec => []PlaintextWasAllowed
<1>1. NegoInv => PlaintextWasAllowed
  BY DEF NegoInv
<1>2. QED
  BY NegoCorrect, <1>1, PTL

LEMMA VersionStep ==
    ASSUME NegoTypes, NegoNext, NEW s \in Session, row'[s] # row[s]
    PROVE  \/ row'[s].version = row[s].version + 1
           \/ row'[s] = [row[s] EXCEPT !.payload = TRUE]
<1>0. \A c \in Caller : req[c].id \in Session
  BY DEF NegoTypes, ReqOf
<1>1. ASSUME NEW c \in Caller, NEW r, WriteRow(c, r)
      PROVE  row'[s] = r /\ s = req[c].id
  BY <1>0, <1>1 DEF WriteRow, NegoTypes
<1>2. ASSUME NEW c \in Caller, WriteRequest(c)
      PROVE  \/ row'[s].version = row[s].version + 1
             \/ row'[s] = [row[s] EXCEPT !.payload = TRUE]
  <2>1. PICK r : /\ WriteRow(c, r)
                 /\ \/ r.version = row[req[c].id].version + 1
                    \/ r = [row[req[c].id] EXCEPT !.payload = TRUE]
    BY <1>2 DEF WriteRequest, NextVersion
  <2>2. QED
    BY <1>1, <2>1
<1>3. ASSUME NEW c \in Caller, NEW verdict, WriteAnswer(c, verdict)
      PROVE  row'[s].version = row[s].version + 1
  <2> DEFINE r == [row[req[c].id] EXCEPT !.status = verdict,
                                         !.version = row[req[c].id].version + 1]
  <2>1. WriteRow(c, r)
    BY <1>3 DEF WriteAnswer, NextVersion
  <2>2. r.version = row[req[c].id].version + 1
    BY <1>0 DEF NegoTypes, RowOf
  <2> HIDE DEF r
  <2>3. QED
    BY <1>1, <2>1, <2>2
<1>4. ASSUME NEW c \in Caller, WriteDisable(c)
      PROVE  row'[s].version = row[s].version + 1
  <2>1. PICK r : WriteRow(c, r) /\ r.version = row[req[c].id].version + 1
    BY <1>4 DEF WriteDisable, NextVersion
  <2>2. QED
    BY <1>1, <2>1
<1>5. QED
  BY <1>2, <1>3, <1>4
  DEF NegoNext, AskChange, LoadRow, WriteAccept, WriteReject, ReloadRow, Push, AbortReq,
      ReadNegotiated, ReadMetadata, Post, BeginSend, CreateSession, RotateSession,
      NextMeta

\* Every write of the negotiation takes the version of the row one further, whatever
\* the request had loaded before.
THEOREM VersionsNameStates == NegoSpec => VersionNamesState
<1>1. NegoInv /\ [NegoNext]_negoVars =>
         [\A s \in Session :
             row'[s] # row[s] =>
                 \/ row'[s].version = row[s].version + 1
                 \/ row'[s] = [row[s] EXCEPT !.payload = TRUE]]_negoVars
  BY VersionStep DEF NegoInv, negoVars
<1>2. QED
  BY NegoCorrect, <1>1, PTL DEF NegoSpec, VersionNamesState
-----------------------------------------------------------------------------
(* Session hosts.                                                          *)

StateOf == [root : Handshake \cup Nat, sent : Nat, read : Nat]

HostsTypes ==
    /\ held \in StateOf
    /\ exported \subseteq StateOf
    /\ call \in [Thread -> [op : {"none", "insert", "encrypt", "decrypt"}, state : StateOf]]
    /\ outbound \in Nat

\* Who uses which entry points.
OwnCalls ==
    \A t \in Thread : /\ call[t].op = "insert" => host = "native"
                      /\ call[t].op \in {"encrypt", "decrypt"} => host = "mobile"

\* The keys that were used are those the held session has gone past; nothing has
\* been used or exported if there is none.
KeysBehind ==
    /\ ~reused
    /\ held = None => used = {} /\ exported = {}
    /\ \A k \in used : /\ k[1] = held.root /\ k[3] \in Nat
                       /\ \/ k[2] = "send" /\ k[3] < held.sent
                          \/ k[2] = "read" /\ k[3] < held.read

HostsInv ==
    /\ HostsTypes
    /\ OwnCalls
    /\ forgotten \/ replaced \/ overlap \/ KeysBehind

LEMMA NewStates ==
    /\ None \in StateOf /\ NoCall.op = "none"
    /\ NoCall \in [op : {"none", "insert", "encrypt", "decrypt"}, state : StateOf]
    /\ \A r \in Handshake \cup Nat : New(r) \in StateOf
  BY DEF None, New, StateOf, NoCall

LEMMA NextStates ==
    ASSUME NEW s \in StateOf
    PROVE  /\ Sent(s) \in StateOf /\ Sent(s).root = s.root
           /\ Sent(s).sent = s.sent + 1 /\ Sent(s).read = s.read /\ Sent(s) # None
           /\ Read(s) \in StateOf /\ Read(s).root = s.root
           /\ Read(s).sent = s.sent /\ Read(s).read = s.read + 1 /\ Read(s) # None
  BY DEF Sent, Read, StateOf, None

LEMMA HostsInvInit == HostsInit => HostsInv
<1> SUFFICES ASSUME HostsInit PROVE HostsInv
  OBVIOUS
<1>1. HostsTypes
  BY NewStates DEF HostsInit, HostsTypes
<1>2. OwnCalls
  BY NewStates DEF HostsInit, OwnCalls
<1>3. KeysBehind
  BY DEF HostsInit, KeysBehind
<1>4. QED
  BY <1>1, <1>2, <1>3 DEF HostsInv

\* Encrypting or decrypting with the held session uses a new key.
LEMMA UseKeepsKeysBehind ==
    ASSUME HostsTypes, KeysBehind, UNCHANGED exported,
           \/ UseToEncrypt(held) /\ held' = Sent(held)
           \/ UseToDecrypt(held) /\ held' = Read(held)
    PROVE  KeysBehind'
<1>1. held \in StateOf /\ held.sent \in Nat /\ held.read \in Nat
  BY DEF HostsTypes, StateOf
<1>2. \A n \in Nat : n < n + 1
  OBVIOUS
<1>3. PICK key : /\ Use(key) /\ key[1] = held.root /\ key[3] \in Nat
                 /\ \/ /\ key[2] = "send" /\ key[3] = held.sent
                       /\ held' = Sent(held)
                    \/ /\ key[2] = "read" /\ key[3] = held.read
                       /\ held' = Read(held)
  BY <1>1 DEF UseToEncrypt, UseToDecrypt
<1>4. key \notin used
  BY <1>1, <1>3 DEF KeysBehind
<1>5. ~reused'
  BY <1>3, <1>4, Zenon DEF Use, KeysBehind
<1>6. used' = used \cup {key}
  BY <1>3 DEF Use
<1>7. /\ held'.root = held.root /\ held' # None
      /\ held.sent =< held'.sent /\ held.read =< held'.read
      /\ key[2] = "send" => key[3] < held'.sent
      /\ key[2] = "read" => key[3] < held'.read
      /\ held'.sent \in Nat /\ held'.read \in Nat
  BY <1>1, <1>3, NextStates
<1>8. QED
  BY <1>1, <1>3, <1>5, <1>6, <1>7 DEF KeysBehind

LEMMA HostsInvStep == HostsInv /\ [HostsNext]_hostVars => HostsInv'
<1> SUFFICES ASSUME HostsInv, [HostsNext]_hostVars PROVE HostsInv'
  OBVIOUS
<1>0. HostsTypes /\ OwnCalls
  BY DEF HostsInv
<1>1. ASSUME NEW t \in Thread, NEW o \in {"insert", "encrypt", "decrypt"},
             NEW st \in StateOf, Calls(t, o, st),
             o = "insert" => host = "native",
             o \in {"encrypt", "decrypt"} => host = "mobile",
             outbound' \in Nat,
             UNCHANGED <<host, held, exported, used, reused, forgotten, replaced, overlap>>
      PROVE  HostsInv'
  <2>1. call' = [call EXCEPT ![t] = [op |-> o, state |-> st]]
    BY <1>1 DEF Calls
  <2>2. HostsTypes'
    BY <1>0, <1>1, <2>1 DEF HostsTypes
  <2>3. OwnCalls'
    BY <1>0, <1>1, <2>1 DEF OwnCalls, HostsTypes
  <2>4. KeysBehind => KeysBehind'
    BY <1>1 DEF KeysBehind
  <2>5. QED
    BY <1>1, <2>2, <2>3, <2>4 DEF HostsInv
<1>2. ASSUME NEW t \in Thread, NativeInsert(t) PROVE HostsInv'
  <2>1. HostsTypes'
    BY <1>0, <1>2, NewStates DEF NativeInsert, Returns, HostsTypes
  <2>2. OwnCalls'
    BY <1>0, <1>2, NewStates DEF NativeInsert, Returns, OwnCalls, HostsTypes
  <2>3. KeysBehind => KeysBehind'
    BY <1>2 DEF NativeInsert, StillNone, KeysBehind
  <2>4. QED
    BY <1>2, <2>1, <2>2, <2>3 DEF NativeInsert, HostsInv
<1>3. ASSUME \/ UseToEncrypt(held) /\ held' = Sent(held)
             \/ UseToDecrypt(held) /\ held' = Read(held),
             UNCHANGED <<host, exported, call, outbound, forgotten, replaced, overlap>>
      PROVE  HostsInv'
  <2>1. HostsTypes'
    BY <1>0, <1>3, NextStates DEF HostsTypes
  <2>2. OwnCalls'
    BY <1>0, <1>3 DEF OwnCalls
  <2>3. KeysBehind => KeysBehind'
    BY <1>0, <1>3, UseKeepsKeysBehind
  <2>4. QED
    BY <1>3, <2>1, <2>2, <2>3 DEF HostsInv
<1>4. ASSUME held # None, exported' = exported \cup {held},
             UNCHANGED <<host, held, call, outbound, used, reused, forgotten, replaced,
                         overlap>>
      PROVE  HostsInv'
  <2>1. HostsTypes'
    BY <1>0, <1>4 DEF HostsTypes
  <2>2. OwnCalls'
    BY <1>0, <1>4 DEF OwnCalls
  <2>3. KeysBehind => KeysBehind'
    BY <1>4 DEF KeysBehind
  <2>4. QED
    BY <1>4, <2>1, <2>2, <2>3 DEF HostsInv
<1>5. ASSUME forgotten', held' \in StateOf,
             UNCHANGED call \/ call' = [t \in Thread |-> NoCall],
             UNCHANGED <<host, exported, outbound>>
      PROVE  HostsInv'
  <2>1. HostsTypes'
    BY <1>0, <1>5, NewStates DEF HostsTypes
  <2>2. OwnCalls'
    BY <1>0, <1>5, NewStates DEF OwnCalls
  <2>3. QED
    BY <1>5, <2>1, <2>2 DEF HostsInv
<1>6. ASSUME held' \in StateOf, outbound' \in Nat,
             ~replaced' => ~replaced /\ held = None,
             UNCHANGED <<host, exported, call, used, reused, forgotten, overlap>>
      PROVE  HostsInv'
  <2>1. HostsTypes'
    BY <1>0, <1>6 DEF HostsTypes
  <2>2. OwnCalls'
    BY <1>0, <1>6 DEF OwnCalls
  <2>3. ~replaced' /\ KeysBehind => KeysBehind'
    BY <1>6 DEF KeysBehind
  <2>4. QED
    BY <1>6, <2>1, <2>2, <2>3 DEF HostsInv
<1>7. ASSUME NEW t \in Thread, MobileEncrypt(t) \/ MobileDecrypt(t) PROVE HostsInv'
  <2> DEFINE s == call[t].state
  <2>1. /\ s \in StateOf /\ Returns(t)
        /\ \/ UseToEncrypt(s) /\ held' = Sent(s)
           \/ UseToDecrypt(s) /\ held' = Read(s)
        /\ UNCHANGED <<host, exported, outbound, forgotten, replaced>>
    BY <1>0, <1>7 DEF MobileEncrypt, MobileDecrypt, HostsTypes
  <2>2. ~overlap' => ~overlap /\ held = s
    BY <1>7, Zenon DEF MobileEncrypt, MobileDecrypt
  <2>3. HostsTypes'
    BY <1>0, <2>1, NextStates, NewStates DEF HostsTypes, Returns
  <2>4. OwnCalls'
    BY <1>0, <2>1, NewStates DEF OwnCalls, HostsTypes, Returns
  <2>5. ~overlap' /\ KeysBehind => KeysBehind'
    BY <1>0, <2>1, <2>2, UseKeepsKeysBehind
  <2>6. QED
    BY <2>1, <2>2, <2>3, <2>4, <2>5 DEF HostsInv
<1>8. ASSUME UNCHANGED hostVars PROVE HostsInv'
  BY <1>8 DEF hostVars, HostsInv, HostsTypes, OwnCalls, KeysBehind
<1>9. CASE HostsNext
  <2>1. ASSUME NEW t \in Thread, NativeOutbound(t) PROVE HostsInv'
    BY <1>0, <1>1, <2>1, NewStates DEF NativeOutbound, NativeHasNone, HostsTypes
  <2>2. ASSUME NEW t \in Thread, NEW h \in Handshake, NativeInbound(t, h) PROVE HostsInv'
    BY <1>0, <1>1, <2>2, NewStates DEF NativeInbound, NativeHasNone, HostsTypes
  <2>3. ASSUME NEW t \in Thread, NEW st \in exported, NativeRestore(t, st) PROVE HostsInv'
    BY <1>0, <1>1, <2>3 DEF NativeRestore, NativeHasNone, HostsTypes
  <2>4. ASSUME NEW t \in Thread, NEW o \in {"encrypt", "decrypt"}, MobileCall(t, o)
        PROVE  HostsInv'
    BY <1>0, <1>1, <2>4 DEF MobileCall, HostsTypes
  <2>5. CASE NativeEncrypt \/ NativeDecrypt \/ WebEncrypt \/ WebDecrypt
    BY <1>3, <2>5 DEF NativeEncrypt, NativeDecrypt, WebEncrypt, WebDecrypt
  <2>6. CASE NativeExport \/ WebExport \/ MobileExport
    BY <1>4, <2>6 DEF NativeExport, WebExport, MobileExport, NativeHas
  <2>7. CASE NativeRemove \/ NativeFree \/ WebRemove
    BY <1>5, <2>7, NewStates DEF NativeRemove, NativeFree, WebRemove
  <2>8. ASSUME NEW st \in exported, MobileRestore(st) PROVE HostsInv'
    BY <1>0, <1>5, <2>8 DEF MobileRestore, HostsTypes
  <2>9. CASE WebOutbound
    <3>1. ~replaced' => ~replaced /\ held = None
      BY <2>9, Zenon DEF WebOutbound
    <3>2. QED
      BY <1>0, <1>6, <2>9, <3>1, NewStates DEF WebOutbound, HostsTypes
  <2>10. ASSUME NEW h \in Handshake, WebInbound(h) PROVE HostsInv'
    <3>1. ~replaced' => ~replaced /\ held = None
      BY <2>10, Zenon DEF WebInbound
    <3>2. QED
      BY <1>0, <1>6, <2>10, <3>1, NewStates DEF WebInbound, HostsTypes
  <2>11. ASSUME NEW st \in exported, WebRestore(st) PROVE HostsInv'
    BY <1>0, <1>6, <2>11 DEF WebRestore, MayRestore, HostsTypes
  <2>12. CASE MobileOutbound
    BY <1>0, <1>6, <2>12, NewStates DEF MobileOutbound, HostsTypes
  <2>13. ASSUME NEW h \in Handshake, MobileInbound(h) PROVE HostsInv'
    BY <1>0, <1>6, <2>13, NewStates DEF MobileInbound, HostsTypes
  <2>14. QED
    BY <1>2, <1>7, <1>9, <2>1, <2>2, <2>3, <2>4, <2>5, <2>6, <2>7, <2>8, <2>9, <2>10,
       <2>11, <2>12, <2>13
    DEF HostsNext
<1>10. QED
  BY <1>8, <1>9
LEMMA HostsCorrect == HostsSpec => []HostsInv
  BY HostsInvInit, HostsInvStep, PTL DEF HostsSpec

\* A message key is used twice only if a session was forgotten, replaced in the
\* browser or used by two overlapping calls of the mobile application: for any
\* number of threads, handshakes and exports.
THEOREM KeyReuseExplained == HostsSpec => []KeyReuseNeedsLoss
<1>1. HostsInv => KeyReuseNeedsLoss
  BY DEF HostsInv, KeysBehind, KeyReuseNeedsLoss
<1>2. QED
  BY HostsCorrect, <1>1, PTL

LEMMA StayStep ==
    ASSUME HostsInv, HostsNext, host = "native", held # None, held' # None
    PROVE  held'.root = held.root
<1>0. held \in StateOf /\ OwnCalls /\ \A t \in Thread : call[t].op # "encrypt"
                                                       /\ call[t].op # "decrypt"
  BY DEF HostsInv, HostsTypes, OwnCalls
<1>1. \/ held' = held \/ held' = None
      \/ held' = Sent(held) \/ held' = Read(held)
  BY <1>0
  DEF HostsNext, NativeOutbound, NativeInsert, StillNone, MobileEncrypt, MobileDecrypt,
      MobileCall, NativeInbound, NativeRestore, WebInbound, MobileInbound, WebRestore,
      MobileRestore, NativeEncrypt, NativeDecrypt, NativeExport, NativeRemove, NativeFree,
      WebOutbound, WebEncrypt, WebDecrypt, WebExport, WebRemove, MobileOutbound, MobileExport
<1>2. QED
  BY <1>0, <1>1, NextStates

\* session_manager_create_*_session and restore_session look again under the write
\* lock: no number of threads replaces a session that is there.
THEOREM SessionsStay == HostsSpec => SessionStays
<1>1. HostsInv /\ [HostsNext]_hostVars =>
         [host = "native" /\ held # None /\ held' # None => held'.root = held.root]_hostVars
  BY StayStep
<1>2. QED
  BY HostsCorrect, <1>1, PTL DEF HostsSpec, SessionStays
-----------------------------------------------------------------------------
(* The requests about a group: how they go from statement to statement.   *)

Kinds == {"join", "leave", "remove", "enable", "disable", "push", "dismiss"}
Statements == {"upsert", "depart", "status", "read", "insert", "recount", "forget", "encrypt",
               "plain", "purge", "store", "dismiss"}

\* The steps of each kind of request.
LEMMA StepsOf ==
    /\ DOMAIN Steps = Kinds
    /\ Steps["join"] = JoinSteps /\ Steps["leave"] = LeaveSteps
    /\ Steps["remove"] = RemoveSteps /\ Steps["enable"] = EnableSteps
    /\ Steps["disable"] = DisableSteps /\ Steps["push"] = PushSteps
    /\ Steps["dismiss"] = DismissSteps
BY DEF Steps, Kinds

LEMMA StepsAre ==
    /\ /\ DOMAIN JoinSteps = 1..5 /\ JoinSteps[1] = "upsert" /\ JoinSteps[2] = "status"
       /\ JoinSteps[3] = "read" /\ JoinSteps[4] = "insert" /\ JoinSteps[5] = "recount"
    /\ /\ DOMAIN LeaveSteps = 1..5 /\ LeaveSteps[1] = "depart" /\ LeaveSteps[2] = "status"
       /\ LeaveSteps[3] = "read" /\ LeaveSteps[4] = "insert" /\ LeaveSteps[5] = "recount"
    /\ /\ DOMAIN RemoveSteps = 1..4 /\ RemoveSteps[1] = "status" /\ RemoveSteps[2] = "read"
       /\ RemoveSteps[3] = "insert" /\ RemoveSteps[4] = "forget"
    /\ /\ DOMAIN EnableSteps = 1..3 /\ EnableSteps[1] = "read" /\ EnableSteps[2] = "insert"
       /\ EnableSteps[3] = "encrypt"
    /\ /\ DOMAIN DisableSteps = 1..5 /\ DisableSteps[1] = "status" /\ DisableSteps[2] = "read"
       /\ DisableSteps[3] = "insert" /\ DisableSteps[4] = "plain" /\ DisableSteps[5] = "purge"
    /\ /\ DOMAIN PushSteps = 1..3 /\ PushSteps[1] = "status" /\ PushSteps[2] = "read"
       /\ PushSteps[3] = "store"
    /\ /\ DOMAIN DismissSteps = 1..2 /\ DismissSteps[1] = "dismiss" /\ DismissSteps[2] = "purge"
<1>1. /\ DOMAIN JoinSteps = 1..5 /\ JoinSteps[1] = "upsert" /\ JoinSteps[2] = "status"
      /\ JoinSteps[3] = "read" /\ JoinSteps[4] = "insert" /\ JoinSteps[5] = "recount"
  BY DEF JoinSteps
<1>2. /\ DOMAIN LeaveSteps = 1..5 /\ LeaveSteps[1] = "depart" /\ LeaveSteps[2] = "status"
      /\ LeaveSteps[3] = "read" /\ LeaveSteps[4] = "insert" /\ LeaveSteps[5] = "recount"
  BY DEF LeaveSteps
<1>3. /\ DOMAIN RemoveSteps = 1..4 /\ RemoveSteps[1] = "status" /\ RemoveSteps[2] = "read"
      /\ RemoveSteps[3] = "insert" /\ RemoveSteps[4] = "forget"
  BY DEF RemoveSteps
<1>4. /\ DOMAIN EnableSteps = 1..3 /\ EnableSteps[1] = "read" /\ EnableSteps[2] = "insert"
      /\ EnableSteps[3] = "encrypt"
  BY DEF EnableSteps
<1>5. /\ DOMAIN DisableSteps = 1..5 /\ DisableSteps[1] = "status" /\ DisableSteps[2] = "read"
      /\ DisableSteps[3] = "insert" /\ DisableSteps[4] = "plain" /\ DisableSteps[5] = "purge"
  BY DEF DisableSteps
<1>6. /\ DOMAIN PushSteps = 1..3 /\ PushSteps[1] = "status" /\ PushSteps[2] = "read"
      /\ PushSteps[3] = "store"
  BY DEF PushSteps
<1>7. DOMAIN DismissSteps = 1..2 /\ DismissSteps[1] = "dismiss" /\ DismissSteps[2] = "purge"
  BY DEF DismissSteps
<1>8. QED
  BY <1>1, <1>2, <1>3, <1>4, <1>5, <1>6, <1>7

LEMMA StepsAreDistinct ==
    ASSUME NEW k \in Kinds
    PROVE  /\ \A n \in DOMAIN Steps[k] : n \in Nat /\ Steps[k][n] \in Statements
           /\ \A m, n \in DOMAIN Steps[k] : Steps[k][m] = Steps[k][n] => m = n
           /\ 1 \in DOMAIN Steps[k]
<1>1. CASE k = "join"
  BY <1>1, StepsOf, StepsAre DEF Statements
<1>2. CASE k = "leave"
  BY <1>2, StepsOf, StepsAre DEF Statements
<1>3. CASE k = "remove"
  BY <1>3, StepsOf, StepsAre DEF Statements
<1>4. CASE k = "enable"
  BY <1>4, StepsOf, StepsAre DEF Statements
<1>5. CASE k = "disable"
  BY <1>5, StepsOf, StepsAre DEF Statements
<1>6. CASE k = "push"
  BY <1>6, StepsOf, StepsAre DEF Statements
<1>7. CASE k = "dismiss"
  BY <1>7, StepsOf, StepsAre DEF Statements
<1> QED
  BY <1>1, <1>2, <1>3, <1>4, <1>5, <1>6, <1>7 DEF Kinds

OpType == [kind : Kinds \cup {"none"}, pc : Statements \cup {"idle"}, by : Account,
           whom : SUBSET Account, epoch : Nat, left : SUBSET Account]

\* A request is at one of its statements.
InPlace(o) == IF o.kind = "none" THEN o.pc = "idle"
              ELSE \E n \in DOMAIN Steps[o.kind] : o.pc = Steps[o.kind][n]

OpsTyped == op \in [Handler -> OpType] /\ \A h \in Handler : InPlace(op[h])

\* OpAfter takes a request to the next statement it does not skip, or to its end.
LEMMA NextStatement ==
    ASSUME OpsTyped, NEW h \in Handler, op[h].pc # "idle", NEW skipped,
           NEW n \in DOMAIN Steps[op[h].kind], op[h].pc = Steps[op[h].kind][n]
    PROVE  /\ op[h].kind \in Kinds
           /\ \/ /\ \A m \in DOMAIN Steps[op[h].kind] :
                        m > n => Steps[op[h].kind][m] \in skipped
                 /\ OpAfter(h, skipped) = [op EXCEPT ![h] = IdleOp]
              \/ \E m \in DOMAIN Steps[op[h].kind] :
                    /\ m > n /\ Steps[op[h].kind][m] \notin skipped
                    /\ \A i \in DOMAIN Steps[op[h].kind] :
                          i > n /\ i < m => Steps[op[h].kind][i] \in skipped
                    /\ OpAfter(h, skipped) =
                          [op EXCEPT ![h] = [op[h] EXCEPT !.pc = Steps[op[h].kind][m]]]
<1>1. op[h] \in OpType /\ op[h].kind \in Kinds
  BY DEF OpsTyped, OpType, InPlace
<1> DEFINE S == Steps[op[h].kind]
           now == CHOOSE i \in DOMAIN S : S[i] = op[h].pc
           rest == {i \in DOMAIN S : i > now /\ S[i] \notin skipped}
<1>2. /\ \A i \in DOMAIN S : i \in Nat
      /\ \A i, j \in DOMAIN S : S[i] = S[j] => i = j
  BY <1>1, StepsAreDistinct
<1>3. now = n
  BY <1>2
<1>4. OpAfter(h, skipped) =
        [op EXCEPT ![h] = IF rest = {} THEN IdleOp
                          ELSE [op[h] EXCEPT !.pc = S[CHOOSE i \in rest : \A m \in rest : i =< m]]]
  BY DEF OpAfter
<1> HIDE DEF S, now
<1>5. CASE rest = {}
  BY <1>1, <1>3, <1>4, <1>5 DEF S
<1>6. CASE rest # {}
  <2>1. rest \in SUBSET Nat
    BY <1>2
  <2>2. \E i \in rest : \A m \in rest : i =< m
    BY <1>6, <2>1, LeastNumber
  <2>3. PICK i \in rest : /\ \A m \in rest : i =< m
                          /\ i = CHOOSE j \in rest : \A m \in rest : j =< m
    BY <2>2
  <2>4. i \in DOMAIN S /\ i > n /\ S[i] \notin skipped
    BY <1>3, <2>3
  <2>5. \A j \in DOMAIN S : j > n /\ j < i => S[j] \in skipped
    BY <1>2, <1>3, <2>3
  <2>6. OpAfter(h, skipped) = [op EXCEPT ![h] = [op[h] EXCEPT !.pc = S[i]]]
    BY <1>4, <1>6, <2>3
  <2>7. QED
    BY <1>1, <2>4, <2>5, <2>6 DEF S
<1>7. QED
  BY <1>5, <1>6

\* Where a request can be, by its kind.
LEMMA PhasesOf ==
    ASSUME OpsTyped, NEW h \in Handler
    PROVE  /\ op[h].kind = "none" <=> op[h].pc = "idle"
           /\ op[h].kind = "join" =>
                op[h].pc \in {"upsert", "status", "read", "insert", "recount"}
           /\ op[h].kind = "leave" =>
                op[h].pc \in {"depart", "status", "read", "insert", "recount"}
           /\ op[h].kind = "remove" => op[h].pc \in {"status", "read", "insert", "forget"}
           /\ op[h].kind = "enable" => op[h].pc \in {"read", "insert", "encrypt"}
           /\ op[h].kind = "disable" =>
                op[h].pc \in {"status", "read", "insert", "plain", "purge"}
           /\ op[h].kind = "push" => op[h].pc \in {"status", "read", "store"}
           /\ op[h].kind = "dismiss" => op[h].pc \in {"dismiss", "purge"}
           /\ op[h].kind \in Kinds \cup {"none"}
<1>1. op[h] \in OpType /\ InPlace(op[h])
  BY DEF OpsTyped
<1>2. op[h].kind = "none" <=> op[h].pc = "idle"
  <2>1. op[h].kind # "none" => op[h].pc # "idle"
    BY <1>1, StepsAreDistinct DEF OpType, InPlace, Statements
  <2>2. QED
    BY <1>1, <2>1 DEF InPlace
<1>3. op[h].kind \in Kinds \cup {"none"}
  BY <1>1 DEF OpType
<1>4. ASSUME op[h].kind # "none"
      PROVE  \E n \in DOMAIN Steps[op[h].kind] : op[h].pc = Steps[op[h].kind][n]
  BY <1>1, <1>4 DEF InPlace
<1>5. /\ op[h].kind = "join" => op[h].pc \in {"upsert", "status", "read", "insert", "recount"}
      /\ op[h].kind = "leave" => op[h].pc \in {"depart", "status", "read", "insert", "recount"}
  BY <1>4, StepsOf, StepsAre
<1>6. /\ op[h].kind = "remove" => op[h].pc \in {"status", "read", "insert", "forget"}
      /\ op[h].kind = "enable" => op[h].pc \in {"read", "insert", "encrypt"}
  BY <1>4, StepsOf, StepsAre
<1>7. /\ op[h].kind = "disable" => op[h].pc \in {"status", "read", "insert", "plain", "purge"}
      /\ op[h].kind = "push" => op[h].pc \in {"status", "read", "store"}
      /\ op[h].kind = "dismiss" => op[h].pc \in {"dismiss", "purge"}
  BY <1>4, StepsOf, StepsAre
<1>8. QED
  BY <1>2, <1>3, <1>5, <1>6, <1>7

\* Which request makes a statement.
LEMMA KindsOf ==
    ASSUME OpsTyped, NEW h \in Handler
    PROVE  /\ op[h].pc = "upsert" => op[h].kind = "join"
           /\ op[h].pc = "depart" => op[h].kind = "leave"
           /\ op[h].pc = "recount" => op[h].kind \in {"join", "leave"}
           /\ op[h].pc = "encrypt" => op[h].kind = "enable"
           /\ op[h].pc = "store" => op[h].kind = "push"
           /\ op[h].pc = "forget" => op[h].kind = "remove"
           /\ op[h].pc = "plain" => op[h].kind = "disable"
           /\ op[h].pc = "purge" => op[h].kind \in {"disable", "dismiss"}
           /\ op[h].pc = "dismiss" => op[h].kind = "dismiss"
           /\ op[h].pc = "status" => op[h].kind # "enable"
BY PhasesOf DEF Kinds

\* A request that takes a step stays what it is, at another of its statements, or ends.
LEMMA AfterType ==
    ASSUME OpsTyped, NEW h \in Handler, op[h].pc # "idle", NEW skipped
    PROVE  LET after == OpAfter(h, skipped)
           IN /\ after \in [Handler -> OpType]
              /\ \A g \in Handler : InPlace(after[g]) /\ (g # h => after[g] = op[g])
              /\ \/ after[h] = IdleOp
                 \/ after[h] = [op[h] EXCEPT !.pc = after[h].pc]
              /\ after[h].kind \in {"none", op[h].kind}
              /\ after[h].kind # "none" =>
                    /\ after[h].by = op[h].by /\ after[h].whom = op[h].whom
                    /\ after[h].epoch = op[h].epoch /\ after[h].left = op[h].left
<1>1. op \in [Handler -> OpType] /\ op[h] \in OpType /\ \A g \in Handler : InPlace(op[g])
  BY DEF OpsTyped
<1>2. op[h].kind \in Kinds
  BY PhasesOf
<1>3. PICK n \in DOMAIN Steps[op[h].kind] : op[h].pc = Steps[op[h].kind][n]
  BY <1>1, <1>2 DEF InPlace, Kinds
<1> DEFINE after == OpAfter(h, skipped)
<1>4. CASE after = [op EXCEPT ![h] = IdleOp]
  <2>1. IdleOp \in OpType /\ InPlace(IdleOp) /\ IdleOp.kind = "none"
    <3>1. Owner \in Account /\ {} \in SUBSET Account
      BY DEF Account
    <3>2. IdleOp \in OpType
      BY <3>1 DEF IdleOp, OpType
    <3>3. QED
      BY <3>2 DEF IdleOp, InPlace
  <2> HIDE DEF after
  <2>2. after[h] = IdleOp /\ after \in [Handler -> OpType]
        /\ \A g \in Handler : g # h => after[g] = op[g]
    BY <1>1, <1>4, <2>1
  <2>3. QED
    BY <1>1, <2>1, <2>2 DEF after
<1>5. ASSUME NEW m \in DOMAIN Steps[op[h].kind],
             after = [op EXCEPT ![h] = [op[h] EXCEPT !.pc = Steps[op[h].kind][m]]]
      PROVE  /\ after \in [Handler -> OpType]
             /\ \A g \in Handler : InPlace(after[g]) /\ (g # h => after[g] = op[g])
             /\ after[h] = [op[h] EXCEPT !.pc = after[h].pc]
             /\ after[h].kind = op[h].kind
             /\ after[h].by = op[h].by /\ after[h].whom = op[h].whom
             /\ after[h].epoch = op[h].epoch /\ after[h].left = op[h].left
  <2> HIDE DEF after
  <2>0. Steps[op[h].kind][m] \in Statements
    BY <1>2, StepsAreDistinct
  <2> DEFINE q == Steps[op[h].kind][m]
  <2>1. q \in Statements
    BY <2>0
  <2> HIDE DEF q
  <2>2. after[h] = [op[h] EXCEPT !.pc = q] /\ after \in [Handler -> OpType]
        /\ \A g \in Handler : g # h => after[g] = op[g]
    BY <1>1, <1>5, <2>1 DEF OpType, q
  <2>3. /\ after[h].pc = q /\ after[h].kind = op[h].kind
        /\ after[h].by = op[h].by /\ after[h].whom = op[h].whom
        /\ after[h].epoch = op[h].epoch /\ after[h].left = op[h].left
    BY <1>1, <2>2 DEF OpType
  <2>4. InPlace(after[h])
    <3>1. after[h].kind # "none"
      BY <1>2, <2>3 DEF Kinds
    <3>2. QED
      BY <2>3, <3>1 DEF InPlace, q
  <2>5. QED
    BY <1>1, <2>2, <2>3, <2>4
<1>6. \/ after = [op EXCEPT ![h] = IdleOp]
      \/ \E m \in DOMAIN Steps[op[h].kind] :
            after = [op EXCEPT ![h] = [op[h] EXCEPT !.pc = Steps[op[h].kind][m]]]
  BY <1>3, NextStatement
<1> HIDE DEF after
<1>7. QED
  BY <1>4, <1>5, <1>6 DEF after

\* Requests that change who is a member end by counting the members.
LEMMA AfterMembership ==
    ASSUME OpsTyped, NEW h \in Handler, op[h].kind \in {"join", "leave"},
           op[h].pc # "recount", NEW skipped, "recount" \notin skipped
    PROVE  OpAfter(h, skipped)[h].kind = op[h].kind
<1>1. op[h] \in OpType /\ op[h].pc # "idle" /\ InPlace(op[h]) /\ op \in [Handler -> OpType]
  BY PhasesOf DEF OpsTyped
<1>2. PICK n \in DOMAIN Steps[op[h].kind] : op[h].pc = Steps[op[h].kind][n]
  BY <1>1 DEF InPlace
<1>3. n \in 1..4 /\ 5 \in DOMAIN Steps[op[h].kind] /\ Steps[op[h].kind][5] = "recount"
  <2>1. CASE op[h].kind = "join"
    BY <1>2, <2>1, StepsOf, StepsAre
  <2>2. CASE op[h].kind = "leave"
    BY <1>2, <2>2, StepsOf, StepsAre
  <2>3. QED
    BY <2>1, <2>2
<1>4. PICK m \in DOMAIN Steps[op[h].kind] :
         OpAfter(h, skipped) = [op EXCEPT ![h] = [op[h] EXCEPT !.pc = Steps[op[h].kind][m]]]
  <2>1. 5 > n
    BY <1>3
  <2>2. ~\A m \in DOMAIN Steps[op[h].kind] : m > n => Steps[op[h].kind][m] \in skipped
    BY <1>3, <2>1
  <2>3. QED
    BY SMTT(30), <1>1, <1>2, <2>2, NextStatement
<1>5. QED
  BY <1>1, <1>4 DEF OpType

\* Where the requests go that matter to the keys.
LEMMA AfterLeaving ==
    ASSUME OpsTyped, NEW h \in Handler, op[h].kind = "leave"
    PROVE  /\ op[h].pc = "depart" => OpAfter(h, {})[h].pc = "status"
           /\ op[h].pc = "status" => OpAfter(h, {})[h].pc = "read"
           /\ op[h].pc = "read" => OpAfter(h, {})[h].pc = "insert"
           /\ op[h].pc = "insert" => OpAfter(h, {})[h].pc = "recount"
<1>1. op[h] \in OpType /\ op[h].pc # "idle" /\ InPlace(op[h]) /\ op \in [Handler -> OpType]
  BY PhasesOf DEF OpsTyped
<1>2. PICK n \in DOMAIN Steps["leave"] : op[h].pc = Steps["leave"][n]
  BY <1>1 DEF InPlace
<1>3. n \in 1..5
  BY StepsOf, StepsAre
<1>4. CASE n = 5
  BY <1>2, <1>4, StepsOf, StepsAre
<1>5. CASE n # 5
  <2>1. n + 1 \in DOMAIN Steps["leave"] /\ n + 1 > n
    BY <1>3, <1>5, StepsOf, StepsAre
  <2>2. PICK m \in DOMAIN Steps["leave"] :
           /\ m > n /\ \A i \in DOMAIN Steps["leave"] : ~(i > n /\ i < m)
           /\ OpAfter(h, {}) = [op EXCEPT ![h] = [op[h] EXCEPT !.pc = Steps["leave"][m]]]
    BY SMTT(30), <1>1, <1>2, <2>1, NextStatement
  <2>3. m \in 1..5
    BY StepsOf, StepsAre
  <2>4. m = n + 1
    BY <1>3, <2>1, <2>2, <2>3
  <2>5. OpAfter(h, {})[h].pc = Steps["leave"][n + 1]
    BY <1>1, <2>2, <2>4 DEF OpType
  <2>6. QED
    BY <1>2, <1>3, <1>5, <2>5, StepsOf, StepsAre
<1>6. QED
  BY <1>4, <1>5

LEMMA AfterKeys ==
    ASSUME OpsTyped, NEW h \in Handler, op[h].kind \in {"enable", "push"}
    PROVE  /\ op[h].pc = "status" => OpAfter(h, {})[h].pc = "read"
           /\ op[h].pc = "read" => OpAfter(h, {})[h].pc =
                                        IF op[h].kind = "push" THEN "store" ELSE "insert"
           /\ op[h].pc = "insert" => OpAfter(h, {})[h].pc = "encrypt"
           /\ op[h].pc \in {"encrypt", "store"} => OpAfter(h, {})[h] = IdleOp
<1>1. op[h] \in OpType /\ op[h].pc # "idle" /\ InPlace(op[h]) /\ op \in [Handler -> OpType]
  BY PhasesOf DEF OpsTyped
<1> DEFINE S == Steps[op[h].kind]
<1>2. PICK n \in DOMAIN S : op[h].pc = S[n]
  BY <1>1 DEF InPlace
<1>3. DOMAIN S = 1..3
  BY StepsOf, StepsAre
<1>4. \/ n = 3 /\ OpAfter(h, {}) = [op EXCEPT ![h] = IdleOp]
      \/ \E m \in DOMAIN S :
           /\ m > n /\ \A i \in DOMAIN S : ~(i > n /\ i < m)
           /\ OpAfter(h, {}) = [op EXCEPT ![h] = [op[h] EXCEPT !.pc = S[m]]]
  <2>1. n # 3 => ~\A m \in DOMAIN S : m > n => S[m] \in {}
    <3>1. n # 3 => 3 \in DOMAIN S /\ 3 > n
      BY <1>3
    <3>2. QED
      BY <3>1
  <2>2. \/ /\ \A m \in DOMAIN S : m > n => S[m] \in {}
           /\ OpAfter(h, {}) = [op EXCEPT ![h] = IdleOp]
        \/ \E m \in DOMAIN S :
             /\ m > n /\ \A i \in DOMAIN S : i > n /\ i < m => S[i] \in {}
             /\ OpAfter(h, {}) = [op EXCEPT ![h] = [op[h] EXCEPT !.pc = S[m]]]
    BY <1>1, <1>2, NextStatement
  <2>3. QED
    BY <2>1, <2>2
<1>5. CASE n = 3 /\ OpAfter(h, {}) = [op EXCEPT ![h] = IdleOp]
  <2>1. OpAfter(h, {})[h] = IdleOp
    BY <1>1, <1>5
  <2>2. op[h].pc \in {"encrypt", "store"}
    BY <1>2, <1>5, StepsOf, StepsAre
  <2>3. QED
    BY <2>1, <2>2
<1>6. ASSUME NEW m \in DOMAIN S, m > n, \A i \in DOMAIN S : ~(i > n /\ i < m),
             OpAfter(h, {}) = [op EXCEPT ![h] = [op[h] EXCEPT !.pc = S[m]]]
      PROVE  m = n + 1 /\ n \in 1..2 /\ OpAfter(h, {})[h].pc = S[n + 1]
  <2>1. m = n + 1 /\ n \in 1..2
    <3>1. n \in 1..3 /\ m \in 1..3
      BY <1>3
    <3>2. n + 1 \in DOMAIN S
      BY <1>3, <1>6, <3>1
    <3>3. QED
      BY <1>6, <3>1, <3>2
  <2>2. OpAfter(h, {})[h].pc = S[m]
    BY <1>1, <1>6 DEF OpType
  <2>3. QED
    BY <2>1, <2>2
<1>7. ASSUME n \in 1..2, OpAfter(h, {})[h].pc = S[n + 1]
      PROVE  /\ op[h].pc = "status" => OpAfter(h, {})[h].pc = "read"
             /\ op[h].pc = "read" => OpAfter(h, {})[h].pc =
                                        IF op[h].kind = "push" THEN "store" ELSE "insert"
             /\ op[h].pc = "insert" => OpAfter(h, {})[h].pc = "encrypt"
             /\ op[h].pc \notin {"encrypt", "store"}
  <2>1. CASE op[h].kind = "push"
    BY <1>2, <1>7, <2>1, StepsOf, StepsAre
  <2>2. CASE op[h].kind = "enable"
    BY <1>2, <1>7, <2>2, StepsOf, StepsAre
  <2>3. QED
    BY <2>1, <2>2
<1>8. QED
  BY <1>4, <1>5, <1>6, <1>7
-----------------------------------------------------------------------------
(* The members of a group and their keys *)

KeyType == [from : Account, to : Account, device : Account, epoch : Nat, late : BOOLEAN]

\* What requests know of the epoch: it is there once the group has been encrypted, and
\* whoever stores keys has an epoch that has begun.
EpochsOf(h) ==
    /\ op[h].epoch =< epoch
    /\ op[h].kind = "push" /\ op[h].pc = "read" => epoch >= 1
    /\ op[h].kind = "push" /\ op[h].pc = "store" => op[h].epoch >= 1
    /\ op[h].kind = "enable" /\ op[h].pc = "encrypt" => op[h].epoch + 1 =< epoch

SenderTypes ==
    /\ member \subseteq Account /\ faults \subseteq Account
    /\ count \in 0..Cardinality(Account)
    /\ dismissed \in BOOLEAN /\ encrypted \in BOOLEAN
    /\ epoch \in 0..MaxEpoch
    /\ keys \subseteq KeyType
    /\ \A k \in keys : k.epoch >= 1 /\ k.epoch =< epoch
    /\ OpsTyped
    /\ encrypted => epoch >= 1
    /\ \A h \in Handler : EpochsOf(h)
    /\ \A h \in Handler : op[h].kind \in {"join", "leave"} => op[h].whom # {}

\* Keys somebody would be given later than epoch e come from requests that had checked
\* the membership before it ended.
OldTo(u, e) == \A k \in keys : k.to = u /\ k.epoch > e => k.late
Settled(u)  == \A k \in keys : k.to = u /\ k.epoch = epoch => k.late

\* A request that is going to start an epoch because u has left.
Rotating(h, u) ==
    /\ op[h].kind = "leave" /\ u \in op[h].whom
    /\ \/ op[h].pc \in {"status", "read"}
       \/ op[h].pc = "insert" /\ OldTo(u, op[h].epoch)

Gone(u) == u \in Account \ (member \cup faults)

\* Requests that store keys know who has left since their checks.
LeftIsKnown ==
    \A h \in Handler : op[h].kind \in {"push", "enable"} => op[h].whom \ member \subseteq op[h].left

EnablingIsSafe ==
    \A u \in Account, h \in Handler :
        Gone(u) /\ op[h].kind = "enable" /\ op[h].pc \in {"insert", "encrypt"}
            => OldTo(u, op[h].epoch)

LeavingIsSafe ==
    \A u \in Account :
        Gone(u) /\ encrypted => Settled(u) \/ \E h \in Handler : Rotating(h, u)

CountIsComing ==
    faults = {} => \/ count = Cardinality(member)
                   \/ \E h \in Handler : op[h].kind \in {"join", "leave"}

SendersInv == SenderTypes /\ LeftIsKnown /\ EnablingIsSafe /\ LeavingIsSafe /\ CountIsComing

\* What a step of request h leaves of the requests.
Moved(h) ==
    /\ \A g \in Handler \ {h} :
          /\ op'[g].kind = op[g].kind /\ op'[g].pc = op[g].pc /\ op'[g].by = op[g].by
          /\ op'[g].whom = op[g].whom /\ op'[g].epoch = op[g].epoch
          /\ op[g].left \subseteq op'[g].left
    /\ op'[h].kind \in {"none", op[h].kind}
    /\ op'[h].kind # "none" =>
          op'[h].by = op[h].by /\ op'[h].whom = op[h].whom /\ op'[h].left = op[h].left

LEMMA ConstantsAreNat == MaxEpoch \in Nat /\ MaxKeys \in Nat /\ MaxFaults \in Nat
BY GroupKeysAssumption DEF GroupKeysAssumption

LEMMA IdleOpType ==
    /\ IdleOp \in OpType /\ InPlace(IdleOp) /\ IdleOp.kind = "none" /\ IdleOp.epoch = 0
    /\ IdleOp.pc = "idle"
<1>1. Owner \in Account /\ {} \in SUBSET Account
  BY DEF Account
<1>2. IdleOp \in OpType
  BY <1>1 DEF IdleOp, OpType
<1>3. QED
  BY <1>2 DEF IdleOp, InPlace

\* A statement after which the request goes on or ends ...
LEMMA MovesOn ==
    ASSUME OpsTyped, NEW h \in Handler, op[h].pc # "idle", NEW skipped,
           op' = OpAfter(h, skipped)
    PROVE  OpsTyped' /\ Moved(h) /\ op'[h].epoch \in {0, op[h].epoch}
<1> DEFINE after == OpAfter(h, skipped)
<1>1. /\ after \in [Handler -> OpType]
      /\ \A g \in Handler : InPlace(after[g]) /\ (g # h => after[g] = op[g])
      /\ after[h] = IdleOp \/ after[h].kind # "none"
      /\ after[h].kind \in {"none", op[h].kind}
      /\ after[h].kind # "none" =>
            /\ after[h].by = op[h].by /\ after[h].whom = op[h].whom
            /\ after[h].epoch = op[h].epoch /\ after[h].left = op[h].left
  <2>1. op[h].kind # "none" /\ op[h] \in OpType
    BY PhasesOf DEF OpsTyped
  <2>2. after[h] = IdleOp \/ after[h] = [op[h] EXCEPT !.pc = after[h].pc]
    BY AfterType
  <2>3. after[h] = IdleOp \/ after[h].kind # "none"
    BY <2>1, <2>2 DEF OpType
  <2>4. QED
    BY <2>3, AfterType
<1>2. op' = after
  OBVIOUS
<1> HIDE DEF after
<1>3. OpsTyped'
  BY <1>1, <1>2 DEF OpsTyped, InPlace
<1>4. Moved(h)
  BY <1>1, <1>2 DEF Moved
<1>5. op'[h].epoch \in {0, op[h].epoch}
  BY <1>1, <1>2, IdleOpType
<1>6. QED
  BY <1>3, <1>4, <1>5

\* ... or is given up, ...
LEMMA MovesToIdle ==
    ASSUME OpsTyped, NEW h \in Handler, op' = [op EXCEPT ![h] = IdleOp]
    PROVE  OpsTyped' /\ Moved(h) /\ op'[h] = IdleOp
<1>1. /\ op'[h] = IdleOp /\ op' \in [Handler -> OpType]
      /\ \A g \in Handler \ {h} : op'[g] = op[g]
  BY IdleOpType DEF OpsTyped
<1>2. \A g \in Handler : InPlace(op'[g])
  BY <1>1, IdleOpType DEF OpsTyped
<1>3. OpsTyped'
  BY <1>1, <1>2 DEF OpsTyped, InPlace
<1>4. QED
  BY <1>1, <1>3, IdleOpType DEF Moved

\* ... reads the epoch, ...
LEMMA MovesReading ==
    ASSUME SenderTypes, NEW h \in Handler, ReadEpoch(h)
    PROVE  /\ OpsTyped' /\ Moved(h)
           /\ op'[h].epoch = epoch /\ op'[h].pc = OpAfter(h, {})[h].pc
<1> DEFINE after == OpAfter(h, {})
<1>0. op[h].pc # "idle" /\ OpsTyped /\ epoch \in Nat
  BY ConstantsAreNat DEF ReadEpoch, OpAt, SenderTypes
<1>1. /\ after \in [Handler -> OpType]
      /\ \A g \in Handler : InPlace(after[g]) /\ (g # h => after[g] = op[g])
      /\ after[h].kind \in {"none", op[h].kind}
      /\ after[h].kind # "none" =>
            /\ after[h].by = op[h].by /\ after[h].whom = op[h].whom
            /\ after[h].epoch = op[h].epoch /\ after[h].left = op[h].left
  BY ZenonT(30), <1>0, AfterType
<1>2. op' = [after EXCEPT ![h].epoch = epoch]
  BY DEF ReadEpoch
<1> HIDE DEF after
<1>3. /\ op' \in [Handler -> OpType] /\ \A g \in Handler \ {h} : op'[g] = after[g]
      /\ op'[h].kind = after[h].kind /\ op'[h].pc = after[h].pc /\ op'[h].by = after[h].by
      /\ op'[h].whom = after[h].whom /\ op'[h].left = after[h].left
      /\ op'[h].epoch = epoch
  BY <1>0, <1>1, <1>2 DEF OpType
<1>4. \A g \in Handler : InPlace(op'[g])
  <2>1. \A g \in Handler \ {h} : InPlace(op'[g])
    BY <1>1, <1>3
  <2>2. InPlace(op'[h])
    <3>1. InPlace(after[h]) /\ op'[h].kind = after[h].kind /\ op'[h].pc = after[h].pc
      BY <1>1, <1>3
    <3>2. QED
      BY <3>1 DEF InPlace
  <2>3. QED
    BY <2>1, <2>2
<1>5. OpsTyped'
  BY <1>3, <1>4 DEF OpsTyped, InPlace
<1>6. Moved(h)
  BY <1>1, <1>3 DEF Moved
<1>7. QED
  BY <1>3, <1>5, <1>6 DEF after

\* ... or ends a membership, which pushes in progress take note of.
LEMMA MovesLeaving ==
    ASSUME OpsTyped, NEW h \in Handler, Depart(h)
    PROVE  /\ OpsTyped' /\ Moved(h)
           /\ op'[h].kind = "leave" /\ op'[h].pc = "status" /\ op'[h].epoch \in {0, op[h].epoch}
           /\ \A g \in Handler : op[g].kind \in {"push", "enable"} =>
                op'[g].left = op[g].left \cup (op[h].whom \cap op[g].whom)
<1> DEFINE after == OpAfter(h, {})
<1>0. /\ op[h].pc = "depart" /\ op[h].kind = "leave" /\ op[h].pc # "idle"
      /\ op \in [Handler -> OpType] /\ \A g \in Handler : InPlace(op[g])
  BY KindsOf DEF Depart, OpAt, OpsTyped
<1>1. /\ after \in [Handler -> OpType]
      /\ \A g \in Handler : InPlace(after[g]) /\ (g # h => after[g] = op[g])
      /\ after[h].kind \in {"none", op[h].kind}
      /\ after[h].kind # "none" =>
            /\ after[h].by = op[h].by /\ after[h].whom = op[h].whom
            /\ after[h].epoch = op[h].epoch /\ after[h].left = op[h].left
  BY ZenonT(30), <1>0, AfterType
<1>2. after[h].pc = "status" /\ after[h].kind = "leave"
  BY <1>0, AfterLeaving, AfterMembership
<1>3. op' = [g \in Handler |->
                IF op[g].kind \in {"push", "enable"}
                THEN [op[g] EXCEPT !.left = @ \cup (op[h].whom \cap op[g].whom)]
                ELSE after[g]]
  BY DEF Depart
<1> HIDE DEF after
<1>4. ASSUME NEW g \in Handler, op[g].kind \in {"push", "enable"}
      PROVE  /\ op'[g] \in OpType /\ g # h
             /\ op'[g].kind = op[g].kind /\ op'[g].pc = op[g].pc /\ op'[g].by = op[g].by
             /\ op'[g].whom = op[g].whom /\ op'[g].epoch = op[g].epoch
             /\ op'[g].left = op[g].left \cup (op[h].whom \cap op[g].whom)
  <2>1. op[g] \in OpType /\ op[h] \in OpType
    BY <1>0
  <2>2. op'[g] = [op[g] EXCEPT !.left = @ \cup (op[h].whom \cap op[g].whom)]
    BY <1>3, <1>4
  <2>3. QED
    BY <1>0, <1>4, <2>1, <2>2 DEF OpType
<1>5. \A g \in Handler : op[g].kind \notin {"push", "enable"} => op'[g] = after[g]
  BY <1>3
<1>6. op' \in [Handler -> OpType]
  BY <1>1, <1>3, <1>4, <1>5
<1>7. \A g \in Handler : InPlace(op'[g])
  <2>1. ASSUME NEW g \in Handler, op[g].kind \in {"push", "enable"} PROVE InPlace(op'[g])
    <3>1. InPlace(op[g]) /\ op'[g].kind = op[g].kind /\ op'[g].pc = op[g].pc
      BY <1>0, <1>4, <2>1
    <3>2. QED
      BY <3>1 DEF InPlace
  <2>2. QED
    BY <1>1, <1>5, <2>1
<1>8. OpsTyped'
  BY <1>6, <1>7 DEF OpsTyped, InPlace
<1>9. Moved(h)
  BY <1>0, <1>1, <1>4, <1>5 DEF Moved
<1>10. QED
  BY <1>0, <1>1, <1>2, <1>4, <1>5, <1>8, <1>9

LEMMA TypesKept ==
    ASSUME SenderTypes, NEW h \in Handler, OpsTyped', Moved(h), EpochsOf(h)',
           epoch =< epoch', epoch' \in 0..MaxEpoch,
           member' \subseteq Account, faults' \subseteq Account,
           count' \in 0..Cardinality(Account),
           dismissed' \in BOOLEAN, encrypted' \in BOOLEAN, encrypted' => epoch' >= 1,
           keys' \subseteq KeyType, \A k \in keys' : k.epoch >= 1 /\ k.epoch =< epoch'
    PROVE  SenderTypes'
<1>0. epoch \in Nat /\ epoch' \in Nat /\ \A g \in Handler : op[g].epoch \in Nat
  BY ConstantsAreNat DEF SenderTypes, OpsTyped, OpType
<1>1. ASSUME NEW g \in Handler PROVE EpochsOf(g)'
  <2>1. CASE g = h
    BY <2>1 DEF EpochsOf
  <2>2. CASE g # h
    <3>1. /\ op'[g].kind = op[g].kind /\ op'[g].pc = op[g].pc /\ op'[g].epoch = op[g].epoch
          /\ EpochsOf(g)
      BY <2>2 DEF Moved, SenderTypes
    <3>2. op[g].epoch \in Nat
      BY <1>0
    <3>3. QED
      BY <1>0, <3>1, <3>2 DEF EpochsOf
  <2>3. QED
    BY <2>1, <2>2
<1>2. \A g \in Handler : op'[g].kind \in {"join", "leave"} => op'[g].whom # {}
  BY DEF Moved, SenderTypes
<1>3. QED
  BY <1>1, <1>2 DEF SenderTypes

\* The epoch a request knows stays behind the newest one.
LEMMA EpochsKept ==
    ASSUME SenderTypes, NEW h \in Handler, op[h].pc \notin {"idle", "status", "read"},
           op' = OpAfter(h, {}), epoch =< epoch', epoch' \in Nat,
           op[h].pc = "insert" => op[h].epoch + 1 =< epoch'
    PROVE  OpsTyped' /\ Moved(h) /\ EpochsOf(h)'
<1>1. OpsTyped /\ EpochsOf(h) /\ op[h].epoch \in Nat /\ epoch \in Nat
  BY ConstantsAreNat DEF SenderTypes, OpsTyped, OpType
<1>2. OpsTyped' /\ Moved(h) /\ op'[h].epoch \in {0, op[h].epoch}
  BY <1>1, MovesOn
<1>3. op'[h].epoch =< epoch'
  BY <1>1, <1>2 DEF EpochsOf
<1>4. op'[h].kind # "push"
  <2>1. SUFFICES ASSUME op'[h].kind = "push" PROVE FALSE
    OBVIOUS
  <2>2. op[h].kind = "push"
    BY <1>2, <2>1 DEF Moved
  <2>3. op[h].pc = "store"
    BY <1>1, <2>2, PhasesOf
  <2>4. op'[h] = IdleOp
    BY <1>1, <2>2, <2>3, AfterKeys
  <2>5. QED
    BY <2>1, <2>4, IdleOpType
<1>5. op'[h].kind = "enable" => op[h].pc = "insert" /\ op[h].kind = "enable"
  <2>1. SUFFICES ASSUME op'[h].kind = "enable", op[h].pc # "insert" PROVE FALSE
    BY <1>2 DEF Moved
  <2>2. op[h].kind = "enable"
    BY <1>2, <2>1 DEF Moved
  <2>3. op[h].pc = "encrypt"
    BY <1>1, <2>1, <2>2, PhasesOf
  <2>4. op'[h] = IdleOp
    BY <1>1, <2>2, <2>3, AfterKeys
  <2>5. QED
    BY <2>1, <2>4, IdleOpType
<1>6. op'[h].kind = "enable" => op'[h].epoch + 1 =< epoch'
  BY <1>1, <1>2, <1>5 DEF EpochsOf
<1>7. QED
  BY <1>2, <1>3, <1>4, <1>6 DEF EpochsOf

LEMMA NewKeysType ==
    ASSUME OpsTyped, NEW h \in Handler, NEW e \in Nat
    PROVE  /\ NewKeys(h, e) \subseteq KeyType
           /\ \A k \in NewKeys(h, e) : /\ k.epoch = e /\ k.to \in op[h].whom
                                       /\ k.to \in op[h].left => k.late
<1>1. op[h] \in OpType
  BY DEF OpsTyped
<1>2. ASSUME NEW u \in op[h].whom, NEW k,
             k = [from |-> op[h].by, to |-> u, device |-> u, epoch |-> e,
                  late |-> u \in op[h].left]
      PROVE  k \in KeyType /\ k.epoch = e /\ k.to = u /\ (u \in op[h].left => k.late)
  <2> DEFINE b == u \in op[h].left
  <2>1. b \in BOOLEAN /\ op[h].by \in Account /\ u \in Account
    BY <1>1 DEF OpType
  <2>2. k = [from |-> op[h].by, to |-> u, device |-> u, epoch |-> e, late |-> b]
    BY <1>2
  <2>3. u \in op[h].left => b
    OBVIOUS
  <2> HIDE DEF b
  <2>4. k \in KeyType /\ k.epoch = e /\ k.to = u /\ k.late = b
    BY <2>1, <2>2 DEF KeyType
  <2>5. QED
    BY <2>3, <2>4, Zenon
<1>3. QED
  BY <1>2 DEF NewKeys

LEMMA SenderTypesInit == GroupKeysInit => SenderTypes
<1> SUFFICES ASSUME GroupKeysInit PROVE SenderTypes
  OBVIOUS
<1>1. OpsTyped /\ \A h \in Handler : op[h] = IdleOp
  BY IdleOpType DEF GroupKeysInit, OpsTyped
<1>2. \A h \in Handler : EpochsOf(h)
  BY <1>1, IdleOpType DEF GroupKeysInit, EpochsOf
<1>3. Cardinality(Account) \in Nat /\ Cardinality(Account) # 0
  <2>1. IsFiniteSet(Account)
    BY GroupKeysAssumption, FS_AddElement DEF GroupKeysAssumption, Account
  <2>2. Account # {}
    BY DEF Account
  <2>3. QED
    BY <2>1, <2>2, FS_CardinalityType, FS_EmptySet
<1>4. member \subseteq Account /\ faults \subseteq Account /\ keys = {}
      /\ dismissed \in BOOLEAN /\ encrypted = FALSE /\ epoch = 0 /\ count = 1
  BY DEF GroupKeysInit, Account
<1>5. \A h \in Handler : op[h].kind \notin {"join", "leave"}
  BY <1>1, IdleOpType
<1>6. epoch \in 0..MaxEpoch /\ count \in 0..Cardinality(Account)
  BY <1>3, <1>4, ConstantsAreNat
<1>7. QED
  BY <1>1, <1>2, <1>4, <1>5, <1>6 DEF SenderTypes

LEMMA AccountsAreFinite ==
    /\ IsFiniteSet(Account) /\ Cardinality(Account) \in Nat
    /\ \A S \in SUBSET Account : Cardinality(S) \in 0..Cardinality(Account)
<1>1. IsFiniteSet(Account)
  BY GroupKeysAssumption, FS_AddElement DEF GroupKeysAssumption, Account
<1>2. ASSUME NEW S \in SUBSET Account PROVE Cardinality(S) \in 0..Cardinality(Account)
  <2>1. IsFiniteSet(S) /\ Cardinality(S) =< Cardinality(Account)
    BY <1>1, FS_Subset
  <2>2. Cardinality(S) \in Nat /\ Cardinality(Account) \in Nat
    BY <1>1, <2>1, FS_CardinalityType
  <2>3. QED
    BY <2>1, <2>2
<1>3. QED
  BY <1>1, <1>2, FS_CardinalityType

\* A new request: it is at its first statement and knows no epoch.
LEMMA AskTypes ==
    ASSUME SenderTypes, NEW h \in Handler, NEW kind \in DOMAIN Steps, NEW u \in Account,
           NEW whom \in SUBSET Account, Ask(h, kind, u, whom)
    PROVE  /\ SenderTypes' /\ \A g \in Handler \ {h} : op'[g] = op[g]
           /\ op[h].pc = "idle" /\ op[h].kind = "none"
           /\ op'[h].kind = kind /\ op'[h].whom = whom /\ op'[h].pc = Steps[kind][1]
<1>1. kind \in Kinds /\ op \in [Handler -> OpType] /\ \A g \in Handler : InPlace(op[g])
  BY StepsOf DEF SenderTypes, OpsTyped
<1> DEFINE p == Steps[kind][1]
           b == IF kind \in {"enable", "push"} THEN u ELSE Owner
<1>2. p \in Statements /\ b \in Account /\ 1 \in DOMAIN Steps[kind]
  BY <1>1, StepsAreDistinct DEF Account
<1>3. op' = [op EXCEPT ![h] =
        [kind |-> kind, pc |-> p, by |-> b, whom |-> whom, epoch |-> 0, left |-> {}]]
  BY DEF Ask
<1>4. p = Steps[kind][1]
  OBVIOUS
<1> HIDE DEF p, b
<1> DEFINE new == [kind |-> kind, pc |-> p, by |-> b, whom |-> whom, epoch |-> 0, left |-> {}]
<1>6. /\ new \in OpType
      /\ new.kind = kind /\ new.pc = p /\ new.whom = whom /\ new.epoch = 0 /\ new.left = {}
  BY <1>1, <1>2 DEF OpType
<1>7. op' = [op EXCEPT ![h] = new]
  BY <1>3
<1> HIDE DEF new
<1>8. op'[h] = new /\ op' \in [Handler -> OpType] /\ \A g \in Handler \ {h} : op'[g] = op[g]
  BY <1>1, <1>6, <1>7
<1>9. InPlace(new)
  BY <1>1, <1>2, <1>4, <1>6 DEF InPlace, Kinds
<1>10. OpsTyped'
  <2>1. \A g \in Handler : InPlace(op'[g])
    BY <1>1, <1>8, <1>9
  <2>2. QED
    BY <1>8, <2>1 DEF OpsTyped, InPlace
<1>11. op[h].pc = "idle" /\ op[h].kind = "none"
  BY PhasesOf DEF Ask, OpAt, SenderTypes
<1>12. UNCHANGED <<member, count, dismissed, encrypted, epoch, keys, faults>>
  BY DEF Ask, groupVars
<1>13. ASSUME NEW g \in Handler PROVE EpochsOf(g)'
  <2>1. CASE g = h
    <3>1. op'[g].epoch = 0 /\ op'[g].kind = kind /\ op'[g].pc = p
      BY <1>6, <1>8, <2>1
    <3>2. kind = "push" => p = "status"
      BY <1>4, StepsOf, StepsAre
    <3>3. kind = "enable" => p = "read"
      BY <1>4, StepsOf, StepsAre
    <3>4. epoch' >= 0
      BY <1>12, ConstantsAreNat DEF SenderTypes
    <3>5. QED
      BY <3>1, <3>2, <3>3, <3>4 DEF EpochsOf
  <2>2. CASE g # h
    <3>1. op'[g] = op[g] /\ EpochsOf(g) /\ epoch' = epoch
      BY <1>8, <1>12, <2>2 DEF SenderTypes
    <3>2. QED
      BY <3>1 DEF EpochsOf
  <2>3. QED
    BY <2>1, <2>2
<1>14. kind \in {"join", "leave"} => whom # {}
  <2>1. CASE kind = "join"
    <3>1. Cardinality(whom) = 1
      BY <2>1 DEF Ask, MayAsk
    <3>2. Cardinality({}) = 0
      BY FS_EmptySet
    <3>3. QED
      BY <3>1, <3>2
  <2>2. CASE kind = "leave"
    BY <2>2 DEF Ask, MayAsk
  <2>3. QED
    BY <2>1, <2>2
<1>15. \A g \in Handler : op'[g].kind \in {"join", "leave"} => op'[g].whom # {}
  BY <1>6, <1>8, <1>14 DEF SenderTypes
<1>16. SenderTypes'
  BY <1>10, <1>12, <1>13, <1>15 DEF SenderTypes
<1>17. QED
  BY <1>4, <1>6, <1>8, <1>11, <1>16

\* What the statements do to the epoch, one lemma for each kind of step.
LEMMA PlainStep ==
    ASSUME SenderTypes, NEW h \in Handler,
           op[h].pc \in {"upsert", "forget", "plain", "dismiss", "purge", "recount"},
           op' = OpAfter(h, {}), UNCHANGED <<epoch, faults>>, member' \subseteq Account,
           keys' \subseteq keys, encrypted' \in BOOLEAN, encrypted' => encrypted,
           dismissed' \in BOOLEAN, count' \in 0..Cardinality(Account)
    PROVE  SenderTypes' /\ Moved(h)
<1>1. epoch \in Nat /\ epoch \in 0..MaxEpoch
  BY ConstantsAreNat DEF SenderTypes
<1>2. OpsTyped' /\ Moved(h) /\ EpochsOf(h)'
  BY <1>1, EpochsKept
<1>3. keys' \subseteq KeyType /\ \A k \in keys' : k.epoch >= 1 /\ k.epoch =< epoch'
  BY DEF SenderTypes
<1>4. faults' \subseteq Account /\ (encrypted' => epoch' >= 1)
  BY DEF SenderTypes
<1>5. SenderTypes'
  BY <1>1, <1>2, <1>3, <1>4, TypesKept
<1>6. QED
  BY <1>2, <1>5

LEMMA PlainSteps ==
    ASSUME SenderTypes, NEW h \in Handler,
           Upsert(h) \/ Forget(h) \/ Plain(h) \/ Dismiss(h) \/ Purge(h) \/ Recount(h)
    PROVE  SenderTypes' /\ Moved(h)
<1>0. /\ member \subseteq Account /\ count \in 0..Cardinality(Account)
      /\ dismissed \in BOOLEAN /\ encrypted \in BOOLEAN /\ op[h] \in OpType
  BY DEF SenderTypes, OpsTyped
<1>1. CASE Upsert(h)
  <2>1. member' \subseteq Account
    BY <1>0, <1>1 DEF Upsert, OpType
  <2>2. QED
    BY <1>0, <1>1, <2>1, PlainStep DEF Upsert, OpAt
<1>2. CASE Forget(h)
  BY <1>0, <1>2, PlainStep DEF Forget, OpAt, groupVars
<1>3. CASE Plain(h)
  BY <1>0, <1>3, PlainStep DEF Plain, OpAt, groupVars
<1>4. CASE Dismiss(h)
  BY <1>0, <1>4, PlainStep DEF Dismiss, OpAt
<1>5. CASE Purge(h)
  BY <1>0, <1>5, PlainStep DEF Purge, OpAt, groupVars
<1>6. CASE Recount(h)
  <2>1. count' \in 0..Cardinality(Account)
    BY <1>0, <1>6, AccountsAreFinite DEF Recount
  <2>2. QED
    BY <1>0, <1>6, <2>1, PlainStep DEF Recount, OpAt
<1>7. QED
  BY <1>1, <1>2, <1>3, <1>4, <1>5, <1>6

LEMMA FailOpStep ==
    ASSUME SenderTypes, NEW h \in Handler, FailOp(h)
    PROVE  SenderTypes' /\ Moved(h) /\ op'[h] = IdleOp
<1>1. OpsTyped' /\ Moved(h) /\ op'[h] = IdleOp
  BY MovesToIdle DEF SenderTypes, FailOp
<1>2. faults' \subseteq Account
  BY DEF FailOp, SenderTypes, OpsTyped, OpType
<1>3. UNCHANGED <<member, count, dismissed, encrypted, epoch, keys>>
  BY DEF FailOp, groupVars
<1>4. epoch \in Nat /\ epoch \in 0..MaxEpoch /\ (encrypted => epoch >= 1)
  BY ConstantsAreNat DEF SenderTypes
<1>5. EpochsOf(h)'
  BY <1>1, <1>3, <1>4, IdleOpType DEF EpochsOf
<1>6. keys' \subseteq KeyType /\ \A k \in keys' : k.epoch >= 1 /\ k.epoch =< epoch'
  BY <1>3 DEF SenderTypes
<1>7. /\ member' \subseteq Account /\ count' \in 0..Cardinality(Account)
      /\ dismissed' \in BOOLEAN /\ encrypted' \in BOOLEAN
  BY <1>3 DEF SenderTypes
<1>8. SenderTypes'
  BY <1>1, <1>2, <1>3, <1>4, <1>5, <1>6, <1>7, TypesKept
<1>9. QED
  BY <1>1, <1>8

\* A step that only moves its request changes nothing else.
LEMMA QuietStep ==
    ASSUME SenderTypes, NEW h \in Handler, OpsTyped', Moved(h), EpochsOf(h)',
           UNCHANGED <<member, count, dismissed, encrypted, epoch, keys, faults>>
    PROVE  SenderTypes'
<1>1. /\ epoch \in Nat /\ epoch' \in 0..MaxEpoch /\ epoch' = epoch
      /\ member' \subseteq Account /\ faults' \subseteq Account
      /\ count' \in 0..Cardinality(Account)
      /\ dismissed' \in BOOLEAN /\ encrypted' \in BOOLEAN /\ (encrypted' => epoch' >= 1)
      /\ keys' \subseteq KeyType /\ \A k \in keys' : k.epoch >= 1 /\ k.epoch =< epoch'
  BY ConstantsAreNat DEF SenderTypes
<1>2. QED
  BY <1>1, TypesKept

LEMMA ReadStatusStep ==
    ASSUME SenderTypes, NEW h \in Handler, ReadStatus(h)
    PROVE  /\ SenderTypes' /\ Moved(h)
           /\ op[h].kind \in {"join", "leave"} => op'[h].kind = op[h].kind
           /\ encrypted /\ op[h].kind = "leave" => op'[h].pc = "read"
<1>0. /\ OpsTyped /\ op[h].pc = "status" /\ op[h].pc # "idle" /\ op[h].kind # "enable"
      /\ op[h].epoch \in Nat /\ epoch \in Nat /\ op[h].epoch =< epoch
      /\ UNCHANGED <<member, count, dismissed, encrypted, epoch, keys, faults>>
  BY ConstantsAreNat, KindsOf
  DEF ReadStatus, OpAt, SenderTypes, OpsTyped, OpType, EpochsOf, groupVars
<1>1. CASE encrypted
  <2>1. op' = OpAfter(h, {})
    BY <1>1 DEF ReadStatus
  <2>2. OpsTyped' /\ Moved(h) /\ op'[h].epoch \in {0, op[h].epoch}
    BY <1>0, <2>1, MovesOn
  <2>3. op'[h].kind \in {"none", op[h].kind} /\ op'[h].epoch =< epoch
    BY <1>0, <2>2 DEF Moved
  <2>4. op'[h].kind = "push" => op'[h].pc = "read"
    BY <1>0, <2>1, <2>3, AfterKeys
  <2>5. epoch >= 1
    BY <1>1 DEF SenderTypes
  <2>6. EpochsOf(h)'
    BY <1>0, <2>3, <2>4, <2>5 DEF EpochsOf
  <2>7. op[h].kind \in {"join", "leave"} => op'[h].kind = op[h].kind
    BY <1>0, <2>1, AfterMembership
  <2>8. op[h].kind = "leave" => op'[h].pc = "read"
    BY <1>0, <2>1, AfterLeaving
  <2>9. QED
    BY <1>0, <2>2, <2>6, <2>7, <2>8, QuietStep
<1>2. CASE ~encrypted /\ op[h].kind = "push"
  <2>1. OpsTyped' /\ Moved(h) /\ op'[h] = IdleOp
    BY <1>0, <1>2, MovesToIdle DEF ReadStatus
  <2>2. EpochsOf(h)'
    BY <1>0, <2>1, IdleOpType DEF EpochsOf
  <2>3. QED
    BY <1>0, <1>2, <2>1, <2>2, QuietStep
<1>3. CASE ~encrypted /\ op[h].kind # "push"
  <2> DEFINE skipped == {"read", "insert"}
  <2>1. op' = OpAfter(h, skipped)
    BY <1>3 DEF ReadStatus
  <2>2. "recount" \notin skipped
    OBVIOUS
  <2> HIDE DEF skipped
  <2>3. OpsTyped' /\ Moved(h) /\ op'[h].epoch \in {0, op[h].epoch}
    BY <1>0, <2>1, MovesOn
  <2>4. op'[h].kind \in {"none", op[h].kind} /\ op'[h].epoch =< epoch
    BY <1>0, <2>3 DEF Moved
  <2>5. EpochsOf(h)'
    BY <1>0, <1>3, <2>4 DEF EpochsOf
  <2>6. op[h].kind \in {"join", "leave"} => op'[h].kind = op[h].kind
    BY <1>0, <2>1, <2>2, AfterMembership
  <2>7. QED
    BY <1>0, <1>3, <2>3, <2>5, <2>6, QuietStep
<1>4. QED
  BY <1>1, <1>2, <1>3

LEMMA ReadEpochStep ==
    ASSUME SenderTypes, NEW h \in Handler, ReadEpoch(h)
    PROVE  /\ SenderTypes' /\ Moved(h) /\ op'[h].epoch = epoch
           /\ op[h].kind \in {"join", "leave"} => op'[h].kind = op[h].kind
           /\ op[h].kind = "leave" => op'[h].pc = "insert"
<1>0. /\ OpsTyped /\ op[h].pc = "read" /\ epoch \in Nat
      /\ UNCHANGED <<member, count, dismissed, encrypted, epoch, keys, faults>>
  BY ConstantsAreNat DEF ReadEpoch, OpAt, SenderTypes, groupVars
<1>1. OpsTyped' /\ Moved(h) /\ op'[h].epoch = epoch /\ op'[h].pc = OpAfter(h, {})[h].pc
  BY MovesReading
<1>2. op'[h].kind = "push" => epoch >= 1
  BY <1>0, <1>1 DEF SenderTypes, EpochsOf, Moved
<1>3. op'[h].kind = "enable" => op'[h].pc = "insert"
  <2>1. op'[h].kind = "enable" => op[h].kind = "enable"
    BY <1>1 DEF Moved
  <2>2. QED
    BY <1>0, <1>1, <2>1, AfterKeys
<1>4. EpochsOf(h)'
  BY <1>0, <1>1, <1>2, <1>3 DEF EpochsOf
<1>5. SenderTypes'
  BY <1>0, <1>1, <1>4, QuietStep
<1>6. op[h].kind = "leave" => op'[h].pc = "insert"
  BY <1>0, <1>1, AfterLeaving
<1>7. op[h].kind \in {"join", "leave"} => op'[h].kind = op[h].kind
  <2>1. SUFFICES ASSUME op[h].kind \in {"join", "leave"} PROVE op'[h].kind = op[h].kind
    OBVIOUS
  <2>2. OpAfter(h, {})[h].kind = op[h].kind
    BY <1>0, <2>1, AfterMembership
  <2>3. op'[h].kind = OpAfter(h, {})[h].kind
    <3>1. OpAfter(h, {}) \in [Handler -> OpType]
      BY <1>0, AfterType
    <3>2. QED
      BY <1>0, <3>1 DEF ReadEpoch, OpType
  <2>4. QED
    BY <2>2, <2>3
<1>8. QED
  BY <1>1, <1>5, <1>6, <1>7

LEMMA InsertEpochStep ==
    ASSUME SenderTypes, NEW h \in Handler, InsertEpoch(h)
    PROVE  /\ SenderTypes' /\ Moved(h)
           /\ op'[h].epoch \in {0, op[h].epoch} /\ op[h].epoch \in Nat /\ epoch \in Nat
           /\ \/ epoch' = epoch /\ op[h].epoch + 1 =< epoch
              \/ epoch' = op[h].epoch + 1 /\ op[h].epoch = epoch
           /\ op[h].kind \in {"join", "leave"} => op'[h].kind = op[h].kind
<1>0. /\ OpsTyped /\ op[h].pc = "insert" /\ epoch \in 0..MaxEpoch /\ op[h].epoch \in Nat
      /\ UNCHANGED <<member, count, dismissed, encrypted, keys, faults>>
      /\ op' = OpAfter(h, {}) /\ op[h].epoch < MaxEpoch
  BY DEF InsertEpoch, OpAt, SenderTypes, OpsTyped, OpType, groupVars
<1>1. epoch \in Nat /\ MaxEpoch \in Nat
  BY <1>0, ConstantsAreNat
<1>2. /\ epoch =< epoch' /\ epoch' \in 0..MaxEpoch /\ op[h].epoch + 1 =< epoch'
      /\ epoch' \in {epoch, op[h].epoch + 1}
  BY <1>0, <1>1 DEF InsertEpoch
<1>3. OpsTyped' /\ Moved(h) /\ EpochsOf(h)'
  BY <1>0, <1>1, <1>2, EpochsKept
<1>4. /\ member' \subseteq Account /\ faults' \subseteq Account
      /\ count' \in 0..Cardinality(Account)
      /\ dismissed' \in BOOLEAN /\ encrypted' \in BOOLEAN
      /\ keys' \subseteq KeyType
  BY <1>0 DEF SenderTypes
<1>5. encrypted' => epoch' >= 1
  BY <1>0, <1>1, <1>2 DEF SenderTypes
<1>6. \A k \in keys' : k.epoch >= 1 /\ k.epoch =< epoch'
  <2>1. ASSUME NEW k \in keys PROVE k.epoch >= 1 /\ k.epoch =< epoch'
    <3>1. k.epoch \in Nat /\ k.epoch >= 1 /\ k.epoch =< epoch
      BY DEF SenderTypes, KeyType
    <3>2. QED
      BY <1>1, <1>2, <3>1
  <2>2. QED
    BY <1>0, <2>1
<1>7. SenderTypes'
  BY <1>2, <1>3, <1>4, <1>5, <1>6, TypesKept
<1>8. \/ epoch' = epoch /\ op[h].epoch + 1 =< epoch
      \/ epoch' = op[h].epoch + 1 /\ op[h].epoch = epoch
  <2>1. op[h].epoch =< epoch
    BY DEF SenderTypes, EpochsOf
  <2>2. QED
    BY <1>0, <1>1, <1>2, <2>1 DEF InsertEpoch
<1>9. op[h].kind \in {"join", "leave"} => op'[h].kind = op[h].kind
  BY <1>0, AfterMembership
<1>10. op'[h].epoch \in {0, op[h].epoch}
  BY <1>0, MovesOn
<1>11. QED
  BY <1>0, <1>1, <1>3, <1>7, <1>8, <1>9, <1>10

\* A step that stores keys of an epoch that has begun.
LEMMA StoringStep ==
    ASSUME SenderTypes, NEW h \in Handler, NEW e \in Nat, e >= 1, e =< epoch,
           op[h].pc \in {"encrypt", "store"}, op' = OpAfter(h, {}),
           keys' = keys \cup NewKeys(h, e),
           UNCHANGED <<member, count, dismissed, epoch, faults>>,
           encrypted' \in BOOLEAN
    PROVE  SenderTypes' /\ Moved(h) /\ op'[h] = IdleOp
<1>1. epoch \in Nat /\ epoch' \in 0..MaxEpoch /\ epoch' = epoch /\ OpsTyped
  BY ConstantsAreNat DEF SenderTypes
<1>2. OpsTyped' /\ Moved(h) /\ EpochsOf(h)'
  BY <1>1, EpochsKept
<1>3. /\ NewKeys(h, e) \subseteq KeyType
      /\ \A k \in NewKeys(h, e) : k.epoch = e
  BY <1>1, NewKeysType
<1>4. keys' \subseteq KeyType /\ \A k \in keys' : k.epoch >= 1 /\ k.epoch =< epoch'
  BY <1>1, <1>3 DEF SenderTypes
<1>5. /\ member' \subseteq Account /\ faults' \subseteq Account
      /\ count' \in 0..Cardinality(Account) /\ dismissed' \in BOOLEAN
      /\ (encrypted' => epoch' >= 1)
  BY <1>1 DEF SenderTypes
<1>6. SenderTypes'
  BY <1>1, <1>2, <1>4, <1>5, TypesKept
<1>7. op'[h] = IdleOp
  BY <1>1, KindsOf, AfterKeys
<1>8. QED
  BY <1>2, <1>6, <1>7

LEMMA EncryptStep ==
    ASSUME SenderTypes, NEW h \in Handler, Encrypt(h)
    PROVE  /\ SenderTypes' /\ Moved(h) /\ op'[h] = IdleOp
           /\ op[h].epoch \in Nat /\ op[h].epoch + 1 =< epoch /\ op[h].kind = "enable"
<1>1. /\ op[h].pc = "encrypt" /\ op[h].kind = "enable" /\ op[h].epoch \in Nat
  BY KindsOf DEF Encrypt, OpAt, SenderTypes, OpsTyped, OpType
<1>2. op[h].epoch + 1 =< epoch
  BY <1>1 DEF SenderTypes, EpochsOf
<1>3. op[h].epoch + 1 \in Nat /\ op[h].epoch + 1 >= 1
  BY <1>1
<1>4. /\ op' = OpAfter(h, {}) /\ keys' = keys \cup NewKeys(h, op[h].epoch + 1)
      /\ UNCHANGED <<member, count, dismissed, epoch, faults>> /\ encrypted' \in BOOLEAN
  BY DEF Encrypt, groupVars
<1>5. SenderTypes' /\ Moved(h) /\ op'[h] = IdleOp
  BY <1>1, <1>2, <1>3, <1>4, StoringStep
<1>6. QED
  BY <1>1, <1>2, <1>5

LEMMA StoreKeyStep ==
    ASSUME SenderTypes, NEW h \in Handler, StoreKey(h)
    PROVE  /\ SenderTypes' /\ Moved(h) /\ op'[h] = IdleOp
           /\ op[h].epoch \in Nat /\ op[h].kind = "push"
<1>1. /\ op[h].pc = "store" /\ op[h].kind = "push" /\ op[h].epoch \in Nat
  BY KindsOf DEF StoreKey, OpAt, SenderTypes, OpsTyped, OpType
<1>2. op[h].epoch >= 1 /\ op[h].epoch =< epoch
  BY <1>1 DEF SenderTypes, EpochsOf
<1>3. /\ op' = OpAfter(h, {}) /\ keys' = keys \cup NewKeys(h, op[h].epoch)
      /\ UNCHANGED <<member, count, dismissed, epoch, faults>> /\ encrypted' \in BOOLEAN
  BY DEF StoreKey, groupVars, SenderTypes
<1>4. SenderTypes' /\ Moved(h) /\ op'[h] = IdleOp
  BY <1>1, <1>2, <1>3, StoringStep
<1>5. QED
  BY <1>1, <1>4

\* The keys a departure leaves are those there were, some of them marked late.
LEMMA DepartingKeys ==
    ASSUME SenderTypes, NEW h \in Handler, Depart(h)
    PROVE  /\ keys' \subseteq KeyType
           /\ \A k \in keys' : /\ \E m \in keys : /\ k.to = m.to /\ k.epoch = m.epoch
                                                  /\ m.late => k.late
                               /\ k.to \in op[h].whom /\ Enabling => k.late
<1>1. ASSUME NEW m \in keys, NEW k,
             k = [m EXCEPT !.late = @ \/ (m.to \in op[h].whom /\ Enabling)]
      PROVE  /\ k \in KeyType /\ k.to = m.to /\ k.epoch = m.epoch /\ (m.late => k.late)
             /\ k.to \in op[h].whom /\ Enabling => k.late
  <2> DEFINE b == m.late \/ (m.to \in op[h].whom /\ Enabling)
  <2>1. m \in KeyType
    BY DEF SenderTypes
  <2>2. b \in BOOLEAN
    OBVIOUS
  <2>3. k = [m EXCEPT !.late = b]
    BY <1>1
  <2>4. /\ m.late => b
        /\ m.to \in op[h].whom /\ Enabling => b
    OBVIOUS
  <2> HIDE DEF b
  <2>5. k \in KeyType /\ k.to = m.to /\ k.epoch = m.epoch /\ k.late = b
    BY <2>1, <2>2, <2>3 DEF KeyType
  <2>6. QED
    BY <2>4, <2>5, Zenon
<1>2. \A k \in keys' : \E m \in keys :
         k = [m EXCEPT !.late = @ \/ (m.to \in op[h].whom /\ Enabling)]
  BY DEF Depart
<1>3. QED
  BY <1>1, <1>2, Zenon

LEMMA DepartStep ==
    ASSUME SenderTypes, NEW h \in Handler, Depart(h)
    PROVE  /\ SenderTypes' /\ Moved(h)
           /\ op[h].kind = "leave" /\ op'[h].kind = "leave" /\ op'[h].pc = "status"
           /\ op'[h].whom = op[h].whom
           /\ \A g \in Handler : op[g].kind \in {"push", "enable"} =>
                op'[g].left = op[g].left \cup (op[h].whom \cap op[g].whom)
<1>1. /\ OpsTyped' /\ Moved(h)
      /\ op'[h].kind = "leave" /\ op'[h].pc = "status" /\ op'[h].epoch \in {0, op[h].epoch}
      /\ \A g \in Handler : op[g].kind \in {"push", "enable"} =>
           op'[g].left = op[g].left \cup (op[h].whom \cap op[g].whom)
  BY MovesLeaving DEF SenderTypes
<1>2. op[h].kind = "leave" /\ op'[h].whom = op[h].whom
  BY <1>1 DEF Moved
<1>3. /\ epoch' = epoch /\ epoch \in Nat /\ epoch' \in 0..MaxEpoch
      /\ member' \subseteq Account /\ faults' \subseteq Account
      /\ count' \in 0..Cardinality(Account)
      /\ dismissed' \in BOOLEAN /\ encrypted' \in BOOLEAN /\ (encrypted' => epoch' >= 1)
  BY ConstantsAreNat DEF SenderTypes, Depart
<1>4. EpochsOf(h)'
  BY <1>1, <1>3 DEF EpochsOf, SenderTypes
<1>5. keys' \subseteq KeyType /\ \A k \in keys' : k.epoch >= 1 /\ k.epoch =< epoch'
  BY <1>3, DepartingKeys DEF SenderTypes
<1>6. epoch =< epoch'
  BY <1>3
<1>7. SenderTypes'
  BY <1>1, <1>3, <1>4, <1>5, <1>6, TypesKept
<1>8. QED
  BY <1>1, <1>2, <1>7

LEMMA CleaningTypes == ASSUME SenderTypes, CleanSenderKeys PROVE SenderTypes'
<1>1. /\ UNCHANGED <<member, count, dismissed, encrypted, epoch, op, faults>>
      /\ keys' \subseteq keys
  BY DEF CleanSenderKeys, groupVars
<1>2. OpsTyped' /\ \A h \in Handler : EpochsOf(h)'
  BY <1>1 DEF SenderTypes, OpsTyped, InPlace, EpochsOf
<1>3. QED
  BY <1>1, <1>2 DEF SenderTypes
-----------------------------------------------------------------------------
(* Whoever has left *)

\* A step adds no keys for whoever is not a member, but late ones.
NoNewKeys == \A k \in keys' : k \in keys \/ k.late \/ ~Gone(k.to)'

LEMMA KnownKept ==
    ASSUME LeftIsKnown, NEW h \in Handler, Moved(h), member \subseteq member'
    PROVE  LeftIsKnown'
<1>1. ASSUME NEW g \in Handler, op'[g].kind \in {"push", "enable"}
      PROVE  op'[g].whom \ member' \subseteq op'[g].left
  <2>1. /\ op[g].kind = op'[g].kind /\ op'[g].whom = op[g].whom
        /\ op[g].left \subseteq op'[g].left
    BY <1>1 DEF Moved
  <2>2. op[g].whom \ member \subseteq op[g].left
    BY <1>1, <2>1 DEF LeftIsKnown
  <2>3. QED
    BY <2>1, <2>2
<1>2. QED
  BY <1>1 DEF LeftIsKnown

LEMMA LeavingIsNoted ==
    ASSUME SenderTypes, LeftIsKnown, NEW h \in Handler, Depart(h)
    PROVE  LeftIsKnown'
<1>1. /\ Moved(h) /\ op'[h].kind = "leave" /\ member' = member \ op[h].whom
      /\ \A g \in Handler : op[g].kind \in {"push", "enable"} =>
           op'[g].left = op[g].left \cup (op[h].whom \cap op[g].whom)
  BY DepartStep DEF Depart
<1>2. ASSUME NEW g \in Handler, op'[g].kind \in {"push", "enable"}
      PROVE  op'[g].whom \ member' \subseteq op'[g].left
  <2>1. g # h /\ op[g].kind = op'[g].kind /\ op'[g].whom = op[g].whom
    BY <1>1, <1>2 DEF Moved
  <2>2. /\ op[g].whom \ member \subseteq op[g].left
        /\ op'[g].left = op[g].left \cup (op[h].whom \cap op[g].whom)
    BY <1>1, <1>2, <2>1 DEF LeftIsKnown
  <2>3. QED
    BY <1>1, <2>1, <2>2
<1>3. QED
  BY <1>2 DEF LeftIsKnown

LEMMA AskingIsKnown ==
    ASSUME SenderTypes, LeftIsKnown, NEW h \in Handler, NEW kind \in DOMAIN Steps,
           NEW u \in Account, NEW whom \in SUBSET Account, Ask(h, kind, u, whom)
    PROVE  LeftIsKnown'
<1>0. member' = member
  BY DEF Ask, groupVars
<1>1. /\ op'[h].kind = kind /\ op'[h].whom = whom /\ member' = member
      /\ \A g \in Handler \ {h} : op'[g] = op[g]
  BY <1>0, AskTypes
<1>2. kind \in {"push", "enable"} => whom \subseteq member
  <2>1. CASE kind = "push"
    BY <2>1 DEF Ask, MayAsk, AreMembers
  <2>2. CASE kind = "enable"
    BY <2>2 DEF Ask, MayAsk
  <2>3. QED
    BY <2>1, <2>2
<1>3. QED
  BY <1>1, <1>2 DEF LeftIsKnown

\* The keys of a push or of enabling are late for whoever is not a member.
LEMMA StoringIsLate ==
    ASSUME SenderTypes, LeftIsKnown, NEW h \in Handler, op[h].kind \in {"push", "enable"},
           NEW e \in Nat, keys' = keys \cup NewKeys(h, e), UNCHANGED <<member, faults>>
    PROVE  NoNewKeys
<1>1. ASSUME NEW k \in NewKeys(h, e) PROVE k.late \/ ~Gone(k.to)'
  <2>1. k.to \in op[h].whom /\ (k.to \in op[h].left => k.late)
    BY NewKeysType DEF SenderTypes
  <2>2. CASE k.to \in member
    BY <2>2 DEF Gone
  <2>3. CASE k.to \notin member
    <3>1. k.to \in op[h].left
      BY <2>1, <2>3 DEF LeftIsKnown
    <3>2. QED
      BY <2>1, <3>1, Zenon
  <2>4. QED
    BY <2>2, <2>3
<1>2. QED
  BY <1>1 DEF NoNewKeys

\* OldTo and Settled survive any step that adds late keys only.
LEMMA OldKept ==
    ASSUME NoNewKeys, NEW u \in Account, Gone(u)'
    PROVE  /\ \A e \in Nat : OldTo(u, e) => OldTo(u, e)'
           /\ epoch' = epoch /\ Settled(u) => Settled(u)'
<1>1. ASSUME NEW e \in Nat, OldTo(u, e) PROVE OldTo(u, e)'
  BY <1>1, Zenon DEF OldTo, NoNewKeys
<1>2. ASSUME epoch' = epoch, Settled(u) PROVE Settled(u)'
  BY <1>2, Zenon DEF Settled, NoNewKeys
<1>3. QED
  BY <1>1, <1>2

LEMMA EnablingKept ==
    ASSUME SenderTypes, EnablingIsSafe, NoNewKeys, \A u \in Account : Gone(u)' => Gone(u),
           \A g \in Handler :
              op'[g].kind = "enable" /\ op'[g].pc \in {"insert", "encrypt"} =>
                 /\ op[g].kind = "enable" /\ op[g].pc \in {"insert", "encrypt"}
                 /\ op'[g].epoch = op[g].epoch
    PROVE  EnablingIsSafe'
<1>1. ASSUME NEW u \in Account, NEW g \in Handler, Gone(u)',
             op'[g].kind = "enable", op'[g].pc \in {"insert", "encrypt"}
      PROVE  OldTo(u, op[g].epoch)' /\ op'[g].epoch = op[g].epoch
  <2>1. OldTo(u, op[g].epoch) /\ op'[g].epoch = op[g].epoch /\ op[g].epoch \in Nat
    BY <1>1 DEF EnablingIsSafe, SenderTypes, OpsTyped, OpType
  <2> DEFINE e == op[g].epoch
  <2>2. OldTo(u, e)'
    BY <1>1, <2>1, OldKept
  <2>3. QED
    BY <2>1, <2>2 DEF OldTo
<1>2. QED
  BY <1>1 DEF EnablingIsSafe, OldTo

LEMMA LeavingKept ==
    ASSUME SenderTypes, LeavingIsSafe, NoNewKeys, epoch' = epoch,
           \A u \in Account : Gone(u)' /\ encrypted' => Gone(u) /\ encrypted,
           \A u \in Account, g \in Handler :
              Gone(u)' /\ encrypted' /\ Rotating(g, u) => Rotating(g, u)'
    PROVE  LeavingIsSafe'
<1>1. ASSUME NEW u \in Account, Gone(u)', encrypted'
      PROVE  Settled(u)' \/ \E g \in Handler : Rotating(g, u)'
  <2>1. Settled(u) \/ \E g \in Handler : Rotating(g, u)
    BY <1>1 DEF LeavingIsSafe
  <2>2. Settled(u) => Settled(u)'
    BY <1>1, OldKept
  <2>3. QED
    BY <1>1, <2>1, <2>2
<1>2. QED
  BY <1>1 DEF LeavingIsSafe

\* A request that is going to start an epoch still is, unless it has moved.
LEMMA RotatingKept ==
    ASSUME SenderTypes, NoNewKeys, NEW u \in Account, NEW g \in Handler, Gone(u)',
           Rotating(g, u),
           /\ op'[g].kind = op[g].kind /\ op'[g].pc = op[g].pc
           /\ op'[g].whom = op[g].whom /\ op'[g].epoch = op[g].epoch
    PROVE  Rotating(g, u)'
<1>1. op[g].epoch \in Nat
  BY DEF SenderTypes, OpsTyped, OpType
<1>2. OldTo(u, op[g].epoch) => OldTo(u, op[g].epoch)'
  <2> DEFINE e == op[g].epoch
  <2>1. OldTo(u, e) => (\A k \in keys' : k.to = u /\ k.epoch > e => k.late)
    BY <1>1, OldKept DEF OldTo
  <2>2. QED
    BY <2>1 DEF OldTo
<1>3. QED
  BY <1>2 DEF Rotating

\* The requests that rotate, when request h has moved from another statement.
LEMMA RotatingElsewhere ==
    ASSUME SenderTypes, NoNewKeys, NEW h \in Handler, Moved(h),
           op[h].pc \notin {"status", "read", "insert"}
    PROVE  \A u \in Account, g \in Handler : Gone(u)' /\ Rotating(g, u) => Rotating(g, u)'
<1>1. ASSUME NEW u \in Account, NEW g \in Handler, Gone(u)', Rotating(g, u)
      PROVE  Rotating(g, u)'
  <2>1. g # h
    BY <1>1 DEF Rotating
  <2>2. /\ op'[g].kind = op[g].kind /\ op'[g].pc = op[g].pc
        /\ op'[g].whom = op[g].whom /\ op'[g].epoch = op[g].epoch
    BY <2>1 DEF Moved
  <2>3. QED
    BY <1>1, <2>2, RotatingKept
<1>2. QED
  BY <1>1

LEMMA CountKept ==
    ASSUME CountIsComing, faults \subseteq faults', UNCHANGED <<member, count>>,
           \A g \in Handler : op[g].kind \in {"join", "leave"} => op'[g].kind = op[g].kind
    PROVE  CountIsComing'
<1>1. ASSUME faults' = {}
      PROVE  count' = Cardinality(member') \/ \E g \in Handler : op'[g].kind \in {"join", "leave"}
  <2>1. faults = {}
    BY <1>1
  <2>2. CASE count = Cardinality(member)
    BY <2>2
  <2>3. CASE \E g \in Handler : op[g].kind \in {"join", "leave"}
    BY <2>3
  <2>4. QED
    BY <2>1, <2>2, <2>3 DEF CountIsComing
<1>2. QED
  BY <1>1 DEF CountIsComing

\* One lemma for each kind of step: requests begin, ...
LEMMA AskSafe ==
    ASSUME SendersInv, NEW h \in Handler, NEW kind \in DOMAIN Steps, NEW u \in Account,
           NEW whom \in SUBSET Account, Ask(h, kind, u, whom)
    PROVE  SendersInv'
<1>1. SenderTypes /\ LeftIsKnown /\ EnablingIsSafe /\ LeavingIsSafe /\ CountIsComing
  BY DEF SendersInv
<1>2. UNCHANGED <<member, count, encrypted, epoch, keys, faults>>
  BY DEF Ask, groupVars
<1>3. /\ SenderTypes' /\ \A g \in Handler \ {h} : op'[g] = op[g]
      /\ op[h].pc = "idle" /\ op[h].kind = "none"
      /\ op'[h].kind = kind /\ op'[h].pc = Steps[kind][1]
  BY <1>1, AskTypes
<1>4. NoNewKeys
  BY <1>2 DEF NoNewKeys
<1>5. \A v \in Account : Gone(v)' => Gone(v)
  BY <1>2 DEF Gone
<1>6. op'[h].kind = "enable" => op'[h].pc = "read"
  BY <1>3, StepsOf, StepsAre
<1>7. EnablingIsSafe'
  <2>1. \A g \in Handler :
           op'[g].kind = "enable" /\ op'[g].pc \in {"insert", "encrypt"} =>
              /\ op[g].kind = "enable" /\ op[g].pc \in {"insert", "encrypt"}
              /\ op'[g].epoch = op[g].epoch
    BY <1>3, <1>6
  <2>2. QED
    BY <1>1, <1>4, <1>5, <2>1, EnablingKept
<1>8. LeavingIsSafe'
  <2>1. ASSUME NEW v \in Account, NEW g \in Handler, Gone(v)', Rotating(g, v)
        PROVE  Rotating(g, v)'
    <3>1. g # h
      BY <1>3, <2>1 DEF Rotating
    <3>2. op'[g] = op[g]
      BY <1>3, <3>1
    <3>3. QED
      BY <1>1, <1>4, <2>1, <3>2, RotatingKept
  <2>2. QED
    BY <1>1, <1>2, <1>4, <1>5, <2>1, LeavingKept
<1>9. CountIsComing'
  <2>1. \A g \in Handler : op[g].kind \in {"join", "leave"} => op'[g].kind = op[g].kind
    BY <1>3
  <2>2. QED
    BY <1>1, <1>2, <2>1, CountKept
<1>10. LeftIsKnown'
  BY <1>1, AskingIsKnown
<1>11. QED
  BY <1>3, <1>7, <1>8, <1>9, <1>10 DEF SendersInv

\* A request that stores no keys makes no enabling begin its insertion.
LEMMA EnablingUnmoved ==
    ASSUME SenderTypes, EnablingIsSafe, NoNewKeys, \A u \in Account : Gone(u)' => Gone(u),
           NEW h \in Handler, Moved(h), op'[h].kind # "enable"
    PROVE  EnablingIsSafe'
<1>1. \A g \in Handler :
         op'[g].kind = "enable" /\ op'[g].pc \in {"insert", "encrypt"} =>
            /\ op[g].kind = "enable" /\ op[g].pc \in {"insert", "encrypt"}
            /\ op'[g].epoch = op[g].epoch
  BY DEF Moved
<1>2. QED
  BY <1>1, EnablingKept

\* ... users join, keys and status are removed, members are counted, ...
LEMMA PlainSafe ==
    ASSUME SendersInv, NEW h \in Handler,
           Upsert(h) \/ Forget(h) \/ Plain(h) \/ Dismiss(h) \/ Purge(h) \/ Recount(h)
    PROVE  SendersInv'
<1>1. SenderTypes /\ LeftIsKnown /\ EnablingIsSafe /\ LeavingIsSafe /\ CountIsComing
  BY DEF SendersInv
<1>2. /\ member \subseteq member' /\ epoch' = epoch /\ faults' = faults
      /\ keys' \subseteq keys /\ (encrypted' => encrypted) /\ op' = OpAfter(h, {})
      /\ op[h].pc \in {"upsert", "forget", "plain", "dismiss", "purge", "recount"}
  <2>1. CASE Upsert(h)
    BY <2>1 DEF Upsert, OpAt
  <2>2. CASE Forget(h)
    BY <2>2 DEF Forget, OpAt, groupVars
  <2>3. CASE Plain(h)
    BY <2>3 DEF Plain, OpAt, groupVars
  <2>4. CASE Dismiss(h)
    BY <2>4 DEF Dismiss, OpAt
  <2>5. CASE Purge(h)
    BY <2>5 DEF Purge, OpAt, groupVars
  <2>6. CASE Recount(h)
    BY <2>6 DEF Recount, OpAt
  <2>7. QED
    BY <2>1, <2>2, <2>3, <2>4, <2>5, <2>6
<1>3. SenderTypes' /\ Moved(h)
  BY <1>1, PlainSteps
<1>4. NoNewKeys
  BY <1>2 DEF NoNewKeys
<1>5. \A v \in Account : Gone(v)' => Gone(v)
  BY <1>2 DEF Gone
<1>6. op[h].kind # "enable"
  BY <1>1, <1>2, PhasesOf DEF SenderTypes
<1>7. EnablingIsSafe'
  BY <1>1, <1>3, <1>4, <1>5, <1>6, EnablingUnmoved DEF Moved
<1>8. LeavingIsSafe'
  <2>1. \A u \in Account, g \in Handler : Gone(u)' /\ Rotating(g, u) => Rotating(g, u)'
    BY <1>1, <1>2, <1>3, <1>4, RotatingElsewhere
  <2>2. QED
    BY <1>1, <1>2, <1>4, <1>5, <2>1, LeavingKept
<1>9. CountIsComing'
  <2>1. CASE Upsert(h)
    <3>1. op[h].kind = "join" /\ op[h].pc # "recount"
      BY <1>1, <2>1, KindsOf DEF Upsert, OpAt, SenderTypes
    <3>2. op'[h].kind = "join"
      BY <1>1, <1>2, <3>1, AfterMembership DEF SenderTypes
    <3>3. QED
      BY <3>2 DEF CountIsComing
  <2>2. CASE Recount(h)
    <3>1. count' = Cardinality(member') 
      BY <2>2 DEF Recount
    <3>2. QED
      BY <3>1 DEF CountIsComing
  <2>3. CASE Forget(h) \/ Plain(h) \/ Dismiss(h) \/ Purge(h)
    <3>1. op[h].kind \notin {"join", "leave"} /\ UNCHANGED <<member, count, faults>>
      <4>1. UNCHANGED <<member, count, faults>>
        BY <2>3 DEF Forget, Plain, Dismiss, Purge, groupVars
      <4>2. op[h].pc \in {"forget", "plain", "dismiss", "purge"}
        BY <2>3 DEF Forget, Plain, Dismiss, Purge, OpAt
      <4>3. QED
        BY <1>1, <4>1, <4>2, KindsOf DEF SenderTypes
    <3>2. \A g \in Handler : op[g].kind \in {"join", "leave"} => op'[g].kind = op[g].kind
      BY <1>3, <3>1 DEF Moved
    <3>3. QED
      BY <1>1, <3>1, <3>2, CountKept
  <2>4. QED
    BY <2>1, <2>2, <2>3
<1>10. LeftIsKnown'
  BY <1>1, <1>2, <1>3, KnownKept
<1>11. QED
  BY <1>3, <1>7, <1>8, <1>9, <1>10 DEF SendersInv

\* ... a request fails: nothing is claimed of the users it was about, ...
LEMMA FailOpSafe ==
    ASSUME SendersInv, NEW h \in Handler, FailOp(h)
    PROVE  SendersInv'
<1>1. SenderTypes /\ LeftIsKnown /\ EnablingIsSafe /\ LeavingIsSafe /\ CountIsComing
  BY DEF SendersInv
<1>2. /\ UNCHANGED <<member, count, encrypted, epoch, keys>>
      /\ faults' = faults \cup op[h].whom
  BY DEF FailOp, groupVars
<1>3. SenderTypes' /\ Moved(h) /\ op'[h] = IdleOp
  BY <1>1, FailOpStep
<1>4. NoNewKeys
  BY <1>2 DEF NoNewKeys
<1>5. \A v \in Account : Gone(v)' => Gone(v)
  BY <1>2 DEF Gone
<1>6. op'[h].kind # "enable"
  BY <1>3, IdleOpType
<1>7. EnablingIsSafe'
  BY <1>1, <1>3, <1>4, <1>5, <1>6, EnablingUnmoved
<1>8. LeavingIsSafe'
  <2>1. ASSUME NEW v \in Account, NEW g \in Handler, Gone(v)', Rotating(g, v)
        PROVE  Rotating(g, v)'
    <3>1. g # h
      BY <1>2, <2>1 DEF Rotating, Gone
    <3>2. /\ op'[g].kind = op[g].kind /\ op'[g].pc = op[g].pc
          /\ op'[g].whom = op[g].whom /\ op'[g].epoch = op[g].epoch
      BY <1>3, <3>1 DEF Moved
    <3>3. QED
      BY <1>1, <1>4, <2>1, <3>2, RotatingKept
  <2>2. QED
    BY <1>1, <1>2, <1>4, <1>5, <2>1, LeavingKept
<1>9. CountIsComing'
  <2>1. CASE op[h].kind \in {"join", "leave"}
    <3>1. faults' # {}
      BY <1>1, <1>2, <2>1 DEF SenderTypes
    <3>2. QED
      BY <3>1 DEF CountIsComing
  <2>2. CASE op[h].kind \notin {"join", "leave"}
    <3>1. \A g \in Handler : op[g].kind \in {"join", "leave"} => op'[g].kind = op[g].kind
      BY <1>3, <2>2 DEF Moved
    <3>2. QED
      BY <1>1, <1>2, <3>1, CountKept
  <2>3. QED
    BY <2>1, <2>2
<1>10. LeftIsKnown'
  BY <1>1, <1>2, <1>3, KnownKept
<1>11. QED
  BY <1>3, <1>7, <1>8, <1>9, <1>10 DEF SendersInv

\* ... the status and the epoch are read, ...
LEMMA ReadStatusSafe ==
    ASSUME SendersInv, NEW h \in Handler, ReadStatus(h)
    PROVE  SendersInv'
<1>1. SenderTypes /\ LeftIsKnown /\ EnablingIsSafe /\ LeavingIsSafe /\ CountIsComing
  BY DEF SendersInv
<1>2. /\ UNCHANGED <<member, count, encrypted, epoch, keys, faults>> /\ op[h].pc = "status"
  BY DEF ReadStatus, OpAt, groupVars
<1>3. /\ SenderTypes' /\ Moved(h)
      /\ op[h].kind \in {"join", "leave"} => op'[h].kind = op[h].kind
      /\ encrypted /\ op[h].kind = "leave" => op'[h].pc = "read"
  BY <1>1, ReadStatusStep
<1>4. NoNewKeys
  BY <1>2 DEF NoNewKeys
<1>5. \A v \in Account : Gone(v)' => Gone(v)
  BY <1>2 DEF Gone
<1>6. op'[h].kind # "enable"
  BY <1>1, <1>2, <1>3, KindsOf DEF SenderTypes, Moved
<1>7. EnablingIsSafe'
  BY <1>1, <1>3, <1>4, <1>5, <1>6, EnablingUnmoved
<1>8. LeavingIsSafe'
  <2>1. ASSUME NEW v \in Account, NEW g \in Handler, Gone(v)', encrypted, Rotating(g, v)
        PROVE  Rotating(g, v)'
    <3>1. CASE g = h
      <4>1. op[h].kind = "leave" /\ v \in op[h].whom
        BY <2>1, <3>1 DEF Rotating
      <4>2. op'[h].kind = "leave" /\ op'[h].pc = "read" /\ op'[h].whom = op[h].whom
        BY <1>3, <2>1, <4>1 DEF Moved
      <4>3. QED
        BY <3>1, <4>1, <4>2 DEF Rotating
    <3>2. CASE g # h
      <4>1. /\ op'[g].kind = op[g].kind /\ op'[g].pc = op[g].pc
            /\ op'[g].whom = op[g].whom /\ op'[g].epoch = op[g].epoch
        BY <1>3, <3>2 DEF Moved
      <4>2. QED
        BY <1>1, <1>4, <2>1, <4>1, RotatingKept
    <3>3. QED
      BY <3>1, <3>2
  <2>2. QED
    BY <1>1, <1>2, <1>4, <1>5, <2>1, LeavingKept
<1>9. CountIsComing'
  <2>1. \A g \in Handler : op[g].kind \in {"join", "leave"} => op'[g].kind = op[g].kind
    BY <1>3 DEF Moved
  <2>2. QED
    BY <1>1, <1>2, <2>1, CountKept
<1>10. LeftIsKnown'
  BY <1>1, <1>2, <1>3, KnownKept
<1>11. QED
  BY <1>3, <1>7, <1>8, <1>9, <1>10 DEF SendersInv

\* All keys are of epochs that have begun.
LEMMA NoneIsNewer ==
    ASSUME SenderTypes
    PROVE  \A u \in Account : OldTo(u, epoch)
<1>1. \A k \in keys : k.epoch \in Nat /\ k.epoch =< epoch
  BY DEF SenderTypes, KeyType
<1>2. epoch \in Nat
  BY ConstantsAreNat DEF SenderTypes
<1>3. \A k \in keys : ~(k.epoch > epoch)
  BY <1>1, <1>2
<1>4. QED
  BY <1>3 DEF OldTo

LEMMA ReadEpochSafe ==
    ASSUME SendersInv, NEW h \in Handler, ReadEpoch(h)
    PROVE  SendersInv'
<1>1. SenderTypes /\ LeftIsKnown /\ EnablingIsSafe /\ LeavingIsSafe /\ CountIsComing
  BY DEF SendersInv
<1>2. /\ UNCHANGED <<member, count, encrypted, epoch, keys, faults>> /\ op[h].pc = "read"
  BY DEF ReadEpoch, OpAt, groupVars
<1>3. /\ SenderTypes' /\ Moved(h) /\ op'[h].epoch = epoch
      /\ op[h].kind \in {"join", "leave"} => op'[h].kind = op[h].kind
      /\ op[h].kind = "leave" => op'[h].pc = "insert"
  BY <1>1, ReadEpochStep
<1>4. NoNewKeys
  BY <1>2 DEF NoNewKeys
<1>5. \A v \in Account : (Gone(v)' => Gone(v)) /\ OldTo(v, epoch)'
  <2>1. \A v \in Account : OldTo(v, epoch)'
    BY <1>1, <1>2, NoneIsNewer DEF OldTo
  <2>2. QED
    BY <1>2, <2>1 DEF Gone
<1>7. EnablingIsSafe'
  <2>1. ASSUME NEW v \in Account, NEW g \in Handler, Gone(v)',
               op'[g].kind = "enable", op'[g].pc \in {"insert", "encrypt"}
        PROVE  \A k \in keys' : k.to = v /\ k.epoch > op'[g].epoch => k.late
    <3>1. CASE g = h
      BY <1>2, <1>3, <1>5, <3>1 DEF OldTo
    <3>2. CASE g # h
      <4>1. op[g].kind = "enable" /\ op[g].pc \in {"insert", "encrypt"}
            /\ op'[g].epoch = op[g].epoch
        BY <1>3, <2>1, <3>2 DEF Moved
      <4>2. OldTo(v, op[g].epoch)
        BY <1>1, <1>5, <2>1, <4>1 DEF EnablingIsSafe
      <4>3. QED
        BY <1>2, <4>1, <4>2 DEF OldTo
    <3>3. QED
      BY <3>1, <3>2
  <2>2. QED
    BY <2>1 DEF EnablingIsSafe, OldTo
<1>8. LeavingIsSafe'
  <2>1. ASSUME NEW v \in Account, NEW g \in Handler, Gone(v)', Rotating(g, v)
        PROVE  Rotating(g, v)'
    <3>1. CASE g = h
      <4>1. op[h].kind = "leave" /\ v \in op[h].whom
        BY <2>1, <3>1 DEF Rotating
      <4>2. op'[h].kind = "leave" /\ op'[h].pc = "insert" /\ op'[h].whom = op[h].whom
        BY <1>3, <4>1 DEF Moved
      <4>3. OldTo(v, op[h].epoch)'
        BY <1>2, <1>3, <1>5 DEF OldTo
      <4>4. QED
        BY <3>1, <4>1, <4>2, <4>3 DEF Rotating
    <3>2. CASE g # h
      <4>1. /\ op'[g].kind = op[g].kind /\ op'[g].pc = op[g].pc
            /\ op'[g].whom = op[g].whom /\ op'[g].epoch = op[g].epoch
        BY <1>3, <3>2 DEF Moved
      <4>2. QED
        BY <1>1, <1>4, <2>1, <4>1, RotatingKept
    <3>3. QED
      BY <3>1, <3>2
  <2>2. QED
    BY <1>1, <1>2, <1>4, <1>5, <2>1, LeavingKept
<1>9. CountIsComing'
  <2>1. \A g \in Handler : op[g].kind \in {"join", "leave"} => op'[g].kind = op[g].kind
    BY <1>3 DEF Moved
  <2>2. QED
    BY <1>1, <1>2, <2>1, CountKept
<1>10. LeftIsKnown'
  BY <1>1, <1>2, <1>3, KnownKept
<1>11. QED
  BY <1>3, <1>7, <1>8, <1>9, <1>10 DEF SendersInv

\* ... an epoch begins, after which nobody who has left is given keys, ...
LEMMA InsertEpochSafe ==
    ASSUME SendersInv, NEW h \in Handler, InsertEpoch(h)
    PROVE  SendersInv'
<1>1. SenderTypes /\ LeftIsKnown /\ EnablingIsSafe /\ LeavingIsSafe /\ CountIsComing
  BY DEF SendersInv
<1>2. /\ UNCHANGED <<member, count, encrypted, keys, faults>> /\ op[h].pc = "insert"
      /\ op' = OpAfter(h, {})
  BY DEF InsertEpoch, OpAt, groupVars
<1>3. /\ SenderTypes' /\ Moved(h) /\ op[h].epoch \in Nat /\ epoch \in Nat
      /\ \/ epoch' = epoch /\ op[h].epoch + 1 =< epoch
         \/ epoch' = op[h].epoch + 1 /\ op[h].epoch = epoch
      /\ op[h].kind \in {"join", "leave"} => op'[h].kind = op[h].kind
  BY <1>1, InsertEpochStep
<1>4. NoNewKeys
  BY <1>2 DEF NoNewKeys
<1>5. \A v \in Account : Gone(v)' => Gone(v)
  BY <1>2 DEF Gone
<1>6. \A k \in keys : k.epoch \in Nat /\ k.epoch =< epoch
  BY <1>1 DEF SenderTypes, KeyType
<1>7. EnablingIsSafe'
  <2>1. op'[h].kind # "none" => op'[h].epoch = op[h].epoch
    BY <1>1, <1>2, AfterType DEF SenderTypes
  <2>2. \A g \in Handler :
           op'[g].kind = "enable" /\ op'[g].pc \in {"insert", "encrypt"} =>
              /\ op[g].kind = "enable" /\ op[g].pc \in {"insert", "encrypt"}
              /\ op'[g].epoch = op[g].epoch
    BY <1>2, <1>3, <2>1 DEF Moved
  <2>3. QED
    BY <1>1, <1>4, <1>5, <2>2, EnablingKept
<1>8. LeavingIsSafe'
  <2>1. ASSUME NEW v \in Account, Gone(v)', encrypted'
        PROVE  Settled(v)' \/ \E g \in Handler : Rotating(g, v)'
    <3>1. CASE epoch' = op[h].epoch + 1 /\ op[h].epoch = epoch
      <4>1. \A k \in keys' : k.epoch # epoch'
        BY <1>2, <1>3, <1>6, <3>1
      <4>2. QED
        BY <4>1 DEF Settled
    <3>2. CASE epoch' = epoch /\ op[h].epoch + 1 =< epoch
      <4>1. Settled(v) \/ \E g \in Handler : Rotating(g, v)
        BY <1>1, <1>2, <1>5, <2>1 DEF LeavingIsSafe
      <4>2. CASE Settled(v)
        BY <1>4, <2>1, <3>2, <4>2, OldKept
      <4>3. CASE Rotating(h, v)
        <5>1. OldTo(v, op[h].epoch)
          BY <1>2, <4>3 DEF Rotating
        <5>2. epoch > op[h].epoch
          BY <1>3, <3>2
        <5>3. Settled(v)
          BY <5>1, <5>2 DEF OldTo, Settled
        <5>4. QED
          BY <1>4, <2>1, <3>2, <5>3, OldKept
      <4>4. ASSUME NEW g \in Handler, g # h, Rotating(g, v) PROVE Rotating(g, v)'
        <5>1. /\ op'[g].kind = op[g].kind /\ op'[g].pc = op[g].pc
              /\ op'[g].whom = op[g].whom /\ op'[g].epoch = op[g].epoch
          BY <1>3, <4>4 DEF Moved
        <5>2. QED
          BY <1>1, <1>4, <2>1, <4>4, <5>1, RotatingKept
      <4>5. QED
        BY <4>1, <4>2, <4>3, <4>4
    <3>3. QED
      BY <1>3, <3>1, <3>2
  <2>2. QED
    BY <2>1 DEF LeavingIsSafe
<1>9. CountIsComing'
  <2>1. \A g \in Handler : op[g].kind \in {"join", "leave"} => op'[g].kind = op[g].kind
    BY <1>3 DEF Moved
  <2>2. QED
    BY <1>1, <1>2, <2>1, CountKept
<1>10. LeftIsKnown'
  BY <1>1, <1>2, <1>3, KnownKept
<1>11. QED
  BY <1>3, <1>7, <1>8, <1>9, <1>10 DEF SendersInv

\* ... keys are stored, by a push ...
LEMMA StoreKeySafe ==
    ASSUME SendersInv, NEW h \in Handler, StoreKey(h)
    PROVE  SendersInv'
<1>1. SenderTypes /\ LeftIsKnown /\ EnablingIsSafe /\ LeavingIsSafe /\ CountIsComing
  BY DEF SendersInv
<1>2. /\ UNCHANGED <<member, count, encrypted, epoch, faults>> /\ op[h].pc = "store"
      /\ keys' = keys \cup NewKeys(h, op[h].epoch)
  BY DEF StoreKey, OpAt, groupVars
<1>3. /\ SenderTypes' /\ Moved(h) /\ op'[h] = IdleOp
      /\ op[h].epoch \in Nat /\ op[h].kind = "push"
  BY <1>1, StoreKeyStep
<1>4. NoNewKeys
  BY <1>1, <1>2, <1>3, StoringIsLate
<1>5. \A v \in Account : Gone(v)' => Gone(v)
  BY <1>2 DEF Gone
<1>6. op'[h].kind # "enable"
  BY <1>3, IdleOpType
<1>7. EnablingIsSafe'
  BY <1>1, <1>3, <1>4, <1>5, <1>6, EnablingUnmoved
<1>8. LeavingIsSafe'
  <2>1. \A u \in Account, g \in Handler : Gone(u)' /\ Rotating(g, u) => Rotating(g, u)'
    BY <1>1, <1>2, <1>3, <1>4, RotatingElsewhere
  <2>2. QED
    BY <1>1, <1>2, <1>4, <1>5, <2>1, LeavingKept
<1>9. CountIsComing'
  <2>1. \A g \in Handler : op[g].kind \in {"join", "leave"} => op'[g].kind = op[g].kind
    BY <1>3 DEF Moved
  <2>2. QED
    BY <1>1, <1>2, <2>1, CountKept
<1>10. LeftIsKnown'
  BY <1>1, <1>2, <1>3, KnownKept
<1>11. QED
  BY <1>3, <1>7, <1>8, <1>9, <1>10 DEF SendersInv

\* ... or by enabling encryption, in an epoch whose keys are late for whoever has left, ...
LEMMA EncryptSafe ==
    ASSUME SendersInv, NEW h \in Handler, Encrypt(h)
    PROVE  SendersInv'
<1>1. SenderTypes /\ LeftIsKnown /\ EnablingIsSafe /\ LeavingIsSafe /\ CountIsComing
  BY DEF SendersInv
<1>2. /\ UNCHANGED <<member, count, epoch, faults>> /\ op[h].pc = "encrypt"
      /\ keys' = keys \cup NewKeys(h, op[h].epoch + 1)
  BY DEF Encrypt, OpAt, groupVars
<1>3. /\ SenderTypes' /\ Moved(h) /\ op'[h] = IdleOp
      /\ op[h].epoch \in Nat /\ op[h].epoch + 1 =< epoch /\ op[h].kind = "enable"
  BY <1>1, EncryptStep
<1>4. NoNewKeys
  <2>1. op[h].epoch + 1 \in Nat
    BY <1>3
  <2>2. QED
    BY <1>1, <1>2, <1>3, <2>1, StoringIsLate
<1>5. \A v \in Account : Gone(v)' => Gone(v)
  BY <1>2 DEF Gone
<1>6. op'[h].kind # "enable"
  BY <1>3, IdleOpType
<1>7. EnablingIsSafe'
  BY <1>1, <1>3, <1>4, <1>5, <1>6, EnablingUnmoved
<1>8. LeavingIsSafe'
  <2>1. ASSUME NEW v \in Account, Gone(v)' PROVE Settled(v)'
    <3>1. OldTo(v, op[h].epoch)
      BY <1>1, <1>2, <1>3, <1>5, <2>1 DEF EnablingIsSafe
    <3>2. epoch > op[h].epoch
      BY <1>1, <1>3, ConstantsAreNat DEF SenderTypes
    <3>3. Settled(v)
      BY <3>1, <3>2 DEF OldTo, Settled
    <3>4. QED
      BY <1>2, <1>4, <2>1, <3>3, OldKept
  <2>2. QED
    BY <2>1 DEF LeavingIsSafe
<1>9. CountIsComing'
  <2>1. \A g \in Handler : op[g].kind \in {"join", "leave"} => op'[g].kind = op[g].kind
    BY <1>3 DEF Moved
  <2>2. QED
    BY <1>1, <1>2, <2>1, CountKept
<1>10. LeftIsKnown'
  BY <1>1, <1>2, <1>3, KnownKept
<1>11. QED
  BY <1>3, <1>7, <1>8, <1>9, <1>10 DEF SendersInv

\* ... a member leaves, and the request is going to begin an epoch, ...
LEMMA DepartSafe ==
    ASSUME SendersInv, NEW h \in Handler, Depart(h)
    PROVE  SendersInv'
<1>1. SenderTypes /\ LeftIsKnown /\ EnablingIsSafe /\ LeavingIsSafe /\ CountIsComing
  BY DEF SendersInv
<1>2. /\ UNCHANGED <<count, encrypted, epoch, faults>> /\ op[h].pc = "depart"
      /\ member' = member \ op[h].whom
  BY DEF Depart, OpAt
<1>3. /\ SenderTypes' /\ Moved(h) /\ op[h].kind = "leave"
      /\ op'[h].kind = "leave" /\ op'[h].pc = "status" /\ op'[h].whom = op[h].whom
  BY <1>1, DepartStep
<1>4. \A v \in Account : Gone(v)' => Gone(v) \/ v \in op[h].whom
  BY <1>2 DEF Gone
<1>5. \A k \in keys' : /\ \E m \in keys : /\ k.to = m.to /\ k.epoch = m.epoch
                                          /\ m.late => k.late
                       /\ k.to \in op[h].whom /\ Enabling => k.late
  BY <1>1, DepartingKeys
<1>6. \A v \in Account, e \in Nat :
         OldTo(v, e) => \A k \in keys' : k.to = v /\ k.epoch > e => k.late
  <2>1. ASSUME NEW v \in Account, NEW e \in Nat, OldTo(v, e), NEW k \in keys',
               k.to = v, k.epoch > e
        PROVE  k.late
    <3>1. PICK m \in keys : k.to = m.to /\ k.epoch = m.epoch /\ (m.late => k.late)
      BY <1>5, Zenon
    <3>2. m.to = v /\ m.epoch > e
      BY <2>1, <3>1
    <3>3. m.late
      BY <2>1, <3>2 DEF OldTo
    <3>4. QED
      BY <3>1, <3>3, Zenon
  <2>2. QED
    BY <2>1
<1>7. EnablingIsSafe'
  <2>1. ASSUME NEW v \in Account, NEW g \in Handler, Gone(v)',
               op'[g].kind = "enable", op'[g].pc \in {"insert", "encrypt"}
        PROVE  \A k \in keys' : k.to = v /\ k.epoch > op'[g].epoch => k.late
    <3>1. g # h /\ op[g].kind = "enable" /\ op[g].pc \in {"insert", "encrypt"}
          /\ op'[g].epoch = op[g].epoch /\ op[g].epoch \in Nat
      BY <1>1, <1>3, <2>1 DEF Moved, SenderTypes, OpsTyped, OpType
    <3>2. CASE Gone(v)
      <4>1. OldTo(v, op[g].epoch)
        BY <1>1, <3>1, <3>2 DEF EnablingIsSafe
      <4>2. QED
        BY <1>6, <3>1, <4>1
    <3>3. CASE v \in op[h].whom
      <4>1. Enabling
        BY <3>1 DEF Enabling
      <4>2. QED
        <5>1. ASSUME NEW k \in keys', k.to = v PROVE k.late
          <6>1. k.to \in op[h].whom
            BY <3>3, <5>1
          <6>2. QED
            BY <1>5, <4>1, <6>1, Zenon
        <5>2. QED
          BY <5>1
    <3>4. QED
      BY <1>4, <2>1, <3>2, <3>3
  <2>2. QED
    BY <2>1 DEF EnablingIsSafe, OldTo
<1>8. LeavingIsSafe'
  <2>1. ASSUME NEW v \in Account, Gone(v)', encrypted
        PROVE  Settled(v)' \/ \E g \in Handler : Rotating(g, v)'
    <3>1. CASE v \in op[h].whom
      BY <1>3, <3>1 DEF Rotating
    <3>2. CASE Gone(v) /\ Settled(v)
      <4>1. \A k \in keys' : k.to = v /\ k.epoch = epoch => k.late
        <5>1. ASSUME NEW k \in keys', k.to = v, k.epoch = epoch PROVE k.late
          <6>1. PICK m \in keys : k.to = m.to /\ k.epoch = m.epoch /\ (m.late => k.late)
            BY <1>5, Zenon
          <6>2. m.late
            BY <3>2, <5>1, <6>1 DEF Settled
          <6>3. QED
            BY <6>1, <6>2, Zenon
        <5>2. QED
          BY <5>1
      <4>2. QED
        BY <1>2, <4>1 DEF Settled
    <3>3. ASSUME NEW g \in Handler, Rotating(g, v) PROVE Rotating(g, v)'
      <4>1. g # h
        BY <1>2, <3>3 DEF Rotating
      <4>2. /\ op'[g].kind = op[g].kind /\ op'[g].pc = op[g].pc
            /\ op'[g].whom = op[g].whom /\ op'[g].epoch = op[g].epoch
            /\ op[g].epoch \in Nat
        BY <1>1, <1>3, <4>1 DEF Moved, SenderTypes, OpsTyped, OpType
      <4>3. OldTo(v, op[g].epoch) => OldTo(v, op[g].epoch)'
        BY <1>6, <4>2 DEF OldTo
      <4>4. QED
        BY <3>3, <4>2, <4>3 DEF Rotating
    <3>4. QED
      BY <1>1, <1>4, <2>1, <3>1, <3>2, <3>3 DEF LeavingIsSafe
  <2>2. QED
    BY <1>2, <2>1 DEF LeavingIsSafe
<1>9. CountIsComing'
  BY <1>3 DEF CountIsComing
<1>10. LeftIsKnown'
  BY <1>1, LeavingIsNoted
<1>11. QED
  BY <1>3, <1>7, <1>8, <1>9, <1>10 DEF SendersInv

\* ... and devices are cleaned up.
LEMMA CleaningSafe == ASSUME SendersInv, CleanSenderKeys PROVE SendersInv'
<1>1. SenderTypes /\ LeftIsKnown /\ EnablingIsSafe /\ LeavingIsSafe /\ CountIsComing
  BY DEF SendersInv
<1>2. /\ UNCHANGED <<member, count, dismissed, encrypted, epoch, op, faults>>
      /\ keys' \subseteq keys
  BY DEF CleanSenderKeys, groupVars
<1>3. SenderTypes'
  BY <1>1, CleaningTypes
<1>4. EnablingIsSafe'
  BY <1>1, <1>2 DEF EnablingIsSafe, OldTo, Gone
<1>5. LeavingIsSafe'
  BY <1>1, <1>2 DEF LeavingIsSafe, Settled, Rotating, OldTo, Gone
<1>6. LeftIsKnown' /\ CountIsComing'
  BY <1>1, <1>2 DEF LeftIsKnown, CountIsComing
<1>7. QED
  BY <1>3, <1>4, <1>5, <1>6 DEF SendersInv

LEMMA SendersSafe == SendersInv /\ [GroupKeysNext]_senderVars => SendersInv'
<1> SUFFICES ASSUME SendersInv, [GroupKeysNext]_senderVars PROVE SendersInv'
  OBVIOUS
<1>1. CASE UNCHANGED senderVars
  <2>1. UNCHANGED <<member, count, dismissed, encrypted, epoch, keys, op, faults>>
    BY <1>1 DEF senderVars, groupVars
  <2>2. SenderTypes'
    BY <2>1 DEF SendersInv, SenderTypes, OpsTyped, InPlace, EpochsOf
  <2>3. EnablingIsSafe' /\ LeavingIsSafe'
    BY <2>1 DEF SendersInv, EnablingIsSafe, LeavingIsSafe, Settled, Rotating, OldTo, Gone
  <2>4. LeftIsKnown' /\ CountIsComing'
    BY <2>1 DEF SendersInv, LeftIsKnown, CountIsComing
  <2>5. QED
    BY <2>2, <2>3, <2>4 DEF SendersInv
<1>2. CASE \E h \in Handler, u \in Account, whom \in SUBSET Account, kind \in DOMAIN Steps :
             Ask(h, kind, u, whom)
  BY <1>2, AskSafe
<1>3. ASSUME NEW h \in Handler,
             \/ Upsert(h) \/ Depart(h) \/ ReadStatus(h) \/ ReadEpoch(h) \/ InsertEpoch(h)
             \/ Encrypt(h) \/ StoreKey(h) \/ Forget(h) \/ Plain(h) \/ Dismiss(h)
             \/ Purge(h) \/ Recount(h) \/ FailOp(h)
      PROVE  SendersInv'
  BY <1>3, PlainSafe, DepartSafe, ReadStatusSafe, ReadEpochSafe, InsertEpochSafe, EncryptSafe,
     StoreKeySafe, FailOpSafe
<1>4. CASE CleanSenderKeys
  BY <1>4, CleaningSafe
<1>5. QED
  BY <1>1, <1>2, <1>3, <1>4 DEF GroupKeysNext

LEMMA SendersBegin == GroupKeysInit => SendersInv
<1> SUFFICES ASSUME GroupKeysInit PROVE SendersInv
  OBVIOUS
<1>1. SenderTypes
  BY SenderTypesInit
<1>2. /\ member = {Owner} /\ count = 1 /\ encrypted = FALSE
      /\ \A h \in Handler : op[h].kind = "none"
  BY IdleOpType DEF GroupKeysInit
<1>3. LeftIsKnown /\ EnablingIsSafe /\ LeavingIsSafe
  BY <1>2 DEF LeftIsKnown, EnablingIsSafe, LeavingIsSafe
<1>4. CountIsComing
  BY <1>2, FS_Singleton DEF CountIsComing
<1>5. QED
  BY <1>1, <1>3, <1>4 DEF SendersInv

\* Types are what they can be: users are accounts, no key is of an epoch to come.
THEOREM SenderKeysTyped == GroupKeysSpec => []GroupKeysTypeOK
<1>1. SendersInv => GroupKeysTypeOK
  <2>1. keys \subseteq KeyType => \A k \in keys : k.from \in Account /\ k.to \in Account
                                                    /\ k.epoch \in Nat
    BY DEF KeyType
  <2>2. ASSUME SendersInv, NEW k \in keys PROVE k.epoch \in 1..epoch
    <3>1. k.epoch \in Nat /\ k.epoch >= 1 /\ k.epoch =< epoch /\ epoch \in Nat
      BY <2>1, <2>2, ConstantsAreNat DEF SendersInv, SenderTypes
    <3>2. QED
      BY <3>1
  <2>3. QED
    BY <2>1, <2>2 DEF SendersInv, SenderTypes, GroupKeysTypeOK
<1>2. QED
  BY <1>1, SendersBegin, SendersSafe, PTL DEF GroupKeysSpec

\* Whoever has left a group is given no key of its newest epoch, other than from requests
\* that had checked before, however departures, rotations, pushes and the enabling of
\* encryption overlap; and once no member comes or goes the count is right.
THEOREM MembershipCorrect == GroupKeysSpec => []MembershipSettles
<1>1. SendersInv => MembershipSettles
  <2> SUFFICES ASSUME SendersInv PROVE MembershipSettles
    OBVIOUS
  <2>1. ASSUME NEW u \in Account \ (member \cup faults), encrypted,
               \A h \in Handler : op[h].kind = "leave" => u \notin op[h].whom
        PROVE  \A k \in MySenderKeys(u) : k.late
    <3>1. Settled(u)
      BY <2>1 DEF SendersInv, LeavingIsSafe, Gone, Rotating
    <3>2. QED
      BY <3>1 DEF Settled, MySenderKeys
  <2>2. ASSUME faults = {}, \A h \in Handler : op[h].kind \notin {"join", "leave"}
        PROVE  count = Cardinality(member)
    BY <2>2 DEF SendersInv, CountIsComing
  <2>3. QED
    BY <2>1, <2>2 DEF MembershipSettles
<1>2. QED
  BY <1>1, SendersBegin, SendersSafe, PTL DEF GroupKeysSpec
-----------------------------------------------------------------------------
(* The types of the parts, and of all of them side by side.                *)

\* Salts are given out only once they are made.
LEMMA BackupTypedInit == BackupInit => BackupTypeOK
BY DEF BackupInit, BackupTypeOK, NoBackup, IsEmpty

LEMMA BackupTypedStep == BackupInv /\ BackupTypeOK /\ [BackupNext]_backupVars => BackupTypeOK'
<1> SUFFICES ASSUME BackupInv, BackupTypeOK, [BackupNext]_backupVars PROVE BackupTypeOK'
  OBVIOUS
<1> USE DEF BackupTypeOK, IsEmpty
<1>0. BackupTypes
  BY DEF BackupInv
<1>1. ASSUME NEW d \in Backer, ReadSalt(d) PROVE BackupTypeOK'
  BY <1>0, <1>1 DEF ReadSalt, BackupTypes
<1>2. ASSUME NEW d \in Backer, MakeSalt(d) PROVE BackupTypeOK'
  <2>1. /\ salts' = salts + 1 /\ asking' = [asking EXCEPT ![d] = salts + 1]
        /\ stored' = stored /\ salt' = salt
    BY <1>2 DEF MakeSalt
  <2>2. salts \in Nat /\ \A k \in 0..salts : k \in 0..salts'
    BY <1>0, <2>1 DEF BackupTypes
  <2>3. \A e \in Backer : asking'[e] \in 0..salts'
    BY <1>0, <2>1, <2>2 DEF BackupTypes
  <2>4. QED
    BY <2>1, <2>2, <2>3
<1>3. ASSUME NEW d \in Backer, StoreSalt(d) PROVE BackupTypeOK'
  <2>1. /\ stored' = [stored EXCEPT !.salt = asking[d]]
        /\ salt' = [salt EXCEPT ![d] = asking[d]] /\ asking' = [asking EXCEPT ![d] = 0]
        /\ salts' = salts /\ asking[d] # 0
    BY <1>3 DEF StoreSalt
  <2>2. stored'.salt = asking[d] /\ stored'.text = stored.text
    BY <1>0, <2>1 DEF BackupTypes
  <2>3. salts \in Nat
    BY <1>0 DEF BackupTypes
  <2>4. \A e \in Backer : salt'[e] \in 0..salts' /\ asking'[e] \in 0..salts'
    BY <1>0, <2>1, <2>3 DEF BackupTypes
  <2>5. QED
    BY <2>1, <2>2, <2>4
<1>4. ASSUME NEW d \in Backer, SaltFails(d) PROVE BackupTypeOK'
  BY <1>0, <1>4 DEF SaltFails, BackupTypes
<1>5. ASSUME NEW d \in Backer, UploadBackup(d) PROVE BackupTypeOK'
  BY <1>0, <1>5 DEF UploadBackup, WithItsSalt, BackupTypes
<1>6. ASSUME NEW d \in Backer, RestoreBackup(d) PROVE BackupTypeOK'
  BY <1>0, <1>6 DEF RestoreBackup, BackupTypes
<1>7. CASE UNCHANGED backupVars
  BY <1>7 DEF backupVars
<1>8. QED
  BY <1>1, <1>2, <1>3, <1>4, <1>5, <1>6, <1>7 DEF BackupNext

LEMMA BackupsTyped == BackupSpec => []BackupTypeOK
BY BackupInvInit, BackupInvStep, BackupTypedInit, BackupTypedStep, PTL DEF BackupSpec

\* Keys are inserted at most MaxCopies times, but for an upload, which inserts them once.
LEMMA NewRowsTyped ==
    ASSUME KeysTypes, NEW batch \in SUBSET PreKey, NEW g \in 1..MaxUploads,
           NEW copies \in [PreKey -> Nat], \A k \in batch : copies[k] =< MaxCopies
    PROVE  NewRows(batch, g, copies) \subseteq KeyRow
<1>1. MaxCopies \in Nat
  BY KeysAssumption
<1>2. \A k \in batch : copies[k] + 1 \in 1..MaxCopies + 1
  BY <1>1
<1>3. QED
  BY <1>2 DEF NewRows, KeyRow

LEMMA KeysTypedInit == KeysInit => KeysTypeOK
<1> SUFFICES ASSUME KeysInit PROVE KeysTypeOK
  OBVIOUS
<1>1. 1 \in 1..MaxUploads
  BY KeysAssumption
<1>2. \A c \in KeyClient : fetch[c].row = NoClaim
  BY DEF KeysInit, IdleFetch
<1>3. QED
  BY <1>1, <1>2 DEF KeysInit, KeysTypeOK

LEMMA KeysTypedStep == KeysInv /\ KeysTypeOK /\ [KeysNext]_keysVars => KeysTypeOK'
<1> SUFFICES ASSUME KeysInv, KeysTypeOK, [KeysNext]_keysVars PROVE KeysTypeOK'
  OBVIOUS
<1>0. /\ KeysTypes /\ IdleFetch.row = NoClaim
      /\ \A c \in KeyClient : fetch[c].pc # "idle" => fetch[c].who \in Combination
      /\ fetch \in [KeyClient -> FetchType] /\ sent \in [PreKey -> Nat] /\ gen \in Nat
  BY DEF KeysInv, KeysTypes, IdleFetch
<1> DEFINE Rows == KeyRow \cup {Fallback, NoClaim}
<1> USE DEF KeysTypeOK
<1>1. ASSUME NEW batch \in SUBSET PreKey, NEW signed \in SUBSET PreKey,
             Upload(batch, signed)
      PROVE  KeysTypeOK'
  <2>1. gen + 1 \in 1..MaxUploads /\ MaxCopies \in Nat
    BY <1>1, KeysAssumption DEF Upload
  <2>2. NoCopies \in [PreKey -> Nat] /\ \A k \in batch : NoCopies[k] =< MaxCopies
    BY <2>1 DEF NoCopies
  <2>3. NewRows(batch, gen + 1, NoCopies) \subseteq KeyRow
    BY <1>0, <2>1, <2>2, NewRowsTyped
  <2>4. \A c \in KeyClient : fetch'[c].row = fetch[c].row
    BY <1>0, <1>1 DEF Upload, FetchType
  <2>5. /\ pool' = NewRows(batch, gen + 1, NoCopies) /\ consumed' \subseteq pool'
        /\ gen' = gen + 1 /\ active' \in BOOLEAN
        /\ claims' = [w \in Combination |-> NoClaim]
    BY <1>1 DEF Upload, PoolAfterUpload
  <2>6. QED
    BY <2>1, <2>3, <2>4, <2>5
<1>2. ASSUME NEW batch \in SUBSET PreKey, NEW signed \in SUBSET PreKey,
             Refill(batch, signed)
      PROVE  KeysTypeOK'
  <2>1. MaxCopies \in Nat /\ \A k \in batch : sent[k] \in Nat /\ sent[k] < MaxCopies
    BY <1>0, <1>2, KeysAssumption DEF Refill
  <2>2. NewRows(batch, gen, sent) \subseteq KeyRow
    BY <1>0, <2>1, NewRowsTyped
  <2>3. QED
    BY <1>2, <2>2 DEF Refill, answerVars
<1>3. CASE DeleteDevice
  BY <1>3 DEF DeleteDevice, answerVars
<1>4. CASE DeleteExpired
  BY <1>4 DEF DeleteExpired, deviceVars, answerVars
<1>5. CASE CleanDevice
  BY <1>5 DEF CleanDevice, poolVars, answerVars
<1>6. CASE CleanOrphans
  BY <1>6 DEF CleanOrphans, deviceVars, answerVars
<1>7. ASSUME NEW w \in Combination, CleanClaim(w) PROVE KeysTypeOK'
  BY <1>7 DEF CleanClaim, deviceVars, poolVars, answerVars
<1>8. ASSUME NEW c \in KeyClient, NEW w \in Combination, ReadDevice(c, w)
      PROVE  KeysTypeOK'
  BY <1>0, <1>8 DEF ReadDevice, deviceVars, poolVars, answerVars, IdleFetch
<1>9. ASSUME NEW c \in KeyClient, CheckFetch(c) PROVE KeysTypeOK'
  <2>1. fetch'[c] = [fetch[c] EXCEPT !.pc = "claim"] \/ fetch'[c] = IdleFetch
    BY <1>0, <1>9 DEF CheckFetch
  <2>2. fetch'[c].row \in Rows
    BY <1>0, <2>1 DEF FetchType
  <2>3. \A d \in KeyClient \ {c} : fetch'[d] = fetch[d]
    BY <1>0, <1>9 DEF CheckFetch
  <2>4. QED
    BY <1>9, <2>2, <2>3 DEF CheckFetch, deviceVars, poolVars
<1>10. ASSUME NEW c \in KeyClient, ClaimKey(c) PROVE KeysTypeOK'
  <2>1. PICK r \in Unconsumed :
            /\ claims' = [claims EXCEPT ![fetch[c].who] = r]
            /\ consumed' = MarkConsumed(r) /\ AnswerBundle(c, r)
    BY <1>10 DEF ClaimKey
  <2>2. r \in pool /\ r \in KeyRow
    BY DEF Unconsumed
  <2>3. \A d \in KeyClient : fetch'[d].row \in Rows
    BY <1>0, <2>1 DEF AnswerBundle
  <2>4. QED
    BY <1>10, <2>1, <2>2, <2>3 DEF ClaimKey, deviceVars, MarkConsumed
<1>11. ASSUME NEW c \in KeyClient, ClaimNothing(c) PROVE KeysTypeOK'
  BY <1>0, <1>11 DEF ClaimNothing, AnswerBundle, deviceVars, poolVars
<1>12. ASSUME NEW c \in KeyClient, ClaimExists(c) PROVE KeysTypeOK'
  BY <1>0, <1>12 DEF ClaimExists, FetchGoto, FetchType, deviceVars, poolVars
<1>13. ASSUME NEW c \in KeyClient, RereadClaim(c) PROVE KeysTypeOK'
  <2>1. CASE AnswerBundle(c, Fallback)
    BY <1>0, <1>13, <2>1 DEF RereadClaim, AnswerBundle, deviceVars, poolVars
  <2>2. CASE fetch' = [fetch EXCEPT ![c].pc = "verify", ![c].row = claims[fetch[c].who]]
    <3>1. claims[fetch[c].who] \in Rows /\ claims[fetch[c].who] \in RowType \cup {Fallback, NoClaim}
      BY <1>0, <1>13 DEF RereadClaim, FetchAt, KeysTypes
    <3>2. fetch'[c].row = claims[fetch[c].who] /\ \A d \in KeyClient \ {c} : fetch'[d] = fetch[d]
      BY <1>0, <2>2 DEF FetchType
    <3>3. QED
      BY <1>13, <3>1, <3>2 DEF RereadClaim, deviceVars, poolVars
  <2>3. QED
    BY <1>13, <2>1, <2>2 DEF RereadClaim
<1>14. ASSUME NEW c \in KeyClient, VerifyClaim(c) PROVE KeysTypeOK'
  <2>1. \A d \in KeyClient : fetch'[d].row \in Rows
    BY <1>0, <1>14 DEF VerifyClaim, AnswerBundle, FetchGoto, FetchType
  <2>2. QED
    BY <1>14, <2>1 DEF VerifyClaim, deviceVars, poolVars
<1>15. ASSUME NEW c \in KeyClient, DropStaleClaim(c) PROVE KeysTypeOK'
  <2>1. \/ fetch'[c] = IdleFetch
        \/ fetch'[c] = [fetch[c] EXCEPT !.pc = "claim", !.retried = TRUE, !.row = NoClaim]
    BY <1>0, <1>15 DEF DropStaleClaim
  <2>2. fetch'[c].row = NoClaim
    BY <1>0, <2>1 DEF FetchType
  <2>3. \A d \in KeyClient \ {c} : fetch'[d] = fetch[d]
    BY <1>0, <1>15 DEF DropStaleClaim
  <2>4. QED
    BY <1>15, <2>2, <2>3 DEF DropStaleClaim, deviceVars, poolVars
<1>16. ASSUME NEW c \in KeyClient, AbortFetch(c) PROVE KeysTypeOK'
  BY <1>0, <1>16 DEF AbortFetch, deviceVars, poolVars
<1>17. CASE UNCHANGED keysVars
  BY <1>17 DEF keysVars, deviceVars, poolVars
<1>18. QED
  BY <1>1, <1>2, <1>3, <1>4, <1>5, <1>6, <1>7, <1>8, <1>9, <1>10, <1>11, <1>12,
     <1>13, <1>14, <1>15, <1>16, <1>17
  DEF KeysNext

LEMMA KeysTyped == KeysSpec => []KeysTypeOK
BY KeysInvInit, KeysInvStep, KeysTypedInit, KeysTypedStep, PTL DEF KeysSpec

\* A row is there from its first version on, and what a request found pending was.
NegoTyped ==
    /\ meta \in 0..MaxRotation
    /\ \A s \in Session :
          /\ row[s].version =< MaxVersion
          /\ row[s].version = 0 <=> row[s] = NoRow
          /\ row[s].status \in {"pending", "encrypted", "rejected"} => row[s].asked # 0
    /\ \A c \in Caller : req[c].kind \in Change /\ req[c].pc = "write" =>
          (req[c].seen.version = 0 => req[c].seen.status = "none")

LEMMA NegoTypedInit == NegoInit => NegoTyped
<1> SUFFICES ASSUME NegoInit PROVE NegoTyped
  OBVIOUS
<1>1. MaxVersion \in Nat /\ MaxRotation \in Nat
  BY SessionAssumption
<1>2. \A s \in Session : row[s] = NoRow /\ row[s].version = 0 /\ row[s].status = "none"
  BY DEF NegoInit, NoRow
<1>3. \A c \in Caller : req[c].kind = "none"
  BY DEF NegoInit, IdleReq
<1>4. meta \in 0..MaxRotation
  BY <1>1 DEF NegoInit
<1>5. QED
  BY <1>1, <1>2, <1>3, <1>4 DEF NegoTyped, Change

\* A write of a new version, or of a row that was there.
LEMMA WriteRowTyped ==
    ASSUME NegoInv, NegoTyped, NEW c \in Caller, req[c].kind \in Change, NEW r \in RowOf,
           WriteRow(c, r), meta' = meta,
           r.version > 0 /\ r.version =< MaxVersion,
           r.status \in {"pending", "encrypted", "rejected"} => r.asked # 0
    PROVE  NegoTyped'
<1>0. NegoTypes /\ req[c].id \in Session
  BY DEF NegoInv, NegoTypes, ReqOf
<1>1. /\ row' = [row EXCEPT ![req[c].id] = r]
      /\ req'[c].pc = "reload"
      /\ \A d \in Caller : /\ req'[d].kind = req[d].kind /\ req'[d].seen = req[d].seen
                           /\ d # c => req'[d].pc = req[d].pc
  BY <1>0, WriteRowReq
<1>2. r # NoRow
  BY DEF NoRow
<1>3. \A s \in Session : row'[s] = IF s = req[c].id THEN r ELSE row[s]
  BY <1>0, <1>1 DEF NegoTypes
<1>4. ASSUME NEW s \in Session
      PROVE  /\ row'[s].version =< MaxVersion
             /\ row'[s].version = 0 <=> row'[s] = NoRow
             /\ row'[s].status \in {"pending", "encrypted", "rejected"} => row'[s].asked # 0
  <2>1. CASE s = req[c].id
    <3>1. row'[s] = r /\ r.version # 0
      BY <1>3, <2>1 DEF RowOf
    <3>2. QED
      BY <1>2, <3>1
  <2>2. CASE s # req[c].id
    BY <1>3, <2>2 DEF NegoTyped
  <2>3. QED
    BY <2>1, <2>2
<1>5. QED
  BY <1>1, <1>4 DEF NegoTyped

\* A step that leaves the rows.
LEMMA RequestTyped ==
    ASSUME NegoInv, NegoTyped, NEW c \in Caller, NEW q \in ReqOf, req' = [req EXCEPT ![c] = q],
           row' = row, meta' = meta,
           q.kind \in Change /\ q.pc = "write" => (q.seen.version = 0 => q.seen.status = "none")
    PROVE  NegoTyped'
<1>1. \A d \in Caller : req'[d] = IF d = c THEN q ELSE req[d]
  BY DEF NegoInv, NegoTypes
<1>2. QED
  BY <1>1 DEF NegoTyped

LEMMA RequestEndsTyped ==
    ASSUME NegoInv, NegoTyped, NEW c \in Caller, ReqEnds(c), row' = row, meta' = meta
    PROVE  NegoTyped'
<1>1. IdleReq \in ReqOf /\ IdleReq.kind = "none"
  BY RowTypes DEF IdleReq
<1>2. QED
  BY <1>1, RequestTyped DEF ReqEnds, Change

LEMMA NegoTypedStep == NegoInv /\ NegoTyped /\ [NegoNext]_negoVars => NegoTyped'
<1> SUFFICES ASSUME NegoInv, NegoTyped, [NegoNext]_negoVars PROVE NegoTyped'
  OBVIOUS
<1>0. /\ NegoTypes
      /\ \A c \in Caller : req[c] \in ReqOf /\ req[c].id \in Session
                           /\ req[c].user \in User /\ req[c].seen \in RowOf
      /\ \A s \in Session : row[s] \in RowOf /\ row[s].version \in Nat /\ row[s].asked \in Nat
      /\ MaxVersion \in Nat /\ MaxRotation \in Nat
  BY SessionAssumption DEF NegoInv, NegoTypes, ReqOf, RowOf
<1>1. ASSUME NEW c \in Caller, NEW kind \in Change, NEW u \in User, NEW s \in Session,
             AskChange(c, kind, u, s)
      PROVE  NegoTyped'
  <2> DEFINE q == [IdleReq EXCEPT !.kind = kind, !.pc = "load", !.user = u, !.id = s]
  <2>1. q \in ReqOf /\ q.pc = "load"
    BY RowTypes DEF IdleReq, ReqOf
  <2>2. req' = [req EXCEPT ![c] = q] /\ row' = row /\ meta' = meta
    BY <1>1 DEF AskChange
  <2> HIDE DEF q
  <2>3. QED
    BY <2>1, <2>2, RequestTyped
<1>2. ASSUME NEW c \in Caller, LoadRow(c) PROVE NegoTyped'
  <2> DEFINE r  == row[req[c].id]
             pc == AfterLoad(req[c].kind, r)
             q  == [req[c] EXCEPT !.pc = pc, !.seen = r]
  <2>1. row' = row /\ meta' = meta
    BY <1>2 DEF LoadRow
  <2>2. CASE ReqEnds(c)
    BY <2>1, <2>2, RequestEndsTyped
  <2>3. CASE req' = [req EXCEPT ![c].pc = pc, ![c].seen = r]
    <3>1. r \in RowOf /\ pc \in {"push", "write"}
      BY <1>0 DEF AfterLoad
    <3>2. r.version = 0 => r.status = "none"
      <4>1. r.version = 0 => r = NoRow
        BY <1>0 DEF NegoTyped
      <4>2. QED
        BY <4>1 DEF NoRow
    <3>3. req' = [req EXCEPT ![c] = q]
      BY <1>0, <2>3 DEF NegoTypes
    <3> HIDE DEF r, pc
    <3>4. q \in ReqOf /\ q.seen = r
      BY <1>0, <3>1 DEF ReqOf
    <3> HIDE DEF q
    <3>5. QED
      BY <2>1, <3>2, <3>3, <3>4, RequestTyped
  <2>4. QED
    BY <1>2, <2>2, <2>3 DEF LoadRow
<1>3. ASSUME NEW c \in Caller, WriteRequest(c) PROVE NegoTyped'
  <2> DEFINE s == req[c].id
             v == row[s].version
             old == [row[s] EXCEPT !.payload = TRUE]
             new == [status |-> "pending", requester |-> req[c].user, payload |-> TRUE,
                     version |-> v + 1, asked |-> v + 1]
  <2>1. /\ req[c].kind \in Change /\ req[c].pc = "write" /\ s \in Session /\ v \in Nat
        /\ v < MaxVersion /\ meta' = meta
    BY <1>0, <1>3 DEF WriteRequest, ReqAt, Change
  <2>2. CASE req[c].seen.status = "pending" /\ WriteRow(c, old)
    <3>1. /\ old \in RowOf /\ old.version = v
          /\ old.status = row[s].status /\ old.asked = row[s].asked
      BY ZenonT(30), <1>0 DEF RowOf
    <3>2. req[c].seen.version # 0 /\ req[c].seen.version =< v /\ req[c].seen.version \in Nat
      BY <1>0, <2>1, <2>2 DEF NegoTyped, NegoInv, RowOf
    <3>3. row[s].status \in {"pending", "encrypted", "rejected"} => row[s].asked # 0
      BY <2>1 DEF NegoTyped
    <3> HIDE DEF old
    <3>4. v > 0 /\ v =< MaxVersion
      BY <1>0, <2>1, <3>2
    <3>5. QED
      BY <2>1, <2>2, <3>1, <3>3, <3>4, WriteRowTyped
  <2>3. CASE WriteRow(c, new)
    <3>1. new \in RowOf /\ new.version = v + 1 /\ new.asked = v + 1
      BY <1>0, <2>1 DEF RowOf
    <3> HIDE DEF new
    <3>2. v + 1 > 0 /\ v + 1 =< MaxVersion /\ v + 1 # 0
      BY <1>0, <2>1
    <3>3. QED
      BY <2>1, <2>3, <3>1, <3>2, WriteRowTyped
  <2>4. CASE ReqEnds(c) /\ UNCHANGED row
    BY <2>1, <2>4, RequestEndsTyped
  <2>5. \/ req[c].seen.status = "pending" /\ WriteRow(c, old)
        \/ WriteRow(c, new)
        \/ ReqEnds(c) /\ UNCHANGED row
    BY <1>3 DEF WriteRequest, NextVersion
  <2>6. QED
    BY <2>2, <2>3, <2>4, <2>5
<1>4. ASSUME NEW c \in Caller, NEW verdict \in {"encrypted", "rejected"},
             req[c].kind \in Change, WriteAnswer(c, verdict)
      PROVE  NegoTyped'
  <2> DEFINE s == req[c].id
             v == row[s].version
             r == [row[s] EXCEPT !.status = verdict, !.version = v + 1]
  <2>1. s \in Session /\ v \in Nat /\ v < MaxVersion /\ meta' = meta
    BY <1>0, <1>4 DEF WriteAnswer
  <2>2. CASE ReqEnds(c) /\ UNCHANGED <<row, answered>>
    BY <2>1, <2>2, RequestEndsTyped
  <2>3. CASE row[s].status = "pending" /\ WriteRow(c, r)
    <3>1. r \in RowOf /\ r.version = v + 1 /\ r.asked = row[s].asked
      <4>1. row[s] \in RowOf /\ v + 1 \in Nat
        BY <1>0, <2>1
      <4> HIDE DEF v, s
      <4>2. QED
        BY <4>1 DEF RowOf
    <3>2. row[s].asked # 0
      BY <2>1, <2>3 DEF NegoTyped
    <3> HIDE DEF r
    <3>3. v + 1 > 0 /\ v + 1 =< MaxVersion
      BY <1>0, <2>1
    <3>4. QED
      BY <1>4, <2>1, <2>3, <3>1, <3>2, <3>3, WriteRowTyped
  <2>4. QED
    BY <1>4, <2>2, <2>3 DEF WriteAnswer, StillPending, NextVersion
<1>5. ASSUME NEW c \in Caller, WriteDisable(c) PROVE NegoTyped'
  <2> DEFINE s == req[c].id
             v == row[s].version
             u == IF row[s] = NoRow THEN req[c].user ELSE row[s].requester
             r == [status |-> "plaintext", payload |-> FALSE, requester |-> u,
                   version |-> v + 1, asked |-> row[s].asked]
  <2>1. /\ req[c].kind \in Change /\ s \in Session /\ v \in Nat /\ v < MaxVersion
        /\ meta' = meta
    BY <1>0, <1>5 DEF WriteDisable, ReqAt, Change
  <2>2. CASE WriteRow(c, r)
    <3>1. u \in User /\ row[s].asked \in Nat
      BY <1>0, <2>1 DEF RowOf
    <3> HIDE DEF u
    <3>2. r \in RowOf /\ r.version = v + 1 /\ r.status = "plaintext"
      BY <2>1, <3>1 DEF RowOf
    <3> HIDE DEF r
    <3>3. v + 1 > 0 /\ v + 1 =< MaxVersion
      BY <1>0, <2>1
    <3>4. QED
      BY <2>1, <2>2, <3>2, <3>3, WriteRowTyped
  <2>3. CASE ReqEnds(c) /\ UNCHANGED row
    BY <2>1, <2>3, RequestEndsTyped
  <2>4. QED
    BY <1>5, <2>2, <2>3 DEF WriteDisable, NextVersion
<1>6. ASSUME NEW c \in Caller, ReloadRow(c) PROVE NegoTyped'
  <2> DEFINE v == VersionToPush(c)
  <2>1. /\ req' = [req EXCEPT ![c].pc = "push", ![c].seen.version = v]
        /\ row' = row /\ meta' = meta
    BY <1>6 DEF ReloadRow
  <2> HIDE DEF v
  <2>2. req'[c].pc = "push" /\ \A d \in Caller \ {c} : req'[d] = req[d]
    BY <1>0, <2>1 DEF NegoTypes, ReqOf
  <2>3. QED
    BY <2>1, <2>2 DEF NegoTyped
<1>7. ASSUME NEW c \in Caller, Push(c) \/ AbortReq(c) \/ Post(c) PROVE NegoTyped'
  <2>1. ReqEnds(c) /\ row' = row /\ meta' = meta
    BY <1>7 DEF Push, AbortReq, Post
  <2>2. QED
    BY <2>1, RequestEndsTyped
<1>8. ASSUME NEW c \in Caller, ReadNegotiated(c) \/ ReadMetadata(c) PROVE NegoTyped'
  <2>1. PICK pc \in {"encrypted", "metadata", "plaintext"} : ReqGoto(c, pc)
    BY <1>8 DEF ReadNegotiated, ReadMetadata
  <2>2. req'[c].pc = pc /\ \A d \in Caller \ {c} : req'[d] = req[d]
    BY <1>0, <2>1 DEF ReqGoto, NegoTypes, ReqOf
  <2>3. row' = row /\ meta' = meta
    BY <1>8 DEF ReadNegotiated, ReadMetadata
  <2>4. QED
    BY <2>2, <2>3 DEF NegoTyped
<1>9. ASSUME NEW c \in Caller, NEW u \in User, BeginSend(c, u) PROVE NegoTyped'
  <2> DEFINE p == row[Canonical].status # "encrypted"
             q == [IdleReq EXCEPT !.kind = "send", !.pc = "negotiated", !.user = u, !.plain = p]
  <2>1. p \in BOOLEAN
    OBVIOUS
  <2>2. req' = [req EXCEPT ![c] = q] /\ row' = row /\ meta' = meta
    BY <1>9 DEF BeginSend
  <2> HIDE DEF p
  <2>3. q \in ReqOf /\ q.pc = "negotiated"
    BY <2>1, RowTypes DEF IdleReq, ReqOf
  <2> HIDE DEF q
  <2>4. QED
    BY <2>2, <2>3, RequestTyped
<1>10. ASSUME NextMeta PROVE NegoTyped'
  <2>1. /\ meta' = meta + 1 /\ meta < MaxRotation /\ meta \in Nat /\ row' = row /\ req' = req
    BY <1>0, <1>10 DEF NextMeta, NegoTyped
  <2>2. meta' \in 0..MaxRotation
    BY <1>0, <2>1
  <2>3. QED
    BY <2>1, <2>2 DEF NegoTyped
<1>11. CASE UNCHANGED negoVars
  BY <1>11 DEF negoVars, NegoTyped
<1>12. \A c \in Caller : WriteAccept(c) \/ WriteReject(c) => req[c].kind \in Change
  BY DEF WriteAccept, WriteReject, ReqAt, Change
<1>13. QED
  BY <1>1, <1>2, <1>3, <1>4, <1>5, <1>6, <1>7, <1>8, <1>9, <1>10, <1>11, <1>12
  DEF NegoNext, WriteAccept, WriteReject, CreateSession, RotateSession

LEMMA NegotiationsTyped == NegoSpec => []NegoTypeOK
<1>1. NegoInv /\ NegoTyped => NegoTypeOK
  <2> SUFFICES ASSUME NegoInv, NegoTyped, NEW s \in Session
               PROVE  /\ meta \in 0..MaxRotation
                      /\ row[s].requester \in User
                      /\ row[s].version \in 0..MaxVersion
                      /\ row[s].version = 0 <=> row[s] = NoRow
                      /\ row[s].status \in {"encrypted", "rejected"} => row[s].asked # 0
                      /\ told[s] \in 0..row[s].version
    BY DEF NegoTypeOK, NegoTyped
  <2>1. /\ row[s].requester \in User /\ row[s].version \in Nat /\ told[s] \in Nat
        /\ told[s] =< row[s].version
    BY DEF NegoInv, NegoTypes, RowOf
  <2>2. MaxVersion \in Nat
    BY SessionAssumption
  <2>3. QED
    BY <2>1, <2>2 DEF NegoTyped
<1>2. QED
  BY NegoInvInit, NegoInvStep, NegoTypedInit, NegoTypedStep, <1>1, PTL DEF NegoSpec

\* The bounds hold of every state a thread has at hand.
HostsTyped == HostsTypeOK /\ outbound \in 0..MaxOutbound

LEMMA HostStates ==
    /\ MaxOutbound \in Nat /\ None \in HostState /\ NoCall.state = None
    /\ \A r \in Handshake \cup 0..MaxOutbound : New(r) \in HostState
    /\ \A s \in HostState : s.sent < MaxSent => Sent(s) \in HostState
    /\ \A s \in HostState : s.read < MaxRead => Read(s) \in HostState
<1>1. MaxOutbound \in Nat /\ MaxSent \in Nat /\ MaxRead \in Nat
  BY HostsAssumption
<1>2. \A s \in HostState : s.sent < MaxSent => Sent(s) \in HostState
  BY <1>1 DEF HostState, Sent
<1>3. \A s \in HostState : s.read < MaxRead => Read(s) \in HostState
  BY <1>1 DEF HostState, Read
<1>4. QED
  BY <1>1, <1>2, <1>3 DEF HostState, None, New, NoCall

LEMMA HostsTypedInit == HostsInit => HostsTyped
<1> SUFFICES ASSUME HostsInit PROVE HostsTyped
  OBVIOUS
<1>1. \A t \in Thread : call[t].state = None
  BY HostStates DEF HostsInit
<1>2. outbound \in 0..MaxOutbound
  BY HostStates DEF HostsInit
<1>3. QED
  BY <1>1, <1>2, HostStates DEF HostsInit, HostsTyped, HostsTypeOK

LEMMA HostsTypedStep == HostsInv /\ HostsTyped /\ [HostsNext]_hostVars => HostsTyped'
<1> SUFFICES ASSUME HostsInv, HostsTyped, [HostsNext]_hostVars PROVE HostsTyped'
  OBVIOUS
<1>0. /\ HostsTypes /\ held \in HostState /\ exported \subseteq HostState \ {None}
      /\ \A t \in Thread : call[t].state \in HostState
      /\ outbound \in 0..MaxOutbound
  BY DEF HostsInv, HostsTyped, HostsTypeOK
<1>1. ASSUME held' \in HostState, exported' \subseteq HostState \ {None},
             outbound' \in 0..MaxOutbound,
             \A t \in Thread : call'[t].state \in HostState
      PROVE  HostsTyped'
  BY <1>1 DEF HostsTyped, HostsTypeOK
<1>2. \A t \in Thread, action \in {"insert", "encrypt", "decrypt"}, s \in HostState :
         Calls(t, action, s) => \A u \in Thread : call'[u].state \in HostState
  BY <1>0 DEF Calls, HostsTypes
<1>3. \A t \in Thread : Returns(t) => \A u \in Thread : call'[u].state \in HostState
  BY <1>0, HostStates DEF Returns, HostsTypes
<1>4. outbound < MaxOutbound =>
         outbound + 1 \in 0..MaxOutbound /\ New(outbound + 1) \in HostState
  BY <1>0, HostStates
<1>5. ASSUME NEW t \in Thread, NativeOutbound(t) PROVE HostsTyped'
  BY <1>0, <1>1, <1>2, <1>4, <1>5 DEF NativeOutbound
<1>6. ASSUME NEW t \in Thread, NEW h \in Handshake, NativeInbound(t, h) PROVE HostsTyped'
  BY <1>0, <1>1, <1>2, <1>6, HostStates DEF NativeInbound
<1>7. ASSUME NEW t \in Thread, NEW s \in exported, NativeRestore(t, s) PROVE HostsTyped'
  BY <1>0, <1>1, <1>2, <1>7 DEF NativeRestore
<1>8. ASSUME NEW t \in Thread, NativeInsert(t) PROVE HostsTyped'
  BY <1>0, <1>1, <1>3, <1>8 DEF NativeInsert
<1>9. CASE NativeEncrypt \/ NativeDecrypt \/ WebEncrypt \/ WebDecrypt
  BY <1>0, <1>1, <1>9, HostStates
  DEF NativeEncrypt, NativeDecrypt, WebEncrypt, WebDecrypt, UseToEncrypt, UseToDecrypt
<1>10. CASE NativeExport \/ WebExport \/ MobileExport
  BY <1>0, <1>1, <1>10 DEF NativeExport, WebExport, MobileExport, NativeHas
<1>11. CASE NativeRemove \/ NativeFree \/ WebRemove
  BY <1>0, <1>1, <1>11, HostStates DEF NativeRemove, NativeFree, WebRemove
<1>12. CASE WebOutbound \/ MobileOutbound
  BY <1>0, <1>1, <1>4, <1>12 DEF WebOutbound, MobileOutbound
<1>13. ASSUME NEW h \in Handshake, WebInbound(h) \/ MobileInbound(h) PROVE HostsTyped'
  BY <1>0, <1>1, <1>13, HostStates DEF WebInbound, MobileInbound
<1>14. ASSUME NEW s \in exported, WebRestore(s) \/ MobileRestore(s) PROVE HostsTyped'
  BY <1>0, <1>1, <1>14 DEF WebRestore, MobileRestore
<1>15. ASSUME NEW t \in Thread, NEW action \in {"encrypt", "decrypt"}, MobileCall(t, action)
       PROVE  HostsTyped'
  BY <1>0, <1>1, <1>2, <1>15 DEF MobileCall
<1>16. ASSUME NEW t \in Thread, MobileEncrypt(t) \/ MobileDecrypt(t) PROVE HostsTyped'
  <2>1. held' \in HostState
    BY <1>0, <1>16, HostStates DEF MobileEncrypt, MobileDecrypt, UseToEncrypt, UseToDecrypt
  <2>2. QED
    BY <1>0, <1>1, <1>3, <1>16, <2>1 DEF MobileEncrypt, MobileDecrypt
<1>17. CASE UNCHANGED hostVars
  BY <1>0, <1>1, <1>17 DEF hostVars
<1>18. QED
  BY <1>5, <1>6, <1>7, <1>8, <1>9, <1>10, <1>11, <1>12, <1>13, <1>14, <1>15, <1>16, <1>17
  DEF HostsNext

LEMMA SessionsTyped == HostsSpec => []HostsTypeOK
<1>1. HostsTyped => HostsTypeOK
  BY DEF HostsTyped
<1>2. QED
  BY HostsInvInit, HostsInvStep, HostsTypedInit, HostsTypedStep, <1>1, PTL DEF HostsSpec

\* Side by side, each part still follows its own specification.
LEMMA PartsFollow ==
    Spec => KeysSpec /\ BackupSpec /\ NegoSpec /\ GroupKeysSpec /\ RatchetSpec /\ HostsSpec
<1>1. Init => KeysInit /\ BackupInit /\ NegoInit /\ GroupKeysInit /\ RatchetInit /\ HostsInit
  BY DEF Init
<1>2. [Next]_vars => /\ [KeysNext]_keysVars /\ [BackupNext]_backupVars
                     /\ [NegoNext]_negoVars /\ [GroupKeysNext]_senderVars
                     /\ [RatchetNext]_ratchetVars /\ [HostsNext]_hostVars
  BY DEF Next, vars
<1>3. QED
  BY <1>1, <1>2, PTL DEF Spec, KeysSpec, BackupSpec, NegoSpec, GroupKeysSpec, RatchetSpec,
                         HostsSpec

\* All parts of end-to-end encryption keep their types, whichever of them moves.
THEOREM TypeCorrect == Spec => []TypeOK
BY PartsFollow, KeysTyped, BackupsTyped, NegotiationsTyped, SenderKeysTyped, RatchetTyped,
   SessionsTyped, PTL DEF TypeOK

\* What the parts promise, they promise side by side: the answers of the key server,
\* the backups, the negotiation, the sender keys, the ratchet and the session hosts.
THEOREM EncryptionCorrect ==
    Spec => /\ [](OtkHandedOnce /\ AnswerIsCoherent /\ BackupOpens)
            /\ [](AnsweredOnce /\ NewestVersionIsTold /\ PlaintextWasAllowed)
            /\ [](MembershipSettles /\ EveryMessageReadable /\ MessageKeyUsedOnce)
            /\ []KeyReuseNeedsLoss /\ VersionNamesState /\ SessionStays
<1>1. KeysSpec => [](OtkHandedOnce /\ AnswerIsCoherent)
  BY KeysHandedOnce, AnswersCohere, PTL
<1>2. NegoSpec => [](AnsweredOnce /\ NewestVersionIsTold /\ PlaintextWasAllowed)
  BY RequestsAnsweredOnce, NewestVersionsTold, PlaintextsWereAllowed, PTL
<1>3. RatchetSpec => [](EveryMessageReadable /\ MessageKeyUsedOnce)
  BY MessagesReadable, KeysUsedOnce, PTL
<1>4. QED
  BY <1>1, <1>2, <1>3, PartsFollow, BackupsOpen, VersionsNameStates, MembershipCorrect,
     KeyReuseExplained, SessionsStay, PTL
=============================================================================
