---------------------------- MODULE ServiceProofs ----------------------------
(***************************************************************************)
(* Proofs about the services around the messages: push devices, tokens and *)
(* tickets, automatic replies, the caches of the permission checks, the    *)
(* push dispatcher, and the two sides of a private conversation.  Each     *)
(* part has its own inductive invariant, and at the end they are put side  *)
(* by side.                                                                *)
(***************************************************************************)
EXTENDS MCServices, FiniteSetTheorems, SequenceTheorems, WellFoundedInduction,
        NaturalsInduction, TLAPS
-----------------------------------------------------------------------------
(* Push devices.                                                           *)

DeviceTypes ==
    /\ DOMAIN device = {"version", "token", "disabled"}
    /\ device.version \in Nat
    /\ device.version = 0 => device.token = None /\ told = {}
    /\ \A p \in told : p[1] \in Nat

\* The transactions of registrations carry the version that is due for their token;
\* once there is a row they come one at a time.  Where a step goes on with the
\* record of its request, the record is what the first step made.
DeviceInv ==
    /\ DeviceTypes
    /\ \A r \in Request :
          /\ Doing(r, "device") => /\ work[r].word \in Word
                                   /\ work[r].version = NextTokenVersion(work[r].word)
          /\ Doing(r, "consume") => work[r] = [pc |-> "consume", word |-> work[r].word]
          /\ Doing(r, "save") => work[r] = [pc |-> "save", document |-> work[r].document]
    /\ device.version > 0 => \A q, r \in InDevice : q = r
    /\ work = [r \in Request |-> work[r]]
    /\ TokenVersionNamesToken

LEMMA DeviceInvInit == AccountsInit => DeviceInv
  BY DEF AccountsInit, DeviceInv, DeviceTypes, Doing, Idle, InDevice, TokenVersionNamesToken

\* A request that takes another step than into or out of the device transaction.
LEMMA OtherStep ==
    ASSUME DeviceInv, NEW r \in Request, NEW step, UNCHANGED deviceVars,
           work' = [work EXCEPT ![r] = step],
           step.pc # "device",
           step.pc = "consume" => step = [pc |-> "consume", word |-> step.word],
           step.pc = "save" => step = [pc |-> "save", document |-> step.document]
    PROVE  DeviceInv'
<1>1. /\ work' = [q \in Request |-> work'[q]]
      /\ work'[r] = step
      /\ \A q \in Request \ {r} : work'[q] = work[q]
  BY DEF DeviceInv
<1>2. UNCHANGED <<device, told>>
  BY DEF deviceVars
<1>3. QED
  BY <1>1, <1>2
  DEF DeviceInv, DeviceTypes, Doing, InDevice, NextTokenVersion, TokenVersionNamesToken

\* A step that is none of a request, and none on the device.
LEMMA NoStep ==
    ASSUME DeviceInv, UNCHANGED <<deviceVars, work>>
    PROVE  DeviceInv'
  BY DEF DeviceInv, DeviceTypes, Doing, InDevice, NextTokenVersion, TokenVersionNamesToken,
         deviceVars

LEMMA DeviceInvStep == DeviceInv /\ [AccountsNext]_accountVars => DeviceInv'
<1> SUFFICES ASSUME DeviceInv, [AccountsNext]_accountVars PROVE DeviceInv'
  OBVIOUS
<1>1. ASSUME NEW r \in Request,
             \/ Fails(r) \/ InsertUser(r) \/ StampLogin(r) \/ ForgetSettings(r) \/ Bind(r)
             \/ PointAtAvatar(r) \/ WriteDefaults(r) \/ ShowSettings(r)
             \/ \E w \in Word : WritePassword(r, w)
      PROVE  DeviceInv'
  <2>1. UNCHANGED deviceVars /\ work' = [work EXCEPT ![r] = Idle]
    <3>1. CASE InsertUser(r)
      BY <3>1, Zenon DEF InsertUser, Finish, Continue
    <3>2. CASE ~InsertUser(r)
      BY <1>1, <3>2 DEF Fails, StampLogin, ForgetSettings, Bind, PointAtAvatar,
         WriteDefaults, ShowSettings, WritePassword, Finish, Continue
    <3>3. QED
      BY <3>1, <3>2
  <2>2. Idle.pc = "idle"
    BY DEF Idle
  <2>3. QED
    BY <2>1, <2>2, OtherStep
<1>2. ASSUME NEW r \in Request, NEW step, Begin(r, step), UNCHANGED deviceVars,
             step.pc \notin {"device", "consume"},
             step.pc = "save" => step = [pc |-> "save", document |-> step.document]
      PROVE  DeviceInv'
  BY <1>2, OtherStep DEF Begin
<1>3. ASSUME NEW r \in Request,
             \/ ReadNoSettings(r)
             \/ \E w \in Word : \/ \E pc \in {"login", "password", "delete"} : Verified(r, w, pc)
                                \/ Register(r, w) \/ WriteAvatar(r, w)
      PROVE  DeviceInv'
  <2>1. CASE ReadNoSettings(r)
    BY <2>1, <1>2 DEF ReadNoSettings
  <2>2. CASE \E w \in Word, pc \in {"login", "password", "delete"} : Verified(r, w, pc)
    BY <2>2, <1>2 DEF Verified
  <2>3. CASE \E w \in Word : Register(r, w)
    BY <2>3, <1>2 DEF Register
  <2>4. CASE \E w \in Word : WriteAvatar(r, w)
    BY <2>4, <1>2 DEF WriteAvatar
  <2>5. QED
    BY <1>3, <2>1, <2>2, <2>3, <2>4
<1>4. ASSUME NEW r \in Request, NEW k, MergeSettings(r, k) PROVE DeviceInv'
  BY <1>4, <1>2 DEF MergeSettings
<1>5. ASSUME NEW r \in Request, NEW w, ReadCode(r, w) PROVE DeviceInv'
  <2> DEFINE step == [pc |-> "consume", word |-> w]
  <2>1. UNCHANGED deviceVars /\ work' = [work EXCEPT ![r] = step]
    BY <1>5 DEF ReadCode, Begin
  <2>2. step.pc = "consume" /\ step = [pc |-> "consume", word |-> step.word]
    OBVIOUS
  <2> HIDE DEF step
  <2>3. QED
    BY <2>1, <2>2, OtherStep
<1>6. ASSUME NEW r \in Request, DeleteUser(r) PROVE DeviceInv'
  <2> DEFINE step == [pc |-> "forget settings"]
  <2>1. UNCHANGED deviceVars /\ work' = [work EXCEPT ![r] = step]
    BY <1>6, Zenon DEF DeleteUser, Continue
  <2>2. step.pc = "forget settings"
    OBVIOUS
  <2> HIDE DEF step
  <2>3. QED
    BY <2>1, <2>2, OtherStep
<1>7. ASSUME NEW r \in Request, ConsumeCode(r) PROVE DeviceInv'
  <2>1. work[r] = [pc |-> "consume", word |-> work[r].word]
    BY <1>7 DEF ConsumeCode, DeviceInv
  <2>2. [work[r] EXCEPT !.pc = "bind"] = [pc |-> "bind", word |-> work[r].word]
    BY <2>1
  <2>3. QED
    BY <1>7, <2>2, OtherStep DEF ConsumeCode, Continue
<1>8. ASSUME NEW r \in Request, SaveSettings(r) PROVE DeviceInv'
  <2>1. work[r] = [pc |-> "save", document |-> work[r].document]
    BY <1>8 DEF SaveSettings, DeviceInv
  <2>2. [work[r] EXCEPT !.pc = "show"] = [pc |-> "show", document |-> work[r].document]
    BY <2>1
  <2>3. QED
    BY <1>8, <2>2, OtherStep DEF SaveSettings, Continue
<1>9. ASSUME NEW r \in Request, NEW w \in Word, LockDevice(r, w) PROVE DeviceInv'
  <2> DEFINE step == [pc |-> "device", word |-> w, version |-> NextTokenVersion(w)]
  <2>1. /\ UNCHANGED <<device, told>>
        /\ work' = [work EXCEPT ![r] = step]
        /\ device.version > 0 => InDevice = {}
    BY <1>9 DEF LockDevice, Begin, deviceVars
  <2>2. /\ work' = [q \in Request |-> work'[q]]
        /\ work'[r] = step
        /\ \A q \in Request \ {r} : work'[q] = work[q]
    BY <2>1 DEF DeviceInv
  <2>3. step.pc = "device" /\ step.word = w /\ step.version = NextTokenVersion(w)
    OBVIOUS
  <2>4. NextTokenVersion(w)' = NextTokenVersion(w)
    BY <2>1 DEF NextTokenVersion
  <2>5. InDevice' \subseteq InDevice \cup {r}
    BY <2>2 DEF InDevice, Doing
  <2>6. DeviceTypes' /\ TokenVersionNamesToken'
    BY <2>1 DEF DeviceInv, DeviceTypes, TokenVersionNamesToken
  <2>7. (device.version > 0 => \A q, z \in InDevice : q = z)'
    BY <2>1, <2>5
  <2> HIDE DEF step
  <2>8. QED
    BY <2>1, <2>2, <2>3, <2>4, <2>6, <2>7 DEF DeviceInv, Doing, NextTokenVersion
<1>10. ASSUME NEW r \in Request, WriteDevice(r) PROVE DeviceInv'
  <2> DEFINE v == work[r].version
             w == work[r].word
  <2>1. /\ device' = [version |-> v, token |-> w, disabled |-> FALSE]
        /\ told' = told \cup {<<v, w>>}
        /\ work' = [work EXCEPT ![r] = Idle]
        /\ w \in Word /\ v = NextTokenVersion(w)
        /\ InDevice \subseteq {r}
    <3>1. r \in InDevice
      BY <1>10 DEF WriteDevice, InDevice
    <3>2. InDevice \subseteq {r}
      BY <1>10, <3>1 DEF WriteDevice, DeviceInv, DeviceTypes
    <3>3. w \in Word /\ v = NextTokenVersion(w)
      BY <1>10 DEF WriteDevice, DeviceInv
    <3>4. QED
      BY <1>10, <3>2, <3>3 DEF WriteDevice, Finish, Continue
  <2>2. /\ work' = [q \in Request |-> work'[q]]
        /\ work'[r] = Idle
        /\ \A q \in Request \ {r} : work'[q] = work[q]
    BY <2>1 DEF DeviceInv
  <2>3. InDevice' = {}
    BY <2>1, <2>2 DEF InDevice, Doing, Idle
  <2>4. v = IF device.token = w THEN device.version ELSE device.version + 1
    BY <2>1 DEF NextTokenVersion
  <2>5. device'.version = v /\ device'.token = w /\ v \in Nat /\ v > 0 /\ device.version =< v
    BY <2>1, <2>4, AccountsAssumption DEF DeviceInv, DeviceTypes, None
  <2> HIDE DEF v, w
  <2>6. TokenVersionNamesToken'
    <3>1. \A p \in told : p[1] \in Nat /\ p[1] =< device.version
      BY DEF DeviceInv, DeviceTypes, TokenVersionNamesToken
    <3>2. \A p \in told : p[1] = v => p[2] = w
      BY <2>4, <2>5, <3>1 DEF DeviceInv, DeviceTypes, TokenVersionNamesToken
    <3>3. QED
      BY <2>1, <2>5, <3>1, <3>2 DEF DeviceInv, DeviceTypes, TokenVersionNamesToken
  <2>7. DeviceTypes'
    BY <2>1, <2>5 DEF DeviceInv, DeviceTypes
  <2>8. QED
    BY <2>2, <2>3, <2>6, <2>7 DEF DeviceInv, Doing, Idle, InDevice
<1>11. ASSUME NEW w, Unregister(w) PROVE DeviceInv'
  <2>1. device'.version = device.version /\ device'.token = device.token
        /\ DOMAIN device' = DOMAIN device /\ UNCHANGED <<told, work>>
    BY <1>11 DEF Unregister, DeviceInv, DeviceTypes
  <2>2. QED
    BY <2>1
    DEF DeviceInv, DeviceTypes, Doing, InDevice, NextTokenVersion, TokenVersionNamesToken
<1>12. CASE SavePushSettings \/ \E w \in Word : UpdateProfile(w) \/ SendCode(w) \/ CodeExpires(w)
  BY <1>12, NoStep DEF SavePushSettings, UpdateProfile, SendCode, CodeExpires
<1>13. CASE UNCHANGED accountVars
  BY <1>13, NoStep DEF accountVars
<1>14. QED
  BY <1>1, <1>3, <1>4, <1>5, <1>6, <1>7, <1>8, <1>9, <1>10, <1>11, <1>12, <1>13
  DEF AccountsNext

\* A version that a registration has answered stands for one push token, and the
\* greatest one is that of the row: upsert_device and update_device_token lock the
\* row, or find none and are then alone in writing it.
THEOREM VersionsNameTokens == AccountsSpec => []TokenVersionNamesToken
<1>1. DeviceInv => TokenVersionNamesToken
  BY DEF DeviceInv
<1>2. QED
  BY <1>1, DeviceInvInit, DeviceInvStep, PTL DEF AccountsSpec
-----------------------------------------------------------------------------
(* Tokens and tickets.                                                     *)

CallType ==
    [pc : {"idle", "swap", "upsert", "store", "forget", "drop"}, by : {"login", "refresh"},
     pair : Nat, before : SUBSET Nat]

TokenTypes ==
    /\ clock \in Nat /\ revokeAfter \in Int /\ revokeAfter =< clock
    /\ issued \in Seq(Nat) /\ Len(issued) =< MaxPairs
    /\ \A n \in Pair : 2 * issued[n] =< clock
    /\ returned \subseteq Pair /\ ended \subseteq returned
    /\ exchanged \in [1..MaxPairs -> Nat]
    /\ call \in [Client -> CallType]

\* What is remembered has been returned; a pair on its way to be stored has not, and
\* is nobody else's; a revocation on its way has already moved the time past all
\* pairs it is to end.
CallsHold ==
    \A c \in Client :
       /\ At(c, "swap") => call[c].pair \in returned
       /\ At(c, "store") => /\ call[c].pair \in Pair \ returned
                            /\ \A d \in Client : At(d, "store") /\ call[d].pair = call[c].pair
                                                 => d = c
       /\ At(c, "forget") => /\ call[c].before \subseteq returned
                             /\ \A n \in call[c].before : 2 * issued[n] =< revokeAfter

TokensInv ==
    /\ TokenTypes
    /\ remembered \in returned \cup {Forgotten, Reserved}
    /\ \A n \in 1..MaxPairs : /\ exchanged[n] =< 1
                              /\ exchanged[n] > 0 => n \in returned /\ remembered # n
    /\ \A n \in ended : 2 * issued[n] =< revokeAfter /\ remembered # n
    /\ CallsHold

\* A ticket that is not gone has opened nothing.
TicketsInv ==
    /\ tickets \in [Ticket -> {"unused", "stored", "gone"}]
    /\ socket \in [Ticket -> [opened : 0..1, invalid : Nat]]
    /\ \A t \in Ticket : tickets[t] # "gone" => socket[t].opened = 0

LEMMA TokensInvInit == AuthInit => TokensInv /\ TicketsInv
<1> SUFFICES ASSUME AuthInit PROVE TokensInv /\ TicketsInv
  OBVIOUS
<1>1. NoCall \in CallType /\ NoCall.pc = "idle"
  BY DEF NoCall, CallAt, CallType
<1>2. call \in [Client -> CallType] /\ \A c \in Client : call[c].pc = "idle"
  BY <1>1 DEF AuthInit
<1>3. TokenTypes
  BY <1>2, TokensAssumption DEF AuthInit, TokenTypes, Pair
<1>4. TicketsInv
  BY TokensAssumption DEF AuthInit, TicketsInv
<1>5. QED
  BY <1>2, <1>3, <1>4 DEF AuthInit, TokensInv, CallsHold, At

LEMMA CallBecomes ==
    ASSUME TokensInv, NEW c \in Client, NEW x \in CallType, call' = [call EXCEPT ![c] = x]
    PROVE  /\ call' \in [Client -> CallType]
           /\ call'[c] = x
           /\ \A d \in Client \ {c} : call'[d] = call[d]
  BY DEF TokensInv, TokenTypes

\* A step of the call alone, to where nothing is required of it.
LEMMA CallOnly ==
    ASSUME TokensInv, NEW c \in Client, NEW x \in CallType, call' = [call EXCEPT ![c] = x],
           UNCHANGED tokenVars,
           x.pc \notin {"store", "forget"},
           x.pc = "swap" => x.pair \in returned
    PROVE  TokensInv'
<1>1. UNCHANGED <<clock, issued, returned, remembered, revokeAfter, exchanged, ended>>
  BY DEF tokenVars
<1>2. CallsHold'
  BY <1>1, CallBecomes DEF TokensInv, CallsHold, At, Pair
<1>3. QED
  BY <1>1, <1>2, CallBecomes DEF TokensInv, TokenTypes, Pair

\* Going on with the record of a call keeps its other fields.
LEMMA GoesOn ==
    ASSUME TokensInv, NEW c \in Client,
           NEW pc \in {"idle", "swap", "upsert", "store", "forget", "drop"}, Go(c, pc)
    PROVE  \E x \in CallType : /\ call' = [call EXCEPT ![c] = x]
                               /\ x.pc = pc /\ x.pair = call[c].pair
<1> DEFINE x == [pc |-> pc, by |-> call[c].by, pair |-> call[c].pair,
                 before |-> call[c].before]
<1>1. call[c] \in CallType
  BY DEF TokensInv, TokenTypes
<1>2. x \in CallType /\ x.pc = pc /\ x.pair = call[c].pair
  BY <1>1 DEF CallType
<1>3. [call[c] EXCEPT !.pc = pc] = x
  BY <1>1 DEF CallType
<1>4. call' = [call EXCEPT ![c] = x]
  BY <1>3 DEF Go
<1> HIDE DEF x
<1>5. QED
  BY <1>2, <1>4

LEMMA NoCallType == NoCall \in CallType /\ NoCall.pc = "idle"
  BY DEF NoCall, CallAt, CallType

LEMMA RefreshSteps ==
    ASSUME TokensInv, NEW c \in Client, SwapIdentifier(c) \/ BuildPair(c) \/ StorePair(c)
    PROVE  TokensInv'
<1> DEFINE n == call[c].pair
<1>0. /\ Reserved = 0 /\ Forgotten = -1 /\ returned \subseteq Nat \ {0}
      /\ returned \subseteq 1..MaxPairs /\ call[c] \in CallType /\ MaxPairs \in Nat
      /\ Len(issued) \in Nat
  BY TokensAssumption DEF TokensInv, TokenTypes, Pair, Reserved, Forgotten
<1>1. CASE SwapIdentifier(c) /\ remembered = n
  <2>1. /\ n \in returned /\ exchanged[n] = 0
        /\ remembered' = 0 /\ exchanged' = [exchanged EXCEPT ![n] = exchanged[n] + 1]
        /\ Go(c, "upsert")
        /\ UNCHANGED <<clock, issued, returned, revokeAfter, ended>>
    <3>1. /\ At(c, "swap") /\ remembered' = Reserved
          /\ exchanged' = [exchanged EXCEPT ![n] = exchanged[n] + 1]
          /\ Go(c, "upsert")
          /\ UNCHANGED <<clock, issued, returned, revokeAfter, ended>>
      BY <1>1 DEF SwapIdentifier
    <3>2. n \in returned
      BY <3>1 DEF TokensInv, CallsHold
    <3> HIDE DEF n
    <3>3. n \in 1..MaxPairs /\ exchanged \in [1..MaxPairs -> Nat]
      BY <1>0, <3>2 DEF TokensInv, TokenTypes
    <3>4. exchanged[n] = 0
      BY <1>1, <3>3 DEF TokensInv
    <3>5. QED
      BY <1>0, <3>1, <3>2, <3>4
  <2>2. PICK x \in CallType : call' = [call EXCEPT ![c] = x] /\ x.pc = "upsert"
    BY <2>1, GoesOn
  <2>3. CallsHold'
    BY <2>1, <2>2, CallBecomes DEF TokensInv, CallsHold, At, Pair
  <2>4. exchanged' \in [1..MaxPairs -> Nat] /\ exchanged'[n] = 1
        /\ \A m \in (1..MaxPairs) \ {n} : exchanged'[m] = exchanged[m]
    <3> HIDE DEF n
    <3>1. n \in 1..MaxPairs /\ exchanged \in [1..MaxPairs -> Nat]
      BY <1>0, <2>1 DEF TokensInv, TokenTypes
    <3>2. QED
      BY <2>1, <3>1
  <2>5. TokenTypes'
    BY <2>1, <2>2, <2>4, CallBecomes DEF TokensInv, TokenTypes, Pair
  <2> HIDE DEF n
  <2>6. \A m \in 1..MaxPairs : /\ exchanged'[m] =< 1
                               /\ exchanged'[m] > 0 => m \in returned /\ remembered' # m
    BY <1>0, <2>1, <2>4 DEF TokensInv
  <2>7. \A m \in ended : 2 * issued[m] =< revokeAfter /\ remembered' # m
    BY <1>0, <2>1 DEF TokensInv, TokenTypes
  <2>8. QED
    BY <1>0, <2>1, <2>3, <2>5, <2>6, <2>7 DEF TokensInv
<1>2. CASE SwapIdentifier(c) /\ remembered # n
  <2>1. call' = [call EXCEPT ![c] = NoCall] /\ UNCHANGED tokenVars
    BY <1>2 DEF SwapIdentifier, Return, tokenVars
  <2>2. QED
    BY <2>1, NoCallType, CallOnly
<1>3. CASE BuildPair(c)
  <2> DEFINE second == clock \div 2
             x == [pc |-> "store", by |-> call[c].by, pair |-> Len(issued) + 1,
                   before |-> {}]
  <2>1. /\ Len(issued) < MaxPairs
        /\ issued' = Append(issued, second)
        /\ second \in Nat /\ 2 * second =< clock
        /\ UNCHANGED <<clock, returned, remembered, revokeAfter, exchanged, ended>>
    BY <1>3 DEF BuildPair, TokensInv, TokenTypes
  <2> HIDE DEF second
  <2>2. /\ issued' \in Seq(Nat) /\ Len(issued') = Len(issued) + 1
        /\ issued'[Len(issued) + 1] = second
        /\ \A m \in Pair : issued'[m] = issued[m]
    BY <1>0, <2>1 DEF TokensInv, TokenTypes, Pair
  <2>3. x \in CallType /\ x.pc = "store" /\ x.pair = Len(issued) + 1
    BY <1>0 DEF CallType
  <2>4. call' = [call EXCEPT ![c] = x]
    BY <1>0, <1>3, <2>2 DEF BuildPair, CallAt, CallType
  <2> HIDE DEF x
  <2>5. /\ call' \in [Client -> CallType] /\ call'[c] = x
        /\ \A d \in Client \ {c} : call'[d] = call[d]
    BY <2>3, <2>4, CallBecomes
  <2>6. Pair' = Pair \cup {Len(issued) + 1} /\ Len(issued) + 1 \notin Pair
    BY <1>0, <2>2 DEF Pair
  <2>7. TokenTypes'
    <3>1. \A m \in Pair' : 2 * issued'[m] =< clock
      BY <2>1, <2>2, <2>6 DEF TokensInv, TokenTypes
    <3>2. QED
      <4>1. Len(issued') =< MaxPairs
        BY <1>0, <2>1, <2>2
      <4>2. returned \subseteq Pair'
        BY <2>6 DEF TokensInv, TokenTypes
      <4>3. QED
        BY <2>1, <2>2, <2>5, <3>1, <4>1, <4>2 DEF TokensInv, TokenTypes
  <2>8. CallsHold'
    <3>1. \A d \in Client \ {c} : At(d, "store") => call[d].pair # x.pair
      BY <2>3, <2>6 DEF TokensInv, CallsHold
    <3>2. \A m \in returned : issued'[m] = issued[m]
      BY <2>2 DEF TokensInv, TokenTypes
    <3>3. ASSUME NEW d \in Client PROVE
          /\ At(d, "swap")' => call'[d].pair \in returned'
          /\ At(d, "store")' => /\ call'[d].pair \in Pair' \ returned'
                                /\ \A e \in Client :
                                      At(e, "store")' /\ call'[e].pair = call'[d].pair
                                      => e = d
          /\ At(d, "forget")' => /\ call'[d].before \subseteq returned'
                                 /\ \A m \in call'[d].before : 2 * issued'[m] =< revokeAfter'
      <4>1. CASE d = c
        BY <2>1, <2>3, <2>5, <2>6, <3>1, <4>1 DEF TokensInv, TokenTypes, CallsHold, At
      <4>2. CASE d # c
        <5>1. call'[d] = call[d]
          BY <2>5, <4>2
        <5>2. At(d, "store") => \A e \in Client : At(e, "store")' /\ call'[e].pair = call[d].pair
                                                 => e = d
          BY <2>3, <2>5, <3>1, <4>2 DEF TokensInv, CallsHold, At
        <5>3. QED
          BY <2>1, <2>6, <3>2, <5>1, <5>2 DEF TokensInv, CallsHold, At
      <4>3. QED
        BY <4>1, <4>2
    <3>4. QED
      BY <3>3 DEF CallsHold
  <2>9. \A m \in ended : 2 * issued'[m] =< revokeAfter
    BY <2>2 DEF TokensInv, TokenTypes
  <2>10. QED
    BY <2>1, <2>7, <2>8, <2>9 DEF TokensInv
<1>4. CASE StorePair(c)
  <2>1. /\ n \in Pair \ returned
        /\ \A d \in Client : At(d, "store") /\ call[d].pair = n => d = c
        /\ remembered' = n /\ returned' = returned \cup {n}
        /\ call' = [call EXCEPT ![c] = NoCall]
        /\ UNCHANGED <<clock, issued, revokeAfter, exchanged, ended>>
    BY <1>4 DEF StorePair, Return, TokensInv, CallsHold
  <2>2. /\ call' \in [Client -> CallType] /\ call'[c] = NoCall
        /\ \A d \in Client \ {c} : call'[d] = call[d]
    BY <2>1, NoCallType, CallBecomes
  <2> HIDE DEF n
  <2>3. CallsHold'
    BY <2>1, <2>2, NoCallType DEF TokensInv, CallsHold, At, Pair
  <2>4. TokenTypes'
    BY <2>1, <2>2 DEF TokensInv, TokenTypes, Pair
  <2>5. QED
    BY <1>0, <2>1, <2>3, <2>4 DEF TokensInv, TokenTypes
<1>5. QED
  BY <1>1, <1>2, <1>3, <1>4

LEMMA RevocationSteps ==
    ASSUME TokensInv, NEW c \in Client,
           RevokeUser(c) \/ ForgetIdentifier(c) \/ DropResource(c)
    PROVE  TokensInv'
<1>1. CASE RevokeUser(c)
  <2> DEFINE x == CallAt("forget", "login", 0, returned)
  <2>1. call' = [call EXCEPT ![c] = x] /\ revokeAfter' = clock
        /\ UNCHANGED <<clock, issued, returned, remembered, exchanged, ended>>
    BY <1>1 DEF RevokeUser, Start
  <2>2. returned \subseteq Nat /\ returned \subseteq Pair
    BY DEF TokensInv, TokenTypes, Pair
  <2>3. x \in CallType /\ x.pc = "forget" /\ x.before = returned
    BY <2>2 DEF CallAt, CallType
  <2> HIDE DEF x
  <2>4. /\ call' \in [Client -> CallType] /\ call'[c] = x
        /\ \A d \in Client \ {c} : call'[d] = call[d]
    BY <2>1, <2>3, CallBecomes
  <2>5. /\ clock \in Nat /\ revokeAfter \in Int /\ revokeAfter =< clock
        /\ \A m \in Pair : issued[m] \in Nat /\ 2 * issued[m] =< clock
    BY DEF TokensInv, TokenTypes, Pair
  <2>6. CallsHold'
    BY <2>1, <2>2, <2>3, <2>4, <2>5 DEF TokensInv, CallsHold, At, Pair
  <2>7. TokenTypes'
    BY <2>1, <2>4, <2>5 DEF TokensInv, TokenTypes, Pair
  <2>8. \A m \in ended : 2 * issued[m] =< clock /\ remembered # m
    BY <2>5 DEF TokensInv, TokenTypes
  <2>9. QED
    BY <2>1, <2>6, <2>7, <2>8 DEF TokensInv
<1>2. CASE ForgetIdentifier(c)
  <2>1. /\ At(c, "forget") /\ Go(c, "drop")
        /\ remembered' = -1 /\ ended' = ended \cup call[c].before
        /\ UNCHANGED <<clock, issued, returned, revokeAfter, exchanged>>
    BY <1>2 DEF ForgetIdentifier, Forgotten
  <2>2. PICK x \in CallType : call' = [call EXCEPT ![c] = x] /\ x.pc = "drop"
    BY <2>1, GoesOn
  <2>3. CallsHold'
    BY <2>1, <2>2, CallBecomes DEF TokensInv, CallsHold, At, Pair
  <2>4. /\ ended' \subseteq returned
        /\ \A m \in ended' : 2 * issued[m] =< revokeAfter
    BY <2>1 DEF TokensInv, TokenTypes, CallsHold
  <2>5. TokenTypes'
    BY <2>1, <2>2, <2>4, CallBecomes DEF TokensInv, TokenTypes, Pair
  <2>6. returned \subseteq Nat
    BY DEF TokensInv, TokenTypes, Pair
  <2>7. QED
    BY <2>1, <2>3, <2>4, <2>5, <2>6 DEF TokensInv, Forgotten
<1>3. CASE DropResource(c)
  <2>1. call' = [call EXCEPT ![c] = NoCall]
        /\ UNCHANGED <<clock, issued, returned, remembered, revokeAfter, exchanged, ended>>
    BY <1>3 DEF DropResource, Return
  <2>2. CallsHold'
    BY <2>1, NoCallType, CallBecomes DEF TokensInv, CallsHold, At, Pair
  <2>3. QED
    BY <2>1, <2>2, NoCallType, CallBecomes DEF TokensInv, TokenTypes, Pair
<1>4. QED
  BY <1>1, <1>2, <1>3

\* A step of no call that issues, stores and ends nothing.
LEMMA NoCallStep ==
    ASSUME TokensInv, clock' \in Nat, clock =< clock', remembered' \in {remembered, Forgotten},
           UNCHANGED <<issued, returned, revokeAfter, exchanged, ended, call>>
    PROVE  TokensInv'
<1>1. returned \subseteq Nat \ {0} /\ returned \subseteq 1..MaxPairs
  BY TokensAssumption DEF TokensInv, TokenTypes, Pair
<1>2. CallsHold'
  BY DEF TokensInv, CallsHold, At, Pair
<1>3. TokenTypes'
  <2>1. \A m \in Pair : issued[m] \in Nat /\ 2 * issued[m] =< clock
    BY DEF TokensInv, TokenTypes, Pair
  <2>2. clock \in Nat
    BY DEF TokensInv, TokenTypes
  <2>3. QED
    BY <2>1, <2>2 DEF TokensInv, TokenTypes, Pair
<1>4. QED
  BY <1>1, <1>2, <1>3 DEF TokensInv, TokenTypes, Forgotten

LEMMA TicketSteps ==
    ASSUME TicketsInv, NEW t \in Ticket,
           \/ \E own \in BOOLEAN : ConsumeTicket(t, own)
           \/ IssueTicket(t) \/ TicketExpires(t) \/ ConsumeUnanswered(t)
           \/ Heartbeat(t) \/ InvalidPayload(t)
    PROVE  TicketsInv'
<1>1. socket[t] \in [opened : 0..1, invalid : Nat]
  BY DEF TicketsInv
<1>2. CASE IssueTicket(t) \/ TicketExpires(t) \/ ConsumeUnanswered(t)
  BY <1>2 DEF IssueTicket, TicketExpires, ConsumeUnanswered, TicketsInv
<1>3. ASSUME NEW own \in BOOLEAN, ConsumeTicket(t, own) PROVE TicketsInv'
  <2>1. tickets' = [tickets EXCEPT ![t] = "gone"] /\ socket[t].opened = 0
    BY <1>3 DEF ConsumeTicket, TicketsInv
  <2>2. socket' \in {socket, Opened(t)}
    BY <1>3 DEF ConsumeTicket
  <2>3. [opened |-> 0 + 1, invalid |-> 0] \in [opened : 0..1, invalid : Nat]
    OBVIOUS
  <2>4. Opened(t) = [socket EXCEPT ![t] = [opened |-> 0 + 1, invalid |-> 0]]
    BY <2>1 DEF Opened
  <2>5. /\ socket' \in [Ticket -> [opened : 0..1, invalid : Nat]]
        /\ \A u \in Ticket \ {t} : socket'[u] = socket[u]
    BY <2>2, <2>3, <2>4 DEF TicketsInv
  <2>6. QED
    BY <2>1, <2>5 DEF TicketsInv
<1>4. CASE Heartbeat(t) \/ InvalidPayload(t)
  <2>1. PICK k \in Nat : socket' = [socket EXCEPT ![t].invalid = k] /\ UNCHANGED tickets
    BY <1>1, <1>4 DEF Heartbeat, InvalidPayload
  <2>2. socket'[t] = [opened |-> socket[t].opened, invalid |-> k]
    BY <1>1, <2>1 DEF TicketsInv
  <2>3. socket'[t] \in [opened : 0..1, invalid : Nat] /\ socket'[t].opened = socket[t].opened
    BY <1>1, <2>2
  <2>4. \A u \in Ticket \ {t} : socket'[u] = socket[u]
    BY <2>1 DEF TicketsInv
  <2>5. socket' \in [Ticket -> [opened : 0..1, invalid : Nat]]
    BY <2>1, <2>3, <2>4 DEF TicketsInv
  <2>6. QED
    BY <2>1, <2>3, <2>4, <2>5 DEF TicketsInv
<1>5. QED
  BY <1>2, <1>3, <1>4

LEMMA TokensInvStep ==
    TokensInv /\ TicketsInv /\ [AuthNext]_authVars => TokensInv' /\ TicketsInv'
<1> SUFFICES ASSUME TokensInv, TicketsInv, [AuthNext]_authVars PROVE TokensInv' /\ TicketsInv'
  OBVIOUS
<1>1. UNCHANGED ticketVars => TicketsInv'
  BY DEF ticketVars, TicketsInv
<1>2. UNCHANGED <<tokenVars, call>> => TokensInv'
  <2>1. clock \in Nat
    BY DEF TokensInv, TokenTypes
  <2>2. QED
    BY <2>1, NoCallStep DEF tokenVars
<1>3. ASSUME NEW c \in Client, SwapIdentifier(c) \/ BuildPair(c) \/ StorePair(c)
      PROVE  TokensInv' /\ TicketsInv'
  BY <1>1, <1>3, RefreshSteps DEF SwapIdentifier, BuildPair, StorePair
<1>4. ASSUME NEW c \in Client, RevokeUser(c) \/ ForgetIdentifier(c) \/ DropResource(c)
      PROVE  TokensInv' /\ TicketsInv'
  BY <1>1, <1>4, RevocationSteps DEF RevokeUser, ForgetIdentifier, DropResource
<1>5. ASSUME NEW c \in Client, Login(c) PROVE TokensInv' /\ TicketsInv'
  <2> DEFINE x == CallAt("upsert", "login", 0, {})
  <2>1. x \in CallType /\ x.pc = "upsert"
    BY DEF CallAt, CallType
  <2>2. call' = [call EXCEPT ![c] = x] /\ UNCHANGED tokenVars /\ UNCHANGED ticketVars
    BY <1>5 DEF Login, Start
  <2> HIDE DEF x
  <2>3. QED
    BY <1>1, <2>1, <2>2, CallOnly
<1>6. ASSUME NEW c \in Client, NEW n \in returned, Refresh(c, n) PROVE TokensInv' /\ TicketsInv'
  <2> DEFINE x == CallAt("swap", "refresh", n, {})
  <2>1. n \in Nat
    BY DEF TokensInv, TokenTypes, Pair
  <2>2. x \in CallType /\ x.pc = "swap" /\ x.pair = n
    BY <2>1 DEF CallAt, CallType
  <2>3. call' = [call EXCEPT ![c] = x] /\ UNCHANGED tokenVars /\ UNCHANGED ticketVars
    BY <1>6 DEF Refresh, Start
  <2> HIDE DEF x
  <2>4. QED
    BY <1>1, <2>2, <2>3, CallOnly
<1>7. ASSUME NEW c \in Client, CallFails(c) PROVE TokensInv' /\ TicketsInv'
  BY <1>1, <1>7, NoCallType, CallOnly DEF CallFails, Return
<1>8. CASE \/ TimePasses \/ IdentifierExpires \/ ResourceExpires
           \/ \E n \in returned : RevokeToken(n)
  <2>1. clock \in Nat
    BY DEF TokensInv, TokenTypes
  <2>2. UNCHANGED ticketVars
    BY <1>8 DEF TimePasses, IdentifierExpires, ResourceExpires, RevokeToken
  <2>3. /\ clock' \in Nat /\ clock =< clock' /\ remembered' \in {remembered, Forgotten}
        /\ UNCHANGED <<issued, returned, revokeAfter, exchanged, ended, call>>
    BY <1>8, <2>1 DEF TimePasses, IdentifierExpires, ResourceExpires, RevokeToken
  <2>4. QED
    BY <1>1, <2>2, <2>3, NoCallStep
<1>9. ASSUME NEW t \in Ticket,
             \/ \E own \in BOOLEAN : ConsumeTicket(t, own)
             \/ IssueTicket(t) \/ TicketExpires(t) \/ ConsumeUnanswered(t)
             \/ Heartbeat(t) \/ InvalidPayload(t)
      PROVE  TokensInv' /\ TicketsInv'
  <2>1. UNCHANGED <<tokenVars, call>>
    BY <1>9 DEF ConsumeTicket, IssueTicket, TicketExpires, ConsumeUnanswered, Heartbeat,
       InvalidPayload
  <2>2. QED
    BY <1>2, <1>9, <2>1, TicketSteps
<1>10. CASE UNCHANGED authVars
  BY <1>1, <1>2, <1>10 DEF authVars
<1>11. QED
  BY <1>3, <1>4, <1>5, <1>6, <1>7, <1>8, <1>9, <1>10 DEF AuthNext

\* A refresh token is exchanged once, a ticket opens one connection, and what was
\* returned before a revocation of all tokens is refused after it, for any number of
\* logins, refreshes and revocations that overlap and fail between their commands.
THEOREM TokensUsedOnce == AuthSpec => []TokensStayUsed
<1>1. TokensInv /\ TicketsInv => TokensStayUsed
  <2> SUFFICES ASSUME TokensInv, TicketsInv PROVE TokensStayUsed
    OBVIOUS
  <2>1. \A n \in Pair : n \in 1..MaxPairs
    BY TokensAssumption DEF TokensInv, TokenTypes, Pair
  <2>2. \A n \in ended : ~Accepted(n) /\ remembered # n
    BY DEF TokensInv, Accepted, AccessRevoked
  <2>3. \A t \in Ticket : socket[t].opened =< 1
    BY DEF TicketsInv
  <2>4. QED
    BY <2>1, <2>2, <2>3 DEF TokensInv, TokensStayUsed
<1>2. QED
  BY <1>1, TokensInvInit, TokensInvStep, PTL DEF AuthSpec
-----------------------------------------------------------------------------
(* Automatic replies.                                                      *)

JobType ==
    [pc : {"idle", "copy", "row", "refresh", "lock", "rounds", "pause", "queue", "count"},
     user : Persona \cup {"nobody"}, on : BOOLEAN, old : BOOLEAN]

\* A job that is about to write that replies are on, and a request that is, are late
\* or right.
JobsFresh ==
    /\ job \in [Job -> JobType]
    /\ \A t \in Job, u \in Persona :
          job[t].pc = "refresh" /\ job[t].user = u => enabled[u] \/ job[t].old

RequestsFresh ==
    /\ switching \in [Switching -> JobType]
    /\ \A s \in Switching :
          /\ switching[s].pc = "row" => ~switching[s].on
          /\ \A u \in Persona : switching[s].pc = "copy" /\ switching[s].user = u
                                   /\ switching[s].on
                                => enabled[u] \/ switching[s].old

SwitchInv ==
    /\ enabled \in [Persona -> BOOLEAN]
    /\ copied \in [Persona -> {"none", "fading", "lasting"}]
    /\ JobsFresh
    /\ RequestsFresh
    /\ OffMeansOff

LEMMA PeerType == ASSUME NEW u \in Persona PROVE Peer(u) \in Persona
<1>1. \E v \in Persona : v # u
  <2>1. Cardinality({u}) = 1
    BY FS_Singleton
  <2>2. Persona # {u}
    <3> SUFFICES ASSUME Persona = {u} PROVE FALSE
      OBVIOUS
    <3>1. Cardinality(Persona) = 1
      BY <2>1, Zenon
    <3>2. QED
      BY <3>1, ReplyAssumption
  <2>3. QED
    BY <2>2
<1>2. QED
  BY <1>1 DEF Peer

LEMMA SwitchInvInit == ReplyInit => SwitchInv
<1> SUFFICES ASSUME ReplyInit PROVE SwitchInv
  OBVIOUS
<1>1. NoJob \in JobType /\ NoJob.pc = "idle"
  BY DEF NoJob, JobFor, JobType
<1>2. JobsFresh /\ RequestsFresh
  <2>1. job \in [Job -> JobType] /\ \A t \in Job : job[t].pc = "idle"
    BY <1>1 DEF ReplyInit
  <2>2. switching \in [Switching -> JobType] /\ \A s \in Switching : switching[s].pc = "idle"
    BY <1>1 DEF ReplyInit
  <2>3. QED
    BY <2>1, <2>2 DEF JobsFresh, RequestsFresh
<1>3. OffMeansOff
  BY DEF ReplyInit, OffMeansOff
<1>4. QED
  BY <1>2, <1>3 DEF ReplyInit, SwitchInv

\* A job takes another step than to write the copy.
LEMMA JobMoves ==
    ASSUME JobsFresh, NEW t \in Job, NEW x \in JobType, job' = [job EXCEPT ![t] = x],
           UNCHANGED enabled,
           x.pc = "refresh" => x.user \notin Persona \/ enabled[x.user]
    PROVE  JobsFresh'
<1>1. /\ job' \in [Job -> JobType] /\ job'[t] = x
      /\ \A q \in Job \ {t} : job'[q] = job[q]
  BY DEF JobsFresh
<1>2. QED
  BY <1>1 DEF JobsFresh

LEMMA JobGoesType ==
    ASSUME JobsFresh, NEW t \in Job,
           NEW pc \in {"idle", "copy", "row", "refresh", "lock", "rounds", "pause", "queue",
                       "count"}, JobGoes(t, pc)
    PROVE  \E x \in JobType : /\ job' = [job EXCEPT ![t] = x]
                              /\ x.pc = pc /\ x.user = job[t].user
<1> DEFINE x == [pc |-> pc, user |-> job[t].user, on |-> job[t].on, old |-> job[t].old]
<1>1. job[t] \in JobType
  BY DEF JobsFresh
<1>2. x \in JobType /\ x.pc = pc /\ x.user = job[t].user
  BY <1>1 DEF JobType
<1>3. [job[t] EXCEPT !.pc = pc] = x
  BY <1>1 DEF JobType
<1>4. job' = [job EXCEPT ![t] = x]
  BY <1>3 DEF JobGoes
<1> HIDE DEF x
<1>5. QED
  BY <1>2, <1>4

LEMMA NoJobType == NoJob \in JobType /\ NoJob.pc = "idle" /\ NoJob.on = FALSE
  BY DEF NoJob, JobFor, JobType

\* A request takes a step that leaves no writer of the copy behind, or on its way.
LEMMA RequestMoves ==
    ASSUME RequestsFresh, NEW s \in Switching, NEW x \in JobType,
           switching' = [switching EXCEPT ![s] = x], UNCHANGED enabled, x.on = FALSE
    PROVE  RequestsFresh'
<1>1. /\ switching' \in [Switching -> JobType] /\ switching'[s] = x
      /\ \A q \in Switching \ {s} : switching'[q] = switching[q]
  BY DEF RequestsFresh
<1>2. QED
  BY <1>1 DEF RequestsFresh

\* Starting and ending jobs, and their steps up to the copy and behind it.
LEMMA JobSteps ==
    ASSUME SwitchInv, UNCHANGED enabled,
           NEW t \in Job,
           \/ \E u \in Persona : job' = [job EXCEPT ![t] = JobFor("copy", u)]
           \/ Proceed(t) \/ JobEnds(t)
           \/ \E pc \in {"row", "lock", "rounds", "pause", "queue", "count"} : JobGoes(t, pc)
           \/ JobGoes(t, "refresh") /\ enabled[job[t].user]
    PROVE  JobsFresh'
<1>0. JobsFresh /\ job[t].user \in Persona \cup {"nobody"}
  BY DEF SwitchInv, JobsFresh, JobType
<1>1. ASSUME NEW u \in Persona, job' = [job EXCEPT ![t] = JobFor("copy", u)] PROVE JobsFresh'
  <2>1. JobFor("copy", u) \in JobType /\ JobFor("copy", u).pc = "copy"
    BY DEF JobFor, JobType
  <2>2. QED
    BY <1>0, <1>1, <2>1, JobMoves
<1>2. CASE JobEnds(t)
  BY <1>0, <1>2, NoJobType, JobMoves DEF JobEnds
<1>3. CASE Proceed(t)
  <2> DEFINE x == JobFor("lock", job[t].user)
  <2>1. x \in JobType /\ x.pc = "lock"
    BY <1>0 DEF JobFor, JobType
  <2>2. JobEnds(t) \/ job' = [job EXCEPT ![t] = x]
    BY <1>3 DEF Proceed
  <2> HIDE DEF x
  <2>3. QED
    BY <1>0, <1>2, <2>1, <2>2, JobMoves
<1>4. ASSUME NEW pc \in {"row", "lock", "rounds", "pause", "queue", "count"}, JobGoes(t, pc)
      PROVE  JobsFresh'
  <2>1. PICK x \in JobType : job' = [job EXCEPT ![t] = x] /\ x.pc = pc
    BY <1>0, <1>4, JobGoesType
  <2>2. QED
    BY <1>0, <1>4, <2>1, JobMoves
<1>5. CASE JobGoes(t, "refresh") /\ enabled[job[t].user]
  <2>1. PICK x \in JobType : /\ job' = [job EXCEPT ![t] = x]
                             /\ x.pc = "refresh" /\ x.user = job[t].user
    BY <1>0, <1>5, JobGoesType
  <2>2. QED
    BY <1>0, <1>5, <2>1, JobMoves
<1>6. QED
  BY <1>1, <1>2, <1>3, <1>4, <1>5

\* The row is written: who is on the way to the copy is right from now on, or late.
LEMMA RowTurns ==
    ASSUME SwitchInv, NEW s \in Switching, NEW u \in Persona \cup {"nobody"},
           NEW on \in BOOLEAN, TurnRow(s, u, on),
           switching[s].pc # "copy", UNCHANGED <<copied, revived>>
    PROVE  SwitchInv'
<1> DEFINE new == [pc |-> "copy", user |-> u, on |-> on, old |-> FALSE]
<1>1. ASSUME NEW r \in JobType
      PROVE  /\ Outdated(r, u, on) \in JobType
             /\ Outdated(r, u, on).pc = r.pc /\ Outdated(r, u, on).user = r.user
             /\ Outdated(r, u, on).on = r.on
             /\ r.old => Outdated(r, u, on).old
             /\ r.user = u /\ ~on /\ (r.pc = "refresh" \/ r.on) => Outdated(r, u, on).old
  <2> DEFINE z == [pc |-> r.pc, user |-> r.user, on |-> r.on, old |-> TRUE]
  <2>0. r.pc \in {"idle", "copy", "row", "refresh", "lock", "rounds", "pause", "queue", "count"}
        /\ r.user \in Persona \cup {"nobody"} /\ r.on \in BOOLEAN
    BY DEF JobType
  <2>1. z \in JobType
    BY <2>0 DEF JobType
  <2>2. Outdated(r, u, on) = IF r.user = u /\ ~on /\ (r.pc = "refresh" \/ r.on) THEN z ELSE r
    BY DEF Outdated
  <2>3. z.pc = r.pc /\ z.user = r.user /\ z.on = r.on /\ z.old = TRUE
    OBVIOUS
  <2> HIDE DEF z
  <2>4. QED
    BY <2>1, <2>2, <2>3
<1>2. new \in JobType /\ new.pc = "copy" /\ new.user = u /\ new.on = on /\ new.old = FALSE
  BY DEF JobType
<1>3. /\ enabled' = [enabled EXCEPT ![u] = on]
      /\ \A r \in Switching : switching'[r] = IF r = s THEN new ELSE Outdated(switching[r], u, on)
      /\ switching' = [r \in Switching |-> switching'[r]]
      /\ job' = [t \in Job |-> Outdated(job[t], u, on)]
  BY DEF TurnRow
<1>4. /\ job \in [Job -> JobType] /\ switching \in [Switching -> JobType]
      /\ enabled \in [Persona -> BOOLEAN]
  BY DEF SwitchInv, JobsFresh, RequestsFresh
<1> HIDE DEF new
<1>5. /\ enabled' \in [Persona -> BOOLEAN]
      /\ \A v \in Persona : enabled'[v] = IF v = u THEN on ELSE enabled[v]
  BY <1>3, <1>4
<1>6. JobsFresh'
  <2>1. \A t \in Job : job'[t] = Outdated(job[t], u, on)
    BY <1>3
  <2>2. job' \in [Job -> JobType]
    BY <1>1, <1>3, <1>4
  <2>3. ASSUME NEW t \in Job, NEW v \in Persona, job'[t].pc = "refresh", job'[t].user = v
        PROVE  enabled'[v] \/ job'[t].old
    <3>1. job[t] \in JobType /\ job[t].pc = "refresh" /\ job[t].user = v
      BY <1>1, <1>4, <2>1, <2>3
    <3>2. enabled[v] \/ job[t].old
      BY <3>1 DEF SwitchInv, JobsFresh
    <3>3. job[t].old => job'[t].old
      BY <1>1, <2>1, <3>1
    <3>4. v = u /\ ~on => job'[t].old
      BY <1>1, <2>1, <3>1
    <3>5. QED
      BY <1>5, <3>2, <3>3, <3>4
  <2>4. QED
    BY <2>2, <2>3 DEF JobsFresh
<1>7. RequestsFresh'
  <2>1. switching' \in [Switching -> JobType]
    BY <1>1, <1>2, <1>3, <1>4
  <2>2. ASSUME NEW r \in Switching
        PROVE  /\ switching'[r].pc = "row" => ~switching'[r].on
               /\ \A v \in Persona : switching'[r].pc = "copy" /\ switching'[r].user = v
                                        /\ switching'[r].on
                                     => enabled'[v] \/ switching'[r].old
    <3>1. CASE r = s
      BY <1>2, <1>3, <1>5, <3>1
    <3>2. CASE r # s
      <4>1. switching'[r] = Outdated(switching[r], u, on) /\ switching[r] \in JobType
        BY <1>3, <1>4, <3>2
      <4>2. switching[r].pc = "row" => ~switching[r].on
        BY DEF SwitchInv, RequestsFresh
      <4>3. switching'[r].pc = "row" => ~switching'[r].on
        BY <1>1, <4>1, <4>2
      <4>4. ASSUME NEW v \in Persona, switching'[r].pc = "copy", switching'[r].user = v,
                   switching'[r].on
            PROVE  enabled'[v] \/ switching'[r].old
        <5>1. switching[r].pc = "copy" /\ switching[r].user = v /\ switching[r].on
          BY <1>1, <4>1, <4>4
        <5>2. enabled[v] \/ switching[r].old
          BY <5>1 DEF SwitchInv, RequestsFresh
        <5>3. switching[r].old => switching'[r].old
          BY <1>1, <4>1
        <5>4. v = u /\ ~on => switching'[r].old
          BY <1>1, <4>1, <5>1
        <5>5. QED
          BY <1>5, <5>2, <5>3, <5>4
      <4>5. QED
        BY <4>3, <4>4
    <3>3. QED
      BY <3>1, <3>2
  <2>3. QED
    BY <2>1, <2>2 DEF RequestsFresh
<1>8. OffMeansOff'
  <2> SUFFICES ASSUME NEW v \in Persona, copied[v] # "none", ~enabled'[v], v \notin revived
               PROVE  \E r \in Switching : /\ switching'[r].pc = "copy"
                                           /\ switching'[r].user = v /\ ~switching'[r].on
    BY DEF OffMeansOff
  <2>1. CASE v = u
    BY <1>2, <1>3, <1>5, <2>1
  <2>2. CASE v # u
    <3>1. ~enabled[v]
      BY <1>5, <2>2
    <3>2. PICK r \in Switching : switching[r].pc = "copy" /\ switching[r].user = v
                                 /\ ~switching[r].on
      BY <3>1 DEF SwitchInv, OffMeansOff
    <3>3. r # s /\ switching[r] \in JobType
      BY <1>4, <3>2
    <3>4. QED
      BY <1>1, <1>3, <3>2, <3>3
  <2>3. QED
    BY <2>1, <2>2
<1>9. QED
  BY <1>5, <1>6, <1>7, <1>8 DEF SwitchInv

\* Steps of jobs and of nobody, which may write that replies are on.
LEMMA JobWrites ==
    ASSUME SwitchInv, NEW t \in Job, RefreshCopy(t)
    PROVE  SwitchInv'
<1> DEFINE u == job[t].user
<1>1. UNCHANGED <<enabled, switching>> /\ Proceed(t) /\ job[t].pc = "refresh"
  BY DEF RefreshCopy, JobAt
<1>2. JobsFresh' /\ RequestsFresh'
  BY <1>1, JobSteps DEF SwitchInv, RequestsFresh
<1>3. u \in Persona => enabled[u] \/ job[t].old
  BY <1>1 DEF SwitchInv, JobsFresh
<1>4. \/ /\ \A v \in Persona \ {u} : copied'[v] = copied[v]
         /\ revived' = IF job[t].old THEN revived \cup {u} ELSE revived
      \/ /\ \A v \in Persona : copied'[v] # "none" => copied[v] # "none"
         /\ UNCHANGED revived
  BY DEF RefreshCopy, SwitchInv
<1>5. copied' \in [Persona -> {"none", "fading", "lasting"}]
  BY DEF RefreshCopy, SwitchInv, Set
<1>6. OffMeansOff'
  <2> HIDE DEF u
  <2> SUFFICES ASSUME NEW v \in Persona, copied'[v] # "none", ~enabled[v], v \notin revived'
               PROVE  \E s \in Switching : /\ switching[s].pc = "copy" /\ switching[s].user = v
                                           /\ ~switching[s].on
    BY <1>1 DEF OffMeansOff
  <2>1. v \notin revived /\ copied[v] # "none"
    BY <1>3, <1>4
  <2>2. QED
    BY <2>1 DEF SwitchInv, OffMeansOff
<1>7. QED
  BY <1>1, <1>2, <1>5, <1>6 DEF SwitchInv

LEMMA RequestWrites ==
    ASSUME SwitchInv, NEW s \in Switching, WriteCopy(s) \/ SwitchFails(s)
    PROVE  SwitchInv'
<1> DEFINE u == switching[s].user
<1>1. /\ UNCHANGED <<enabled, job>>
      /\ switching' = [switching EXCEPT ![s] = NoJob]
  BY DEF WriteCopy, SwitchFails
<1>2. JobsFresh' /\ RequestsFresh'
  BY <1>1, NoJobType, RequestMoves DEF SwitchInv, JobsFresh
<1>3. /\ switching \in [Switching -> JobType]
      /\ \A r \in Switching \ {s} : switching'[r] = switching[r]
  BY <1>1 DEF SwitchInv, RequestsFresh
<1>4. switching[s].on \in BOOLEAN
  BY <1>3 DEF JobType
<1>5. copied' \in [Persona -> {"none", "fading", "lasting"}]
  BY DEF WriteCopy, SwitchFails, SwitchInv, Set
<1>6. \A v \in Persona \ {u} : copied'[v] = copied[v] /\ (v \in revived' <=> v \in revived)
  BY DEF WriteCopy, SwitchFails, SwitchInv
<1>7. CASE switching[s].pc = "copy" /\ ~switching[s].on
  <2>1. u \in Persona => copied'[u] = "none" \/ u \in revived'
    BY <1>7 DEF WriteCopy, SwitchFails, SwitchInv
  <2> HIDE DEF u
  <2>2. OffMeansOff'
    <3> SUFFICES ASSUME NEW v \in Persona, copied'[v] # "none", ~enabled[v], v \notin revived'
                 PROVE  \E r \in Switching : /\ switching'[r].pc = "copy"
                                             /\ switching'[r].user = v /\ ~switching'[r].on
      BY <1>1 DEF OffMeansOff
    <3>1. v # u /\ copied[v] # "none" /\ v \notin revived
      BY <1>6, <2>1
    <3>2. PICK r \in Switching : switching[r].pc = "copy" /\ switching[r].user = v
                                 /\ ~switching[r].on
      BY <3>1 DEF SwitchInv, OffMeansOff
    <3>3. r # s
      BY <3>1, <3>2 DEF u
    <3>4. QED
      BY <1>3, <3>2, <3>3
  <2>3. QED
    BY <1>1, <1>2, <1>5, <2>2 DEF SwitchInv
<1>8. CASE ~(switching[s].pc = "copy" /\ ~switching[s].on)
  <2>1. u \in Persona /\ switching[s].pc = "copy" => enabled[u] \/ switching[s].old
    BY <1>4, <1>8 DEF SwitchInv, RequestsFresh
  <2>2. \/ UNCHANGED <<copied, revived>>
        \/ /\ switching[s].pc = "copy"
           /\ revived' = IF switching[s].old THEN revived \cup {u} ELSE revived
    BY <1>8 DEF WriteCopy, SwitchFails
  <2>3. OffMeansOff'
    <3> HIDE DEF u
    <3> SUFFICES ASSUME NEW v \in Persona, copied'[v] # "none", ~enabled[v], v \notin revived'
                 PROVE  \E r \in Switching : /\ switching'[r].pc = "copy"
                                             /\ switching'[r].user = v /\ ~switching'[r].on
      BY <1>1 DEF OffMeansOff
    <3>1. copied[v] # "none" /\ v \notin revived
      BY <1>6, <2>1, <2>2
    <3>2. PICK r \in Switching : switching[r].pc = "copy" /\ switching[r].user = v
                                 /\ ~switching[r].on
      BY <3>1 DEF SwitchInv, OffMeansOff
    <3>3. QED
      BY <1>3, <1>8, <3>2
  <2>4. QED
    BY <1>1, <1>2, <1>5, <2>3 DEF SwitchInv
<1>9. QED
  BY <1>7, <1>8

LEMMA RequestSteps ==
    ASSUME SwitchInv, NEW s \in Switching,
           \/ TurnOwnOff(s)
           \/ \E u \in Persona, on \in BOOLEAN : UpdateSwitch(s, u, on)
    PROVE  SwitchInv'
<1>1. ASSUME NEW u \in Persona, NEW on \in BOOLEAN, UpdateSwitch(s, u, on) PROVE SwitchInv'
  BY <1>1, RowTurns DEF UpdateSwitch
<1>2. CASE TurnOwnOff(s)
  <2> DEFINE x == [pc |-> "copy", user |-> switching[s].user, on |-> FALSE,
                   old |-> switching[s].old]
  <2>1. /\ switching[s].pc = "row" /\ ~switching[s].on /\ switching[s] \in JobType
        /\ switching[s].user \in Persona \cup {"nobody"}
        /\ UNCHANGED <<copied, revived>>
    BY <1>2 DEF TurnOwnOff, SwitchInv, RequestsFresh, JobType
  <2>2. CASE TurnRow(s, switching[s].user, FALSE)
    BY <2>1, <2>2, RowTurns
  <2>3. CASE /\ switching' = [switching EXCEPT ![s].pc = "copy"]
             /\ UNCHANGED <<matter, enabled, job>>
    <3>1. /\ switching' \in [Switching -> JobType]
          /\ switching'[s].pc = "copy" /\ switching'[s].on = switching[s].on
          /\ switching'[s].user = switching[s].user /\ switching'[s].old = switching[s].old
          /\ \A r \in Switching \ {s} : switching'[r] = switching[r]
      BY <2>1, <2>3 DEF SwitchInv, RequestsFresh, JobType
    <3>2. RequestsFresh'
      BY <2>1, <2>3, <3>1 DEF SwitchInv, RequestsFresh
    <3>3. OffMeansOff'
      BY <2>1, <2>3, <3>1 DEF SwitchInv, OffMeansOff
    <3>4. QED
      BY <2>1, <2>3, <3>2, <3>3 DEF SwitchInv, JobsFresh
  <2>4. QED
    BY <1>2, <2>2, <2>3 DEF TurnOwnOff
<1>3. QED
  BY <1>1, <1>2

LEMMA SwitchInvStep == SwitchInv /\ [ReplyNext]_replyVars => SwitchInv'
<1> SUFFICES ASSUME SwitchInv, [ReplyNext]_replyVars PROVE SwitchInv'
  OBVIOUS
<1>1. ASSUME UNCHANGED <<enabled, copied, revived, switching>>, JobsFresh' PROVE SwitchInv'
  BY <1>1 DEF SwitchInv, RequestsFresh, OffMeansOff
<1>2. ASSUME NEW t \in Job,
             \/ ReadCopy(t) \/ ReadSwitch(t) \/ LockReentry(t) \/ ReadRounds(t)
             \/ RestartRounds(t) \/ QueueTask(t) \/ CountRound(t) \/ JobFails(t)
      PROVE  SwitchInv'
  <2>1. UNCHANGED <<enabled, copied, revived, switching>>
    BY <1>2 DEF ReadCopy, ReadSwitch, LockReentry, ReadRounds, RestartRounds, QueueTask,
       CountRound, JobFails, switchVars
  <2>2. \/ Proceed(t) \/ JobEnds(t)
        \/ \E pc \in {"row", "lock", "rounds", "pause", "queue", "count"} : JobGoes(t, pc)
        \/ JobGoes(t, "refresh") /\ enabled[job[t].user]
    BY <1>2 DEF ReadCopy, ReadSwitch, LockReentry, ReadRounds, RestartRounds, QueueTask,
       CountRound, JobFails
  <2>3. QED
    BY <1>1, <2>1, <2>2, JobSteps
<1>3. ASSUME NEW u \in Persona, WriteOneself(u) PROVE SwitchInv'
  <2>1. UNCHANGED <<enabled, copied, revived>> /\ Trigger(Peer(u))
    BY <1>3 DEF WriteOneself
  <2>2. JobsFresh'
    BY <2>1, PeerType, JobSteps DEF Trigger
  <2>3. CASE UNCHANGED switching
    BY <1>1, <2>1, <2>2, <2>3
  <2>4. ASSUME NEW s \in Switching, switching[s].pc = "idle",
               switching' = [switching EXCEPT ![s] = JobFor("row", u)]
        PROVE  SwitchInv'
    <3>1. JobFor("row", u) \in JobType /\ JobFor("row", u).on = FALSE
      BY DEF JobFor, JobType
    <3>2. RequestsFresh'
      BY <2>1, <2>4, <3>1, RequestMoves DEF SwitchInv
    <3>3. \A r \in Switching : switching[r].pc = "copy" => switching'[r] = switching[r]
      BY <2>4 DEF SwitchInv, RequestsFresh
    <3>4. OffMeansOff'
      BY <2>1, <3>3 DEF SwitchInv, OffMeansOff
    <3>5. QED
      BY <2>1, <2>2, <3>2, <3>4 DEF SwitchInv
  <2>5. QED
    BY <1>3, <2>3, <2>4 DEF WriteOneself
<1>4. ASSUME NEW u \in Persona, ReplyArrives(u) PROVE SwitchInv'
  BY <1>1, <1>4, PeerType, JobSteps DEF ReplyArrives, Trigger, switchVars
<1>5. ASSUME NEW u \in Persona, CopyExpires(u) PROVE SwitchInv'
  BY <1>5 DEF CopyExpires, SwitchInv, JobsFresh, RequestsFresh, OffMeansOff
<1>6. CASE UNCHANGED <<switchVars, job>>
  BY <1>6 DEF switchVars, SwitchInv, JobsFresh, RequestsFresh, OffMeansOff
<1>7. CASE RoundsExpire \/ \E u \in Persona : ReentryExpires(u)
  BY <1>6, <1>7 DEF RoundsExpire, ReentryExpires
<1>8. CASE UNCHANGED replyVars
  BY <1>6, <1>8 DEF replyVars
<1>9. QED
  BY <1>2, <1>3, <1>4, <1>5, <1>7, <1>8, RequestSteps, RequestWrites, JobWrites DEF ReplyNext

\* The copy of the switch says that replies are on only if the row does, or for a
\* reason that is named, whatever number of jobs and requests overlap.
THEOREM SwitchedOffStaysOff == ReplySpec => []OffMeansOff
<1>1. SwitchInv => OffMeansOff
  BY DEF SwitchInv
<1>2. QED
  BY <1>1, SwitchInvInit, SwitchInvStep, PTL DEF ReplySpec
-----------------------------------------------------------------------------
(* Rounds.                                                                 *)

Queueing == {t \in Job : JobAt(t, "queue")}
Counting == {t \in Job : JobAt(t, "count")}

\* What has been queued is counted, is about to be, or was missed; and who is about
\* to queue has its place among the jobs.
RoundsInv ==
    /\ {rounds, streak, missed} \subseteq Nat
    /\ streak =< rounds + Cardinality(Counting) + missed
    /\ streak + Cardinality(Queueing) =< RoundLimit - 1 + Cardinality(Job) + missed

LEMMA JobNumbers ==
    /\ IsFiniteSet(Queueing) /\ IsFiniteSet(Counting)
    /\ Cardinality(Queueing) \in Nat /\ Cardinality(Counting) \in Nat
    /\ Cardinality(Job) \in Nat /\ Cardinality(Queueing) =< Cardinality(Job)
    /\ \A t \in Job : ~JobAt(t, "queue") /\ ~JobAt(t, "count")
                      => Cardinality(Queueing) + Cardinality(Counting) < Cardinality(Job)
<1>1. IsFiniteSet(Job) /\ Queueing \subseteq Job /\ Counting \subseteq Job
  BY ReplyAssumption DEF Queueing, Counting
<1>2. /\ IsFiniteSet(Queueing) /\ IsFiniteSet(Counting)
      /\ Cardinality(Queueing) =< Cardinality(Job)
  BY <1>1, FS_Subset
<1>3. /\ Cardinality(Queueing) \in Nat /\ Cardinality(Counting) \in Nat
      /\ Cardinality(Job) \in Nat
  BY <1>1, <1>2, FS_CardinalityType
<1>4. ASSUME NEW t \in Job, ~JobAt(t, "queue"), ~JobAt(t, "count")
      PROVE  Cardinality(Queueing) + Cardinality(Counting) < Cardinality(Job)
  <2> DEFINE busy == Queueing \cup Counting
  <2>1. Queueing \cap Counting = {}
    BY DEF Queueing, Counting, JobAt
  <2>2. IsFiniteSet(busy)
    BY <1>2, FS_Union
  <2>3. Cardinality(busy) = Cardinality(Queueing) + Cardinality(Counting)
    <3>1. Cardinality(busy) = Cardinality(Queueing) + Cardinality(Counting)
                              - Cardinality(Queueing \cap Counting)
      BY <1>2, FS_Union
    <3>2. Cardinality(Queueing \cap Counting) = 0
      <4>1. Cardinality({}) = 0
        BY FS_EmptySet
      <4>2. QED
        BY <2>1, <4>1, Zenon
    <3> HIDE DEF busy
    <3>3. QED
      BY <1>3, <3>1, <3>2
  <2>4. busy \subseteq Job \ {t}
    BY <1>4 DEF Queueing, Counting
  <2>5. IsFiniteSet(Job \ {t}) /\ Cardinality(Job \ {t}) = Cardinality(Job) - 1
    BY <1>1, FS_RemoveElement
  <2>6. Cardinality(busy) =< Cardinality(Job \ {t})
    BY <2>4, <2>5, FS_Subset
  <2> HIDE DEF busy
  <2>7. QED
    BY <1>3, <2>3, <2>5, <2>6
<1>5. QED
  BY <1>2, <1>3, <1>4

\* What the step of one job does to the two numbers.
LEMMA NumbersMove ==
    ASSUME NEW t \in Job, \A u \in Job \ {t} : job'[u] = job[u]
    PROVE  /\ Cardinality(Queueing)' = CASE JobAt(t, "queue")' /\ ~JobAt(t, "queue")
                                            -> Cardinality(Queueing) + 1
                                         [] ~JobAt(t, "queue")' /\ JobAt(t, "queue")
                                            -> Cardinality(Queueing) - 1
                                         [] OTHER -> Cardinality(Queueing)
           /\ Cardinality(Counting)' = CASE JobAt(t, "count")' /\ ~JobAt(t, "count")
                                            -> Cardinality(Counting) + 1
                                         [] ~JobAt(t, "count")' /\ JobAt(t, "count")
                                            -> Cardinality(Counting) - 1
                                         [] OTHER -> Cardinality(Counting)
<1>1. /\ Queueing' = IF JobAt(t, "queue")' THEN Queueing \cup {t} ELSE Queueing \ {t}
      /\ Counting' = IF JobAt(t, "count")' THEN Counting \cup {t} ELSE Counting \ {t}
  BY DEF Queueing, Counting, JobAt
<1>2. \A S : IsFiniteSet(S) =>
         /\ Cardinality(S \cup {t}) = IF t \in S THEN Cardinality(S) ELSE Cardinality(S) + 1
         /\ Cardinality(S \ {t}) = IF t \in S THEN Cardinality(S) - 1 ELSE Cardinality(S)
  BY FS_AddElement, FS_RemoveElement
<1>3. /\ t \in Queueing <=> JobAt(t, "queue")
      /\ t \in Counting <=> JobAt(t, "count")
  BY DEF Queueing, Counting
<1>4. Cardinality(Queueing)' = IF JobAt(t, "queue")'
                               THEN IF JobAt(t, "queue") THEN Cardinality(Queueing)
                                                         ELSE Cardinality(Queueing) + 1
                               ELSE IF JobAt(t, "queue") THEN Cardinality(Queueing) - 1
                                                         ELSE Cardinality(Queueing)
  BY <1>1, <1>2, <1>3, JobNumbers
<1>5. Cardinality(Counting)' = IF JobAt(t, "count")'
                               THEN IF JobAt(t, "count") THEN Cardinality(Counting)
                                                         ELSE Cardinality(Counting) + 1
                               ELSE IF JobAt(t, "count") THEN Cardinality(Counting) - 1
                                                         ELSE Cardinality(Counting)
  BY <1>1, <1>2, <1>3, JobNumbers
<1>6. QED
  BY <1>4, <1>5

LEMMA JobChanges ==
    ASSUME JobsFresh, NEW t \in Job, NEW pc \in {"idle", "row", "refresh", "lock", "rounds",
                                                "pause", "queue", "count"},
           JobGoes(t, pc) \/ (JobEnds(t) /\ pc = "idle")
    PROVE  JobAt(t, pc)' /\ \A u \in Job \ {t} : job'[u] = job[u]
<1>1. \E x \in JobType : job' = [job EXCEPT ![t] = x] /\ x.pc = pc
  BY NoJobType, JobGoesType DEF JobEnds
<1>2. QED
  BY <1>1 DEF JobsFresh, JobAt

\* Steps that neither queue nor count, nor come to it.
LEMMA RoundsStay ==
    ASSUME RoundsInv, UNCHANGED roundVars,
           \/ UNCHANGED job
           \/ \E t \in Job : /\ \A u \in Job \ {t} : job'[u] = job[u]
                             /\ ~JobAt(t, "queue")' /\ ~JobAt(t, "count")'
                             /\ ~JobAt(t, "queue") /\ ~JobAt(t, "count")
    PROVE  RoundsInv'
<1>1. UNCHANGED <<rounds, streak, missed>>
  BY DEF roundVars
<1>2. CASE UNCHANGED job
  BY <1>1, <1>2 DEF RoundsInv, Queueing, Counting, JobAt
<1>3. ASSUME NEW t \in Job, \A u \in Job \ {t} : job'[u] = job[u],
             ~JobAt(t, "queue")', ~JobAt(t, "count")', ~JobAt(t, "queue"), ~JobAt(t, "count")
      PROVE  RoundsInv'
  <2>1. Cardinality(Queueing)' = Cardinality(Queueing)
        /\ Cardinality(Counting)' = Cardinality(Counting)
    BY <1>3, NumbersMove
  <2>2. QED
    BY <1>1, <2>1 DEF RoundsInv
<1>4. QED
  BY <1>2, <1>3

LEMMA RoundSteps ==
    ASSUME JobsFresh, RoundsInv, NEW t \in Job,
           \/ ReadRounds(t) \/ RestartRounds(t) \/ QueueTask(t) \/ CountRound(t) \/ JobFails(t)
    PROVE  RoundsInv'
<1> DEFINE q == Cardinality(Queueing)
           k == Cardinality(Counting)
           jobs == Cardinality(Job)
<1>0. /\ q \in Nat /\ k \in Nat /\ jobs \in Nat /\ q =< jobs
      /\ {rounds, streak, missed} \subseteq Nat /\ RoundLimit \in Nat \ {0}
      /\ streak =< rounds + k + missed
      /\ streak + q =< RoundLimit - 1 + jobs + missed
  BY JobNumbers, ReplyAssumption DEF RoundsInv
<1>1. CASE ReadRounds(t)
  <2>1. PICK pc \in {"pause", "queue"} :
             /\ JobGoes(t, pc) /\ JobAt(t, "rounds") /\ UNCHANGED <<rounds, streak>>
             /\ \/ UNCHANGED missed /\ (pc = "queue" => rounds < RoundLimit)
                \/ missed' = missed + 1
    BY <1>0, <1>1 DEF ReadRounds, AtLimit
  <2>2. JobAt(t, pc)' /\ \A u \in Job \ {t} : job'[u] = job[u]
    BY <2>1, JobChanges
  <2>3. /\ k' = k
        /\ q' = IF pc = "queue" THEN q + 1 ELSE q
    BY <2>1, <2>2, NumbersMove DEF JobAt
  <2>4. q + k < jobs
    BY <2>1, JobNumbers DEF JobAt
  <2> HIDE DEF q, k, jobs
  <2>5. /\ {rounds', streak', missed'} \subseteq Nat
        /\ streak' =< rounds' + k' + missed'
        /\ streak' + q' =< RoundLimit - 1 + jobs + missed'
    BY <1>0, <2>1, <2>3, <2>4
  <2>6. QED
    BY <2>5 DEF RoundsInv, q, k, jobs
<1>2. CASE RestartRounds(t)
  <2>1. /\ JobGoes(t, "queue") /\ JobAt(t, "pause")
        /\ rounds' = 0 /\ streak' = 0 /\ UNCHANGED missed
    BY <1>2 DEF RestartRounds
  <2>2. JobAt(t, "queue")' /\ \A u \in Job \ {t} : job'[u] = job[u]
    BY <2>1, JobChanges
  <2>3. k' = k /\ q' = q + 1
    BY <2>1, <2>2, NumbersMove DEF JobAt
  <2>4. q + k < jobs
    BY <2>1, JobNumbers DEF JobAt
  <2> HIDE DEF q, k, jobs
  <2>5. /\ {rounds', streak', missed'} \subseteq Nat
        /\ streak' =< rounds' + k' + missed'
        /\ streak' + q' =< RoundLimit - 1 + jobs + missed'
    BY <1>0, <2>1, <2>3, <2>4
  <2>6. QED
    BY <2>5 DEF RoundsInv, q, k, jobs
<1>3. CASE QueueTask(t)
  <2>1. /\ JobGoes(t, "count") /\ JobAt(t, "queue")
        /\ streak' = streak + 1 /\ UNCHANGED <<rounds, missed>>
    BY <1>3 DEF QueueTask
  <2>2. JobAt(t, "count")' /\ \A u \in Job \ {t} : job'[u] = job[u]
    BY <2>1, JobChanges
  <2>3. k' = k + 1 /\ q' = q - 1
    BY <2>1, <2>2, NumbersMove DEF JobAt
  <2> HIDE DEF q, k, jobs
  <2>4. /\ {rounds', streak', missed'} \subseteq Nat
        /\ streak' =< rounds' + k' + missed'
        /\ streak' + q' =< RoundLimit - 1 + jobs + missed'
    BY <1>0, <2>1, <2>3
  <2>5. QED
    BY <2>4 DEF RoundsInv, q, k, jobs
<1>4. CASE CountRound(t)
  <2>1. /\ JobEnds(t) /\ JobAt(t, "count")
        /\ rounds' = rounds + 1 /\ UNCHANGED <<streak, missed>>
    BY <1>4 DEF CountRound
  <2>2. JobAt(t, "idle")' /\ \A u \in Job \ {t} : job'[u] = job[u]
    BY <2>1, JobChanges
  <2>3. k' = k - 1 /\ q' = q
    BY <2>1, <2>2, NumbersMove DEF JobAt
  <2> HIDE DEF q, k, jobs
  <2>4. /\ {rounds', streak', missed'} \subseteq Nat
        /\ streak' =< rounds' + k' + missed'
        /\ streak' + q' =< RoundLimit - 1 + jobs + missed'
    BY <1>0, <2>1, <2>3
  <2>5. QED
    BY <2>4 DEF RoundsInv, q, k, jobs
<1>5. CASE JobFails(t)
  <2>1. /\ JobEnds(t) /\ UNCHANGED <<rounds, streak>>
        /\ missed' = IF JobAt(t, "count") THEN missed + 1 ELSE missed
    BY <1>5 DEF JobFails
  <2>2. JobAt(t, "idle")' /\ \A u \in Job \ {t} : job'[u] = job[u]
    BY <2>1, JobChanges
  <2>3. /\ k' = IF JobAt(t, "count") THEN k - 1 ELSE k
        /\ q' \in {q, q - 1} /\ q' \in Nat
    <3>1. ~JobAt(t, "queue")' /\ ~JobAt(t, "count")'
      BY <2>2 DEF JobAt
    <3>2. IsFiniteSet(Queueing') /\ q' \in Nat
      <4>1. IsFiniteSet(Queueing')
        BY ReplyAssumption, FS_Subset DEF Queueing
      <4>2. QED
        BY <4>1, FS_CardinalityType
    <3>3. QED
      BY <2>2, <3>1, <3>2, NumbersMove
  <2> HIDE DEF q, k, jobs
  <2>4. /\ {rounds', streak', missed'} \subseteq Nat
        /\ streak' =< rounds' + k' + missed'
        /\ streak' + q' =< RoundLimit - 1 + jobs + missed'
    BY <1>0, <2>1, <2>3
  <2>5. QED
    BY <2>4 DEF RoundsInv, q, k, jobs
<1>6. QED
  BY <1>1, <1>2, <1>3, <1>4, <1>5

LEMMA RoundsInvInit == ReplyInit => RoundsInv
<1> SUFFICES ASSUME ReplyInit PROVE RoundsInv
  OBVIOUS
<1>1. rounds \in {0, 1} /\ streak = 0 /\ missed = 0
  BY DEF ReplyInit
<1>2. QED
  BY <1>1, JobNumbers, ReplyAssumption DEF RoundsInv

LEMMA RoundsInvStep == JobsFresh /\ RoundsInv /\ [ReplyNext]_replyVars => RoundsInv'
<1> SUFFICES ASSUME JobsFresh, RoundsInv, [ReplyNext]_replyVars PROVE RoundsInv'
  OBVIOUS
<1>1. ASSUME NEW u \in Persona, Trigger(u), UNCHANGED roundVars PROVE RoundsInv'
  <2>1. PICK t \in Job : JobAt(t, "idle") /\ job' = [job EXCEPT ![t] = JobFor("copy", u)]
    BY <1>1 DEF Trigger
  <2>2. JobAt(t, "copy")' /\ \A q \in Job \ {t} : job'[q] = job[q]
    BY <2>1 DEF JobsFresh, JobAt, JobFor
  <2>3. QED
    BY <1>1, <2>1, <2>2, RoundsStay DEF JobAt
<1>2. ASSUME NEW u \in Persona,
             WriteOneself(u) \/ ReplyArrives(u) \/ CopyExpires(u) \/ ReentryExpires(u)
      PROVE  RoundsInv'
  <2>1. /\ UNCHANGED roundVars
        /\ UNCHANGED job \/ Trigger(Peer(u))
    BY <1>2 DEF WriteOneself, ReplyArrives, CopyExpires, ReentryExpires
  <2>2. QED
    BY <1>1, <2>1, PeerType, RoundsStay
<1>3. ASSUME NEW t \in Job, ReadCopy(t) \/ ReadSwitch(t) \/ RefreshCopy(t) \/ LockReentry(t)
      PROVE  RoundsInv'
  <2>1. /\ UNCHANGED roundVars
        /\ ~JobAt(t, "queue") /\ ~JobAt(t, "count")
        /\ \/ Proceed(t) \/ JobEnds(t)
           \/ \E pc \in {"row", "refresh", "rounds"} : JobGoes(t, pc)
    BY <1>3 DEF ReadCopy, ReadSwitch, RefreshCopy, LockReentry, JobAt
  <2>2. /\ \A u \in Job \ {t} : job'[u] = job[u]
        /\ ~JobAt(t, "queue")' /\ ~JobAt(t, "count")'
    <3>1. CASE JobEnds(t) \/ \E pc \in {"row", "refresh", "rounds"} : JobGoes(t, pc)
      BY <3>1, JobChanges DEF JobAt
    <3>2. CASE job' = [job EXCEPT ![t] = JobFor("lock", job[t].user)]
      BY <3>2 DEF JobsFresh, JobAt, JobFor
    <3>3. QED
      BY <2>1, <3>1, <3>2 DEF Proceed
  <2>3. QED
    BY <2>1, <2>2, RoundsStay
<1>4. ASSUME NEW s \in Switching,
             \/ TurnOwnOff(s) \/ WriteCopy(s) \/ SwitchFails(s)
             \/ \E u \in Persona, on \in BOOLEAN : UpdateSwitch(s, u, on)
      PROVE  RoundsInv'
  <2>1. UNCHANGED roundVars
    BY <1>4 DEF TurnOwnOff, WriteCopy, SwitchFails, UpdateSwitch
  <2>2. \/ UNCHANGED job
        \/ \E u \in Persona \cup {switching[s].user}, on \in BOOLEAN :
              job' = [t \in Job |-> Outdated(job[t], u, on)]
    BY <1>4 DEF TurnOwnOff, WriteCopy, SwitchFails, UpdateSwitch, TurnRow
  <2>3. \A r, u, on : Outdated(r, u, on).pc = r.pc
    BY DEF Outdated
  <2>4. \A t \in Job : job'[t].pc = job[t].pc
    BY <2>2, <2>3
  <2>5. Queueing' = Queueing /\ Counting' = Counting
    BY <2>4 DEF Queueing, Counting, JobAt
  <2>6. QED
    BY <2>1, <2>5 DEF RoundsInv, roundVars
<1>5. CASE RoundsExpire
  <2>1. UNCHANGED job /\ rounds' = 0 /\ streak' = 0 /\ UNCHANGED missed
    BY <1>5 DEF RoundsExpire
  <2>2. Queueing' = Queueing /\ Counting' = Counting
    BY <2>1 DEF Queueing, Counting, JobAt
  <2>3. QED
    BY <2>1, <2>2, JobNumbers, ReplyAssumption DEF RoundsInv
<1>6. CASE UNCHANGED replyVars
  BY <1>6, RoundsStay DEF replyVars
<1>7. QED
  BY <1>2, <1>3, <1>4, <1>5, <1>6, RoundSteps DEF ReplyNext

\* Two robots pause: between two restarts of the counter no more tasks are queued
\* than the limit, one for each job that overlaps, and one for each failure to read
\* or write the counter.
THEOREM TwoRobotsPause == ReplySpec => []RobotsPause
<1>1. SwitchInv => JobsFresh
  BY DEF SwitchInv
<1>2. RoundsInv => RobotsPause
  BY JobNumbers, ReplyAssumption DEF RoundsInv, RobotsPause
<1>3. QED
  BY <1>1, <1>2, RoundsInvInit, SwitchInvInit, SwitchInvStep, RoundsInvStep, PTL
  DEF ReplySpec
-----------------------------------------------------------------------------
(* The caches of the permission checks.                                    *)

Entries == [left : Nat, value : Truth]

CacheTypes ==
    /\ kind \in {"friend", "member", "active", "list"}
    /\ related \in Truth
    /\ since \in [Truth -> Nat]
    /\ shared \in Entries
    /\ memory \in [Api -> Entries]
    /\ marker \in [Api -> Nat]
    /\ check \in [Api -> {"none", "locked"} \cup Truth]
    /\ change \in [Api -> {"none", "mention", "add", "remove", "accept"}]
    /\ oldest \in Nat

\* What a request that changes the relation is going to write.
Writes(request) == IF request = "remove" THEN "no" ELSE "yes"

\* What a request has seen or done is true, or has been true within this tick.
RequestIsCurrent ==
    /\ since[related] = 0
    /\ \A s \in Api : /\ check[s] \in Truth => since[check[s]] = 0
                      /\ change[s] # "none" => since[Writes(change[s])] = 0

\* An entry of Redis leaves time for the copy that is made of it last, for the long
\* or the short time its value is kept in memory.
SharedIsRecent ==
    Known(shared) =>
        since[shared.value] + shared.left + LocalEntry(shared.value).left =< MaxAge

MemoryIsRecent ==
    \A s \in Api : Known(memory[s]) => since[memory[s].value] + memory[s].left =< MaxAge

\* Friends that were loaded shortly before: either the entry of that time, or one
\* written since, outlives the marker, or there was no friendship within its life.
MarkerIsRecent ==
    \A s \in Api : marker[s] > 0 =>
        marker[s] =< LocalTtl /\ (marker[s] =< shared.left \/ since["no"] + marker[s] =< LocalTtl)

CachesInv ==
    /\ CacheTypes
    /\ RequestIsCurrent /\ SharedIsRecent /\ MemoryIsRecent /\ MarkerIsRecent
    /\ AnswersAreRecent

LEMMA Lifetimes ==
    /\ LocalTtl \in Nat /\ LocalShortTtl \in Nat /\ RedisTtl \in Nat /\ RedisShortTtl \in Nat
    /\ 0 < LocalTtl /\ 0 < LocalShortTtl /\ 0 < RedisTtl /\ 0 < RedisShortTtl
    /\ LocalShortTtl =< LocalTtl /\ RedisShortTtl =< RedisTtl
    /\ LocalTtl =< RedisTtl /\ LocalShortTtl + RedisShortTtl =< RedisTtl
    /\ MaxAge = RedisTtl + LocalTtl /\ MaxAge \in Nat
  BY CachesAssumption DEF MaxAge

LEMMA EntryFields ==
    ASSUME NEW value \in Truth, NEW ttl \in Nat
    PROVE  /\ Entry(value, ttl) \in Entries
           /\ Entry(value, ttl).left = ttl /\ Entry(value, ttl).value = value
  BY DEF Entry, Entries

\* The lives an entry can have in memory and in Redis.
LEMMA CacheEntries ==
    ASSUME NEW value \in Truth
    PROVE  /\ LocalEntry(value) \in Entries /\ LocalEntry(value).value = value
           /\ LocalEntry(value).left \in {LocalTtl, LocalShortTtl}
           /\ RedisEntry(value) \in Entries /\ RedisEntry(value).value = value
           /\ RedisEntry(value).left \in {RedisTtl, RedisShortTtl}
           /\ value = "yes" => RedisEntry(value).left = RedisTtl
           /\ kind = "friend" /\ value = "no" => /\ LocalEntry(value).left = LocalShortTtl
                                                 /\ RedisEntry(value).left = RedisShortTtl
  BY EntryFields, Lifetimes DEF LocalEntry, RedisEntry, Long

LEMMA MissingEntry == Missing \in Entries /\ Missing.left = 0 /\ ~Known(Missing)
  BY DEF Missing, Entries, Truth, Known

LEMMA OlderEntry ==
    ASSUME NEW entry \in Entries
    PROVE  /\ Older(entry) \in Entries
           /\ entry.left =< 1 => Older(entry).left = 0
           /\ entry.left > 1 => /\ Older(entry).left = entry.left - 1
                                /\ Older(entry).value = entry.value
<1>1. entry.left \in Nat /\ entry.value \in Truth
  BY DEF Entries
<1>2. CASE entry.left =< 1
  BY <1>1, <1>2, MissingEntry DEF Older
<1>3. CASE ~(entry.left =< 1)
  <2>1. entry.left - 1 \in Nat
    BY <1>1, <1>3
  <2>2. Older(entry) = Entry(entry.value, entry.left - 1)
    BY <1>3 DEF Older
  <2>3. QED
    BY <1>1, <1>3, <2>1, <2>2, EntryFields
<1>4. QED
  BY <1>2, <1>3

\* The life an entry gets in memory depends on what the relation is, and that stays.
LEMMA SameLives ==
    ASSUME kind' = kind, NEW value
    PROVE  LocalEntry(value)' = LocalEntry(value) /\ RedisEntry(value)' = RedisEntry(value)
  BY DEF LocalEntry, RedisEntry, Long, Entry

LEMMA CachesInvInit == CachesInit => CachesInv
<1> SUFFICES ASSUME CachesInit PROVE CachesInv
  OBVIOUS
<1>1. CacheTypes
  BY MissingEntry, Lifetimes DEF CachesInit, CacheTypes
<1>2. RequestIsCurrent
  BY DEF CachesInit, RequestIsCurrent, Truth
<1>3. SharedIsRecent /\ MemoryIsRecent /\ MarkerIsRecent /\ AnswersAreRecent
  BY MissingEntry, Lifetimes
     DEF CachesInit, SharedIsRecent, MemoryIsRecent, MarkerIsRecent, AnswersAreRecent
<1>4. QED
  BY <1>1, <1>2, <1>3 DEF CachesInv

\* An answer as recent as it has to be keeps the record of the oldest one so.
LEMMA AnswerGiven ==
    ASSUME CachesInv, NEW value \in Truth, since[value] =< MaxAge, Answer(value)
    PROVE  oldest' \in Nat /\ AnswersAreRecent'
  BY Lifetimes DEF CachesInv, CacheTypes, AnswersAreRecent, Answer

\* A process writes an entry into its memory.
LEMMA MemoryWritten ==
    ASSUME CachesInv, NEW s \in Api, NEW entry \in Entries, UNCHANGED since,
           since[entry.value] + entry.left =< MaxAge,
           memory' = [memory EXCEPT ![s] = entry]
    PROVE  memory' \in [Api -> Entries] /\ MemoryIsRecent'
<1>1. memory' \in [Api -> Entries]
  BY DEF CachesInv, CacheTypes
<1>2. \A p \in Api : memory'[p] = IF p = s THEN entry ELSE memory[p]
  BY DEF CachesInv, CacheTypes
<1>3. QED
  BY <1>1, <1>2 DEF CachesInv, MemoryIsRecent

\* An entry is written into Redis: it outlives all markers, or there was no relation
\* shortly before.
LEMMA SharedWritten ==
    ASSUME CachesInv, NEW entry \in Entries, UNCHANGED <<kind, since, marker>>,
           since[entry.value] + entry.left + LocalEntry(entry.value).left =< MaxAge,
           LocalTtl =< entry.left \/ since["no"] = 0 \/ ~Known(shared),
           shared' = entry
    PROVE  SharedIsRecent' /\ MarkerIsRecent'
<1>1. SharedIsRecent'
  BY SameLives DEF SharedIsRecent
<1>2. ASSUME NEW s \in Api, marker[s] > 0
      PROVE  marker[s] =< LocalTtl
             /\ (marker[s] =< entry.left \/ since["no"] + marker[s] =< LocalTtl)
  <2>1. /\ marker[s] \in Nat /\ entry.left \in Nat /\ shared.left \in Nat
        /\ since["no"] \in Nat
    BY DEF CachesInv, CacheTypes, Entries, Truth
  <2>2. marker[s] =< LocalTtl
        /\ (marker[s] =< shared.left \/ since["no"] + marker[s] =< LocalTtl)
    BY <1>2 DEF CachesInv, MarkerIsRecent
  <2>3. QED
    BY <1>2, <2>1, <2>2, Lifetimes DEF Known
<1>3. MarkerIsRecent'
  BY <1>2 DEF MarkerIsRecent
<1>4. QED
  BY <1>1, <1>3

\* The parts a step of a check leaves alone.
LEMMA CheckStep ==
    ASSUME CachesInv, NEW s \in Api, UNCHANGED <<kind, related, since, change>>,
           NEW value \in {"none", "locked"}, check' = [check EXCEPT ![s] = value],
           shared' \in Entries, memory' \in [Api -> Entries], marker' \in [Api -> Nat],
           oldest' \in Nat,
           SharedIsRecent', MemoryIsRecent', MarkerIsRecent', AnswersAreRecent'
    PROVE  CachesInv'
<1>1. check' \in [Api -> {"none", "locked"} \cup Truth]
      /\ \A p \in Api : check'[p] = IF p = s THEN value ELSE check[p]
  BY DEF CachesInv, CacheTypes
<1>2. CacheTypes'
  BY <1>1 DEF CachesInv, CacheTypes
<1>3. RequestIsCurrent'
  BY <1>1 DEF CachesInv, RequestIsCurrent, Truth
<1>4. QED
  BY <1>2, <1>3 DEF CachesInv

\* What is not written stays recent.
LEMMA EntriesKept ==
    ASSUME CachesInv, UNCHANGED <<kind, since>>
    PROVE  /\ UNCHANGED shared => shared' \in Entries /\ SharedIsRecent'
           /\ UNCHANGED memory => memory' \in [Api -> Entries] /\ MemoryIsRecent'
           /\ UNCHANGED marker => marker' \in [Api -> Nat]
           /\ UNCHANGED <<shared, marker>> => MarkerIsRecent'
           /\ UNCHANGED oldest => oldest' \in Nat /\ AnswersAreRecent'
<1>1. UNCHANGED shared => SharedIsRecent'
  <2> SUFFICES ASSUME UNCHANGED shared PROVE SharedIsRecent'
    OBVIOUS
  <2>1. LocalEntry(shared.value)' = LocalEntry(shared.value)
    BY DEF LocalEntry, Long, Entry
  <2>2. QED
    BY <2>1 DEF CachesInv, SharedIsRecent, Known, MaxAge
<1>2. QED
  BY <1>1 DEF CachesInv, CacheTypes, MemoryIsRecent, MarkerIsRecent, AnswersAreRecent

\* What an entry holds, and how recent it is.
LEMMA CopyIsRecent ==
    ASSUME CachesInv, Known(shared)
    PROVE  /\ shared.value \in Truth /\ since[shared.value] =< MaxAge
           /\ since[shared.value] + LocalEntry(shared.value).left =< MaxAge
<1>1. /\ shared.value \in Truth /\ shared.left \in Nat /\ shared.left > 0
      /\ since[shared.value] \in Nat
  BY DEF CachesInv, CacheTypes, Entries, Known
<1>2. LocalEntry(shared.value).left \in Nat
  BY <1>1, CacheEntries, Lifetimes
<1>3. since[shared.value] + shared.left + LocalEntry(shared.value).left =< MaxAge
  BY DEF CachesInv, SharedIsRecent
<1>4. QED
  BY <1>1, <1>2, <1>3, Lifetimes

LEMMA AnswerFromMemoryKeeps ==
    ASSUME CachesInv, NEW s \in Api, AnswerFromMemory(s)
    PROVE  CachesInv'
<1>1. /\ Known(memory[s]) /\ Answer(memory[s].value)
      /\ check' = [check EXCEPT ![s] = "none"]
      /\ UNCHANGED <<kind, related, since, shared, memory, marker, change>>
  BY DEF AnswerFromMemory
<1>2. memory[s].value \in Truth /\ since[memory[s].value] =< MaxAge
  <2>1. /\ memory[s].value \in Truth /\ memory[s].left \in Nat
        /\ since[memory[s].value] \in Nat
    BY DEF CachesInv, CacheTypes, Entries
  <2>2. since[memory[s].value] + memory[s].left =< MaxAge
    BY <1>1 DEF CachesInv, MemoryIsRecent
  <2>3. QED
    BY <2>1, <2>2, Lifetimes
<1>3. QED
  BY <1>1, <1>2, AnswerGiven, EntriesKept, CheckStep

LEMMA LockKeyKeeps ==
    ASSUME CachesInv, NEW s \in Api, LockKey(s)
    PROVE  CachesInv'
  BY EntriesKept, CheckStep DEF LockKey

LEMMA AnswerFromRedisKeeps ==
    ASSUME CachesInv, NEW s \in Api, AnswerFromRedis(s)
    PROVE  CachesInv'
<1>1. /\ Known(shared)
      /\ memory' = [memory EXCEPT ![s] = LocalEntry(shared.value)]
      /\ Answer(shared.value)
      /\ check' = [check EXCEPT ![s] = "none"]
      /\ UNCHANGED <<kind, related, since, shared, marker, change>>
  BY DEF AnswerFromRedis
<1>2. memory' \in [Api -> Entries] /\ MemoryIsRecent'
  BY <1>1, CopyIsRecent, CacheEntries, MemoryWritten
<1>3. QED
  BY <1>1, <1>2, CopyIsRecent, AnswerGiven, EntriesKept, CheckStep

LEMMA AnswerFromMarkerKeeps ==
    ASSUME CachesInv, NEW s \in Api, AnswerFromMarker(s)
    PROVE  CachesInv'
<1>1. /\ ~Known(shared) /\ kind = "friend" /\ marker[s] > 0
      /\ memory' = [memory EXCEPT ![s] = LocalEntry("no")]
      /\ shared' = RedisEntry("no")
      /\ Answer("no")
      /\ check' = [check EXCEPT ![s] = "none"]
      /\ UNCHANGED <<kind, related, since, marker, change>>
  BY DEF AnswerFromMarker
<1>2. /\ "no" \in Truth /\ since["no"] \in Nat /\ marker[s] \in Nat
      /\ shared.left = 0
  BY <1>1 DEF CachesInv, CacheTypes, Entries, Known, Truth
<1>3. since["no"] + marker[s] =< LocalTtl
  BY <1>1, <1>2 DEF CachesInv, MarkerIsRecent
<1>4. /\ LocalEntry("no") \in Entries /\ LocalEntry("no").value = "no"
      /\ LocalEntry("no").left = LocalShortTtl
      /\ RedisEntry("no") \in Entries /\ RedisEntry("no").value = "no"
      /\ RedisEntry("no").left = RedisShortTtl
  BY <1>1, <1>2, CacheEntries
<1>5. /\ since["no"] =< MaxAge /\ since["no"] + LocalShortTtl =< MaxAge
      /\ since["no"] + RedisShortTtl + LocalShortTtl =< MaxAge
  BY <1>1, <1>2, <1>3, Lifetimes
<1>6. memory' \in [Api -> Entries] /\ MemoryIsRecent'
  BY <1>1, <1>4, <1>5, MemoryWritten
<1>7. SharedIsRecent' /\ MarkerIsRecent'
  BY <1>1, <1>4, <1>5, SharedWritten
<1>8. oldest' \in Nat /\ AnswersAreRecent'
  BY <1>1, <1>2, <1>5, AnswerGiven
<1>9. shared' \in Entries /\ marker' \in [Api -> Nat]
  BY <1>1, <1>4 DEF CachesInv, CacheTypes
<1>10. QED
  BY <1>1, <1>6, <1>7, <1>8, <1>9, CheckStep

LEMMA QueryRelationKeeps ==
    ASSUME CachesInv, NEW s \in Api, QueryRelation(s)
    PROVE  CachesInv'
<1>1. /\ check' = [check EXCEPT ![s] = related]
      /\ UNCHANGED <<kind, related, since, shared, memory, marker, change, oldest>>
  BY DEF QueryRelation
<1>2. /\ related \in Truth
      /\ check' \in [Api -> {"none", "locked"} \cup Truth]
      /\ \A p \in Api : check'[p] = IF p = s THEN related ELSE check[p]
  BY <1>1 DEF CachesInv, CacheTypes
<1>3. RequestIsCurrent'
  BY <1>1, <1>2 DEF CachesInv, RequestIsCurrent
<1>4. QED
  BY <1>1, <1>2, <1>3, EntriesKept DEF CachesInv, CacheTypes

LEMMA StoreAnswerKeeps ==
    ASSUME CachesInv, NEW s \in Api, StoreAnswer(s)
    PROVE  CachesInv'
<1> DEFINE value == check[s]
<1>1. /\ value \in Truth
      /\ memory' = [memory EXCEPT ![s] = LocalEntry(value)]
      /\ shared' = RedisEntry(value)
      /\ Answer(value)
      /\ marker' = IF kind = "friend" THEN [marker EXCEPT ![s] = LocalTtl] ELSE marker
      /\ check' = [check EXCEPT ![s] = "none"]
      /\ UNCHANGED <<kind, related, since, change>>
  BY DEF StoreAnswer
<1>2. since[value] = 0
  BY <1>1 DEF CachesInv, RequestIsCurrent
<1> HIDE DEF value
<1>3. /\ LocalEntry(value) \in Entries /\ LocalEntry(value).value = value
      /\ LocalEntry(value).left \in {LocalTtl, LocalShortTtl}
      /\ RedisEntry(value) \in Entries /\ RedisEntry(value).value = value
      /\ RedisEntry(value).left \in {RedisTtl, RedisShortTtl}
      /\ value = "yes" => RedisEntry(value).left = RedisTtl
  BY <1>1, CacheEntries
<1>4. memory' \in [Api -> Entries] /\ MemoryIsRecent'
  <2>1. since[LocalEntry(value).value] + LocalEntry(value).left =< MaxAge
    BY <1>2, <1>3, Lifetimes
  <2>2. QED
    BY <1>1, <1>3, <2>1, MemoryWritten
<1>5. SharedIsRecent'
  BY <1>1, <1>2, <1>3, Lifetimes, SameLives DEF SharedIsRecent
<1>6. /\ marker' \in [Api -> Nat]
      /\ \A p \in Api : marker'[p] = LocalTtl \/ marker'[p] = marker[p]
  <2>1. marker \in [Api -> Nat]
    BY DEF CachesInv, CacheTypes
  <2>2. QED
    BY <1>1, <2>1, Lifetimes
<1>7. LocalTtl =< shared'.left \/ since["no"] = 0
  BY <1>1, <1>2, <1>3, Lifetimes DEF Truth
<1>8. MarkerIsRecent'
  <2>1. ASSUME NEW p \in Api, marker'[p] > 0
        PROVE  marker'[p] =< LocalTtl
               /\ (marker'[p] =< shared'.left \/ since["no"] + marker'[p] =< LocalTtl)
    <3>1. marker'[p] \in Nat /\ marker'[p] =< LocalTtl
      BY <1>6, <2>1, Lifetimes DEF CachesInv, MarkerIsRecent
    <3>2. shared'.left \in Nat
      BY <1>1, <1>3, Lifetimes
    <3>3. QED
      BY <1>7, <3>1, <3>2, Lifetimes
  <2>2. QED
    BY <1>1, <2>1 DEF MarkerIsRecent
<1>9. oldest' \in Nat /\ AnswersAreRecent'
  BY <1>1, <1>2, Lifetimes, AnswerGiven
<1>10. shared' \in Entries
  BY <1>1, <1>3
<1>11. QED
  BY <1>1, <1>4, <1>5, <1>6, <1>8, <1>9, <1>10, CheckStep

\* The row is read, or written, by a request that will write the caches.
LEMMA BeginRepeatedAddKeeps ==
    ASSUME CachesInv, NEW s \in Api, BeginMention(s) \/ BeginRepeatedAdd(s)
    PROVE  CachesInv'
<1>1. PICK doing \in {"mention", "add"} :
         /\ related = "yes" /\ change' = [change EXCEPT ![s] = doing]
         /\ UNCHANGED <<kind, related, since, shared, memory, marker, check, oldest>>
  BY DEF BeginMention, BeginRepeatedAdd
<1>2. /\ change' \in [Api -> {"none", "mention", "add", "remove", "accept"}]
      /\ \A p \in Api : change'[p] = IF p = s THEN doing ELSE change[p]
  BY <1>1 DEF CachesInv, CacheTypes
<1>3. RequestIsCurrent'
  BY <1>1, <1>2 DEF CachesInv, RequestIsCurrent, Writes
<1>4. QED
  BY <1>1, <1>2, <1>3, EntriesKept DEF CachesInv, CacheTypes

LEMMA ChangeRowKeeps ==
    ASSUME CachesInv, NEW s \in Api, ChangeRow(s)
    PROVE  CachesInv'
<1> DEFINE doing == IF related = "yes" THEN "remove" ELSE "accept"
<1>1. /\ related' = Opposite(related)
      /\ since' = [since EXCEPT ![Opposite(related)] = 0]
      /\ change' = change \/ change' = [change EXCEPT ![s] = doing]
      /\ UNCHANGED <<kind, shared, memory, marker, check, oldest>>
  BY DEF ChangeRow
<1>2. /\ related \in Truth /\ Opposite(related) \in Truth
      /\ Writes(doing) = Opposite(related)
      /\ doing \in {"remove", "accept"}
  BY DEF CachesInv, CacheTypes, Opposite, Writes, Truth
<1> HIDE DEF doing
<1>3. /\ since' \in [Truth -> Nat]
      /\ \A v \in Truth : /\ since[v] \in Nat /\ since'[v] \in {0, since[v]}
                          /\ since'[v] =< since[v]
      /\ since'[related'] = 0 /\ since'[Opposite(related)] = 0
  BY <1>1, <1>2 DEF CachesInv, CacheTypes
<1>4. /\ change' \in [Api -> {"none", "mention", "add", "remove", "accept"}]
      /\ \A p \in Api : change'[p] = doing \/ change'[p] = change[p]
  BY <1>1, <1>2 DEF CachesInv, CacheTypes
<1>5. RequestIsCurrent'
  <2>1. \A request : Writes(request) \in Truth
    BY DEF Writes, Truth
  <2>2. QED
    BY <1>1, <1>2, <1>3, <1>4, <2>1 DEF CachesInv, RequestIsCurrent
<1>6. SharedIsRecent'
  <2>1. ASSUME Known(shared)
        PROVE  since'[shared.value] + shared.left + LocalEntry(shared.value).left =< MaxAge
    <3>1. shared.value \in Truth /\ shared.left \in Nat
      BY DEF CachesInv, CacheTypes, Entries
    <3>2. LocalEntry(shared.value).left \in Nat
      BY <3>1, CacheEntries, Lifetimes
    <3>3. since[shared.value] + shared.left + LocalEntry(shared.value).left =< MaxAge
      BY <2>1 DEF CachesInv, SharedIsRecent
    <3>4. QED
      BY <1>3, <3>1, <3>2, <3>3, Lifetimes
  <2>2. LocalEntry(shared.value)' = LocalEntry(shared.value)
    BY <1>1 DEF LocalEntry, Long, Entry
  <2>3. QED
    BY <1>1, <2>1, <2>2 DEF SharedIsRecent, Known, MaxAge
<1>7. MemoryIsRecent'
  <2>1. ASSUME NEW p \in Api, Known(memory[p])
        PROVE  since'[memory[p].value] + memory[p].left =< MaxAge
    <3>1. memory[p].value \in Truth /\ memory[p].left \in Nat
      BY DEF CachesInv, CacheTypes, Entries
    <3>2. since[memory[p].value] + memory[p].left =< MaxAge
      BY <2>1 DEF CachesInv, MemoryIsRecent
    <3>3. QED
      BY <1>3, <3>1, <3>2, Lifetimes
  <2>2. QED
    BY <1>1, <2>1 DEF MemoryIsRecent
<1>8. MarkerIsRecent'
  <2>1. ASSUME NEW p \in Api, marker[p] > 0
        PROVE  marker[p] =< LocalTtl
               /\ (marker[p] =< shared.left \/ since'["no"] + marker[p] =< LocalTtl)
    <3>1. "no" \in Truth /\ marker[p] \in Nat
      BY DEF CachesInv, CacheTypes, Truth
    <3>2. marker[p] =< LocalTtl
          /\ (marker[p] =< shared.left \/ since["no"] + marker[p] =< LocalTtl)
      BY <2>1 DEF CachesInv, MarkerIsRecent
    <3>3. QED
      BY <1>3, <3>1, <3>2, Lifetimes
  <2>2. QED
    BY <1>1, <2>1 DEF MarkerIsRecent
<1>9. CacheTypes' /\ AnswersAreRecent'
  BY <1>1, <1>2, <1>3, <1>4 DEF CachesInv, CacheTypes, AnswersAreRecent
<1>10. QED
  BY <1>5, <1>6, <1>7, <1>8, <1>9 DEF CachesInv

LEMMA CacheRelationKeeps ==
    ASSUME CachesInv, NEW s \in Api, CacheRelation(s)
    PROVE  CachesInv'
<1> DEFINE value == Writes(change[s])
<1>1. /\ change[s] # "none"
      /\ memory' = [memory EXCEPT ![s] = LocalEntry(value)]
      /\ shared' = Entry(value, RedisTtl)
      /\ change' = [change EXCEPT ![s] = "none"]
      /\ UNCHANGED <<kind, related, since, marker, check, oldest>>
  BY DEF CacheRelation, Writes
<1>2. value \in Truth /\ since[value] = 0
  BY <1>1 DEF CachesInv, RequestIsCurrent, Writes, Truth
<1> HIDE DEF value
<1>3. /\ LocalEntry(value) \in Entries /\ LocalEntry(value).value = value
      /\ LocalEntry(value).left \in {LocalTtl, LocalShortTtl}
      /\ shared' \in Entries /\ shared'.value = value /\ shared'.left = RedisTtl
  BY <1>1, <1>2, CacheEntries, EntryFields, Lifetimes
<1>4. memory' \in [Api -> Entries] /\ MemoryIsRecent'
  <2>1. since[LocalEntry(value).value] + LocalEntry(value).left =< MaxAge
    BY <1>2, <1>3, Lifetimes
  <2>2. QED
    BY <1>1, <1>3, <2>1, MemoryWritten
<1>5. SharedIsRecent' /\ MarkerIsRecent'
  <2> DEFINE entry == shared'
  <2>1. /\ since[entry.value] + entry.left + LocalEntry(entry.value).left =< MaxAge
        /\ LocalTtl =< entry.left
    BY <1>2, <1>3, Lifetimes
  <2>2. entry = Entry(value, RedisTtl) /\ Entry(value, RedisTtl) \in Entries
    BY <1>1, <1>3
  <2> HIDE DEF entry
  <2>3. QED
    BY <1>1, <2>1, <2>2, SharedWritten
<1>6. /\ change' \in [Api -> {"none", "mention", "add", "remove", "accept"}]
      /\ \A p \in Api : change'[p] # "none" => change'[p] = change[p]
  BY <1>1 DEF CachesInv, CacheTypes
<1>7. RequestIsCurrent'
  BY <1>1, <1>6 DEF CachesInv, RequestIsCurrent
<1>8. QED
  BY <1>1, <1>3, <1>4, <1>5, <1>6, <1>7 DEF CachesInv, CacheTypes, AnswersAreRecent

LEMMA RestartApiKeeps ==
    ASSUME CachesInv, NEW s \in Api, RestartApi(s)
    PROVE  CachesInv'
<1>1. /\ memory' = [memory EXCEPT ![s] = Missing]
      /\ marker' = [marker EXCEPT ![s] = 0]
      /\ check' = [check EXCEPT ![s] = "none"]
      /\ change' = [change EXCEPT ![s] = "none"]
      /\ UNCHANGED <<kind, related, since, shared, oldest>>
  BY DEF RestartApi
<1>2. CacheTypes'
  BY <1>1, MissingEntry DEF CachesInv, CacheTypes
<1>3. /\ \A p \in Api : memory'[p] = memory[p] \/ ~Known(memory'[p])
      /\ \A p \in Api : marker'[p] = marker[p] \/ marker'[p] = 0
      /\ \A p \in Api : check'[p] = check[p] \/ check'[p] = "none"
      /\ \A p \in Api : change'[p] = change[p] \/ change'[p] = "none"
  BY <1>1, MissingEntry DEF CachesInv, CacheTypes
<1>4. RequestIsCurrent'
  BY <1>1, <1>3 DEF CachesInv, RequestIsCurrent, Truth
<1>5. MemoryIsRecent'
  BY <1>1, <1>3 DEF CachesInv, MemoryIsRecent
<1>6. MarkerIsRecent'
  BY <1>1, <1>3 DEF CachesInv, MarkerIsRecent
<1>7. QED
  BY <1>1, <1>2, <1>4, <1>5, <1>6, EntriesKept DEF CachesInv

\* Time passes: what was true is a tick older, and every entry has one tick less.
LEMMA CacheTickKeeps ==
    ASSUME CachesInv, CacheTick
    PROVE  CachesInv'
<1>1. /\ \A s \in Api : check[s] = "none" /\ change[s] = "none"
      /\ since' = [v \in Truth |->
                      IF v = related \/ since[v] > MaxAge THEN since[v] ELSE since[v] + 1]
      /\ shared' = Older(shared)
      /\ memory' = [s \in Api |-> Older(memory[s])]
      /\ marker' = [s \in Api |-> IF marker[s] > 0 THEN marker[s] - 1 ELSE 0]
      /\ UNCHANGED <<kind, related, check, change, oldest>>
  BY DEF CacheTick
<1>2. /\ since \in [Truth -> Nat] /\ shared \in Entries /\ memory \in [Api -> Entries]
      /\ marker \in [Api -> Nat] /\ related \in Truth
      /\ shared.left \in Nat /\ shared.value \in Truth
  BY DEF CachesInv, CacheTypes, Entries
<1>3. /\ since' \in [Truth -> Nat]
      /\ \A v \in Truth : since[v] \in Nat /\ since'[v] \in Nat /\ since'[v] =< since[v] + 1
      /\ since'[related] = since[related]
  BY <1>1, <1>2, Lifetimes
<1>4. /\ shared' \in Entries
      /\ shared.left =< 1 => shared'.left = 0
      /\ shared.left > 1 => shared'.left = shared.left - 1 /\ shared'.value = shared.value
  BY <1>1, <1>2, OlderEntry
<1>5. \A s \in Api :
         /\ memory[s] \in Entries /\ memory'[s] = Older(memory[s]) /\ memory'[s] \in Entries
         /\ memory[s].left \in Nat /\ memory[s].value \in Truth
  BY <1>1, <1>2, OlderEntry DEF Entries
<1>6. \A s \in Api : /\ marker[s] \in Nat /\ marker'[s] \in Nat
                     /\ marker'[s] > 0 => marker'[s] = marker[s] - 1
  BY <1>1, <1>2
<1>7. CacheTypes'
  <2>1. memory' \in [Api -> Entries] /\ marker' \in [Api -> Nat]
    BY <1>1, <1>5, <1>6
  <2>2. QED
    BY <1>1, <1>3, <1>4, <2>1 DEF CachesInv, CacheTypes
<1>8. RequestIsCurrent'
  BY <1>1, <1>3 DEF CachesInv, RequestIsCurrent, Truth
<1>9. SharedIsRecent'
  <2>1. ASSUME shared'.left > 0
        PROVE  since'[shared.value] + shared'.left + LocalEntry(shared.value).left =< MaxAge
               /\ shared'.value = shared.value
    <3>1. shared.left > 1 /\ shared'.left = shared.left - 1 /\ shared'.value = shared.value
      BY <1>2, <1>4, <2>1
    <3>2. LocalEntry(shared.value).left \in Nat
      BY <1>2, CacheEntries, Lifetimes
    <3>3. since[shared.value] + shared.left + LocalEntry(shared.value).left =< MaxAge
      BY <1>2, <3>1 DEF CachesInv, SharedIsRecent, Known
    <3>4. QED
      BY <1>2, <1>3, <3>1, <3>2, <3>3, Lifetimes
  <2>2. QED
    BY <1>1, <2>1 DEF SharedIsRecent, Known, MaxAge, LocalEntry, Long, Entry
<1>10. MemoryIsRecent'
  <2>1. ASSUME NEW s \in Api, memory'[s].left > 0
        PROVE  since'[memory'[s].value] + memory'[s].left =< MaxAge
    <3>1. /\ memory[s].left > 1 /\ memory'[s].left = memory[s].left - 1
          /\ memory'[s].value = memory[s].value
      BY <1>5, <2>1, OlderEntry
    <3>2. since[memory[s].value] + memory[s].left =< MaxAge
      BY <3>1, <1>5 DEF CachesInv, MemoryIsRecent, Known
    <3>3. QED
      BY <1>3, <1>5, <3>1, <3>2, Lifetimes
  <2>2. QED
    BY <2>1 DEF MemoryIsRecent, Known, MaxAge
<1>11. MarkerIsRecent'
  <2>1. ASSUME NEW s \in Api, marker'[s] > 0
        PROVE  marker'[s] =< LocalTtl
               /\ (marker'[s] =< shared'.left \/ since'["no"] + marker'[s] =< LocalTtl)
    <3>1. marker'[s] = marker[s] - 1 /\ marker[s] \in Nat /\ "no" \in Truth
      BY <1>6, <2>1 DEF Truth
    <3>2. marker[s] =< LocalTtl
          /\ (marker[s] =< shared.left \/ since["no"] + marker[s] =< LocalTtl)
      BY <2>1, <3>1, <1>6 DEF CachesInv, MarkerIsRecent
    <3>3. CASE marker[s] =< shared.left
      BY <1>2, <1>4, <2>1, <3>1, <3>2, <3>3, Lifetimes
    <3>4. CASE since["no"] + marker[s] =< LocalTtl
      BY <1>3, <3>1, <3>2, <3>4, Lifetimes
    <3>5. QED
      BY <3>2, <3>3, <3>4
  <2>2. QED
    BY <2>1 DEF MarkerIsRecent
<1>12. QED
  BY <1>1, <1>7, <1>8, <1>9, <1>10, <1>11 DEF CachesInv, AnswersAreRecent

LEMMA CachesInvStep == CachesInv /\ [CachesNext]_cacheVars => CachesInv'
<1> SUFFICES ASSUME CachesInv, [CachesNext]_cacheVars PROVE CachesInv'
  OBVIOUS
<1>1. CASE CacheTick
  BY <1>1, CacheTickKeeps
<1>2. ASSUME NEW s \in Api,
             AnswerFromMemory(s) \/ LockKey(s) \/ AnswerFromRedis(s) \/ AnswerFromMarker(s)
             \/ QueryRelation(s) \/ StoreAnswer(s)
      PROVE  CachesInv'
  BY <1>2, AnswerFromMemoryKeeps, LockKeyKeeps, AnswerFromRedisKeeps, AnswerFromMarkerKeeps,
     QueryRelationKeeps, StoreAnswerKeeps
<1>3. ASSUME NEW s \in Api,
             BeginMention(s) \/ BeginRepeatedAdd(s) \/ ChangeRow(s) \/ CacheRelation(s)
             \/ RestartApi(s)
      PROVE  CachesInv'
  BY <1>3, BeginRepeatedAddKeeps, ChangeRowKeeps, CacheRelationKeeps, RestartApiKeeps
<1>4. CASE UNCHANGED cacheVars
  BY <1>4, EntriesKept
     DEF cacheVars, CachesInv, CacheTypes, RequestIsCurrent, Writes
<1>5. QED
  BY <1>1, <1>2, <1>3, <1>4 DEF CachesNext

LEMMA CachesInvAlways == CachesSpec => []CachesInv
  BY CachesInvInit, CachesInvStep, PTL DEF CachesSpec

\* How long entries live at most.
CacheBounds ==
    /\ \A v \in Truth : since[v] =< MaxAge + 1
    /\ shared.left =< RedisTtl
    /\ \A s \in Api : memory[s].left =< LocalTtl /\ marker[s] =< LocalTtl

LEMMA OlderIsLess ==
    ASSUME NEW entry \in Entries
    PROVE  Older(entry).left =< entry.left /\ Older(entry).left \in Nat
<1>1. entry.left \in Nat
  BY DEF Entries
<1>2. QED
  BY <1>1, OlderEntry

\* A step writes an entry of a life it can have, or makes entries older, or none.
LEMMA EntriesOfStep ==
    ASSUME CachesInv, [CachesNext]_cacheVars
    PROVE  /\ \A v \in Truth : since'[v] =< since[v] \/ since'[v] =< MaxAge + 1
           /\ shared'.left =< shared.left \/ shared'.left =< RedisTtl
           /\ \A s \in Api : memory'[s].left =< memory[s].left \/ memory'[s].left =< LocalTtl
           /\ \A s \in Api : marker'[s] =< marker[s] \/ marker'[s] =< LocalTtl
<1>1. /\ since \in [Truth -> Nat] /\ shared \in Entries /\ memory \in [Api -> Entries]
      /\ marker \in [Api -> Nat] /\ related \in Truth /\ "no" \in Truth
      /\ shared.left \in Nat /\ \A v \in Truth : since[v] \in Nat
      /\ \A s \in Api : memory[s].left \in Nat /\ marker[s] \in Nat
  BY DEF CachesInv, CacheTypes, Entries, Truth
<1>2. CASE CacheTick
  <2>1. /\ since' = [v \in Truth |->
                      IF v = related \/ since[v] > MaxAge THEN since[v] ELSE since[v] + 1]
        /\ shared' = Older(shared)
        /\ memory' = [s \in Api |-> Older(memory[s])]
        /\ marker' = [s \in Api |-> IF marker[s] > 0 THEN marker[s] - 1 ELSE 0]
    BY <1>2 DEF CacheTick
  <2>2. \A v \in Truth : since'[v] =< since[v] \/ since'[v] =< MaxAge + 1
    BY <1>1, <2>1, Lifetimes
  <2>3. shared'.left =< shared.left /\ \A s \in Api : memory'[s].left =< memory[s].left
    BY <1>1, <2>1, OlderIsLess
  <2>4. \A s \in Api : marker'[s] =< marker[s]
    BY <1>1, <2>1
  <2>5. QED
    BY <2>2, <2>3, <2>4
<1>3. ASSUME NEW s \in Api, UNCHANGED since,
             \/ UNCHANGED shared
             \/ \E v \in Truth : shared' \in {RedisEntry(v), Entry(v, RedisTtl)},
             \/ UNCHANGED memory
             \/ \E v \in Truth : memory' = [memory EXCEPT ![s] = LocalEntry(v)]
             \/ memory' = [memory EXCEPT ![s] = Missing],
             \/ UNCHANGED marker
             \/ marker' = [marker EXCEPT ![s] = LocalTtl]
             \/ marker' = [marker EXCEPT ![s] = 0]
      PROVE  /\ \A v \in Truth : since'[v] =< since[v] \/ since'[v] =< MaxAge + 1
             /\ shared'.left =< shared.left \/ shared'.left =< RedisTtl
             /\ \A p \in Api : memory'[p].left =< memory[p].left \/ memory'[p].left =< LocalTtl
             /\ \A p \in Api : marker'[p] =< marker[p] \/ marker'[p] =< LocalTtl
  <2>1. \A v \in Truth : /\ RedisEntry(v).left =< RedisTtl
                         /\ Entry(v, RedisTtl).left =< RedisTtl
                         /\ LocalEntry(v).left =< LocalTtl
    BY CacheEntries, EntryFields, Lifetimes
  <2>2. shared'.left =< shared.left \/ shared'.left =< RedisTtl
    BY <1>1, <1>3, <2>1
  <2>3. \A p \in Api : memory'[p].left =< memory[p].left \/ memory'[p].left =< LocalTtl
    <3>1. Missing.left =< LocalTtl
      BY MissingEntry, Lifetimes
    <3>2. QED
      BY <1>1, <1>3, <2>1, <3>1
  <2>4. \A p \in Api : marker'[p] =< marker[p] \/ marker'[p] =< LocalTtl
    BY <1>1, <1>3, Lifetimes
  <2>5. QED
    BY <1>1, <1>3, <2>2, <2>3, <2>4
<1>4. ASSUME NEW s \in Api,
             AnswerFromMemory(s) \/ LockKey(s) \/ AnswerFromRedis(s) \/ AnswerFromMarker(s)
             \/ QueryRelation(s)
      PROVE  /\ UNCHANGED <<since, marker>>
             /\ \/ UNCHANGED shared
                \/ \E v \in Truth : shared' \in {RedisEntry(v), Entry(v, RedisTtl)}
             /\ \/ UNCHANGED memory
                \/ \E v \in Truth : memory' = [memory EXCEPT ![s] = LocalEntry(v)]
  BY <1>1, <1>4 DEF AnswerFromMemory, LockKey, AnswerFromRedis, AnswerFromMarker,
     QueryRelation, CachesInv, CacheTypes, Entries
<1>5. ASSUME NEW s \in Api,
             StoreAnswer(s) \/ BeginMention(s) \/ BeginRepeatedAdd(s) \/ CacheRelation(s)
             \/ RestartApi(s)
      PROVE  /\ UNCHANGED since
             /\ \/ UNCHANGED shared
                \/ \E v \in Truth : shared' \in {RedisEntry(v), Entry(v, RedisTtl)}
             /\ \/ UNCHANGED memory
                \/ \E v \in Truth : memory' = [memory EXCEPT ![s] = LocalEntry(v)]
                \/ memory' = [memory EXCEPT ![s] = Missing]
             /\ \/ UNCHANGED marker
                \/ marker' = [marker EXCEPT ![s] = LocalTtl]
                \/ marker' = [marker EXCEPT ![s] = 0]
  BY <1>5 DEF StoreAnswer, BeginMention, BeginRepeatedAdd, CacheRelation, RestartApi, Truth
<1>6. ASSUME NEW s \in Api, ChangeRow(s)
      PROVE  /\ UNCHANGED <<shared, memory, marker>>
             /\ \A v \in Truth : since'[v] =< since[v]
  <2>1. since' = [since EXCEPT ![Opposite(related)] = 0] /\ UNCHANGED <<shared, memory, marker>>
    BY <1>6 DEF ChangeRow
  <2>2. QED
    BY <1>1, <2>1
<1>7. CASE UNCHANGED cacheVars
  BY <1>1, <1>7 DEF cacheVars
<1>8. QED
  <2>1. ASSUME NEW s \in Api, ChangeRow(s)
        PROVE  /\ \A v \in Truth : since'[v] =< since[v] \/ since'[v] =< MaxAge + 1
               /\ shared'.left =< shared.left \/ shared'.left =< RedisTtl
               /\ \A p \in Api : memory'[p].left =< memory[p].left
                                 \/ memory'[p].left =< LocalTtl
               /\ \A p \in Api : marker'[p] =< marker[p] \/ marker'[p] =< LocalTtl
    BY <1>1, <1>6, <2>1
  <2>2. QED
    BY <1>2, <1>3, <1>4, <1>5, <2>1, <1>7 DEF CachesNext

LEMMA CacheBoundsAlways == CachesSpec => []CacheBounds
<1>1. CachesInit => CacheBounds
  BY MissingEntry, Lifetimes DEF CachesInit, CacheBounds
<1>2. CachesInv /\ CachesInv' /\ CacheBounds /\ [CachesNext]_cacheVars => CacheBounds'
  <2> SUFFICES ASSUME CachesInv, CachesInv', CacheBounds, [CachesNext]_cacheVars
               PROVE  CacheBounds'
    OBVIOUS
  <2>1. /\ shared.left \in Nat /\ \A v \in Truth : since[v] \in Nat
        /\ \A s \in Api : memory[s].left \in Nat /\ marker[s] \in Nat
    BY DEF CachesInv, CacheTypes, Entries
  <2>2. /\ shared'.left \in Nat /\ \A v \in Truth : since'[v] \in Nat
        /\ \A s \in Api : memory'[s].left \in Nat /\ marker'[s] \in Nat
    BY DEF CachesInv, CacheTypes, Entries
  <2>3. /\ \A v \in Truth : since'[v] =< MaxAge + 1
        /\ shared'.left =< RedisTtl
        /\ \A s \in Api : memory'[s].left =< LocalTtl /\ marker'[s] =< LocalTtl
    BY <2>1, <2>2, EntriesOfStep, Lifetimes DEF CacheBounds
  <2>4. QED
    BY <2>3 DEF CacheBounds, MaxAge
<1>3. QED
  BY <1>1, <1>2, CachesInvAlways, PTL DEF CachesSpec

LEMMA CachesTyped == CachesSpec => []CachesTypeOK
<1>1. CachesInv /\ CacheBounds => CachesTypeOK
  <2> SUFFICES ASSUME CachesInv, CacheBounds PROVE CachesTypeOK
    OBVIOUS
  <2>1. /\ related \in Truth /\ since \in [Truth -> Nat]
        /\ shared.left \in Nat /\ shared.value \in Truth
        /\ \A s \in Api : /\ memory[s].left \in Nat /\ memory[s].value \in Truth
                          /\ marker[s] \in Nat
                          /\ check[s] \in {"none", "locked"} \cup Truth
                          /\ change[s] \in {"none", "mention", "add", "remove", "accept"}
    BY DEF CachesInv, CacheTypes, Entries
  <2>2. since \in [Truth -> 0..(MaxAge + 1)]
    BY <2>1, Lifetimes DEF CacheBounds
  <2>3. QED
    BY <2>1, <2>2, Lifetimes DEF CacheBounds, CachesTypeOK
<1>2. QED
  BY <1>1, CachesInvAlways, CacheBoundsAlways, PTL

\* For any number of processes and any lifetimes in the relation of the code's: no
\* check is answered by what the database has not said for longer than a lifetime in
\* Redis and one in memory, whatever writers, readers and restarts do in between.
THEOREM AnswersRecent == CachesSpec => []AnswersAreRecent
<1>1. CachesInv => AnswersAreRecent
  BY DEF CachesInv
<1>2. QED
  BY <1>1, CachesInvAlways, PTL
-----------------------------------------------------------------------------
(* The push dispatcher.                                                    *)

CachedRoutes == [at : SUBSET ImServer, left : 0..RouteTtl]

PushTypes ==
    /\ events \in Seq(SUBSET PushUser)
    /\ handed \in Nat /\ handed =< Len(events)
    /\ unacked \subseteq 1..handed /\ Cardinality(unacked) =< PushBatch
    /\ phase \in {"read", "dispatch", "await"}
    /\ batch \subseteq unacked
    /\ sending \subseteq ImServer \X unacked
    /\ line \in [ImServer -> Seq(Nat)]
    /\ routes \in [PushUser -> SUBSET ImServer]
    /\ routeAge \in [PushUser -> [ImServer -> Nat]]
    /\ routeCache \in [PushUser -> CachedRoutes]
    /\ staleRoute \in Nat

\* What a server has comes before what is on its way to it, that before the events
\* still to be taken, and all that before what has not been handed out.  Entries are
\* read again only when the lines have been started anew.
QueueInv ==
    /\ phase = "read" => batch = {} /\ (unacked = {} \/ \A i \in ImServer : line[i] = <<>>)
    /\ phase # "await" => sending = {}
    /\ \A p, q \in sending : p[2] = q[2]
    /\ \A p \in sending, n \in batch : p[2] < n
    /\ \A i \in ImServer : \A m \in DOMAIN line[i] :
          /\ line[i][m] =< handed
          /\ \A n \in batch : line[i][m] < n
          /\ \A p \in sending : p[1] = i => line[i][m] < p[2]
    /\ PushesInOrder

\* What has changed since the routes of a user were cached changed after that, and
\* the entry has lived as long at least.
CacheIsRecent ==
    /\ \A u \in PushUser :
          /\ routeCache[u].left = 0 => routeCache[u] = NotCached
          /\ \A i \in ImServer :
                routeCache[u].left > 0 /\ (i \in routeCache[u].at) # (i \in routes[u])
                    => routeAge[u][i] + routeCache[u].left =< RouteTtl
    /\ staleRoute < RouteTtl

PushInv == PushTypes /\ QueueInv /\ CacheIsRecent

LEMMA PushNumbers ==
    RouteTtl \in Nat /\ 0 < RouteTtl /\ PushBatch \in Nat /\ 0 < PushBatch
  BY PushAssumption

LEMMA NotCachedType == NotCached \in CachedRoutes /\ NotCached.left = 0 /\ NotCached.at = {}
  BY PushNumbers DEF NotCached, CachedRoutes

LEMMA PushInvInit == PushInit => PushInv
<1> SUFFICES ASSUME PushInit PROVE PushInv
  OBVIOUS
<1>1. PushTypes
  BY NotCachedType, PushNumbers, FS_EmptySet DEF PushInit, PushTypes
<1>2. QueueInv
  BY DEF PushInit, QueueInv, PushesInOrder
<1>3. CacheIsRecent
  BY NotCachedType, PushNumbers DEF PushInit, CacheIsRecent
<1>4. QED
  BY <1>1, <1>2, <1>3 DEF PushInv

\* The routes and their cache are not touched.
LEMMA RoutesKept ==
    ASSUME PushInv, UNCHANGED <<routeVars, staleRoute>>
    PROVE  /\ CacheIsRecent'
           /\ routes' \in [PushUser -> SUBSET ImServer]
           /\ routeAge' \in [PushUser -> [ImServer -> Nat]]
           /\ routeCache' \in [PushUser -> CachedRoutes]
           /\ staleRoute' \in Nat
  BY DEF PushInv, PushTypes, CacheIsRecent, routeVars

\* The stream and what is made of it are not touched.
LEMMA QueueKept ==
    ASSUME PushInv, UNCHANGED <<handed, unacked, phase, batch, sending, line>>
    PROVE  QueueInv'
  BY DEF PushInv, QueueInv, PushesInOrder

LEMMA PublishKeeps ==
    ASSUME PushInv, NEW users \in SUBSET PushUser, PublishEvent(users)
    PROVE  PushInv'
<1>1. /\ events' = Append(events, users)
      /\ UNCHANGED <<handed, unacked, phase, batch, sending, line>>
      /\ UNCHANGED <<routeVars, staleRoute>>
  BY DEF PublishEvent
<1>2. events' \in Seq(SUBSET PushUser) /\ handed' =< Len(events')
  <2>1. events \in Seq(SUBSET PushUser) /\ Len(events) \in Nat /\ handed \in Nat
        /\ handed =< Len(events)
    BY DEF PushInv, PushTypes
  <2>2. QED
    BY <1>1, <2>1
<1>3. PushTypes'
  BY <1>1, <1>2, RoutesKept DEF PushInv, PushTypes
<1>4. QED
  BY <1>1, <1>3, RoutesKept, QueueKept DEF PushInv

\* Nothing changes but the routes and the cache.
LEMMA RoutesChange ==
    ASSUME PushInv, UNCHANGED <<streamVars, phase, batch, sending, line, staleRoute>>,
           routes' \in [PushUser -> SUBSET ImServer],
           routeAge' \in [PushUser -> [ImServer -> Nat]],
           routeCache' \in [PushUser -> CachedRoutes],
           CacheIsRecent'
    PROVE  PushInv'
<1>1. UNCHANGED <<events, handed, unacked>>
  BY DEF streamVars
<1>2. PushTypes'
  BY <1>1 DEF PushInv, PushTypes
<1>3. QED
  BY <1>1, <1>2, QueueKept DEF PushInv

LEMMA MoveUserKeeps ==
    ASSUME PushInv, NEW u \in PushUser, NEW i \in ImServer, MoveUser(u, i)
    PROVE  PushInv'
<1>1. /\ routes' = [routes EXCEPT ![u] = IF i \in routes[u] THEN routes[u] \ {i}
                                         ELSE routes[u] \cup {i}]
      /\ routeAge' = [routeAge EXCEPT ![u] = [routeAge[u] EXCEPT ![i] = 0]]
      /\ routeCache' = routeCache
      /\ UNCHANGED <<streamVars, phase, batch, sending, line, staleRoute>>
  BY DEF MoveUser
<1>2. /\ routes \in [PushUser -> SUBSET ImServer]
      /\ routeAge \in [PushUser -> [ImServer -> Nat]]
      /\ routeCache \in [PushUser -> CachedRoutes]
  BY DEF PushInv, PushTypes
<1>3. routes' \in [PushUser -> SUBSET ImServer]
  BY <1>1, <1>2
<1>4. routeAge' \in [PushUser -> [ImServer -> Nat]]
  BY <1>1, <1>2
<1>5. /\ \A v \in PushUser, j \in ImServer :
            routeAge'[v][j] = IF v = u /\ j = i THEN 0 ELSE routeAge[v][j]
      /\ \A v \in PushUser, j \in ImServer :
            v # u \/ j # i => (j \in routes'[v] <=> j \in routes[v])
  BY <1>1, <1>2
<1>6. \A v \in PushUser : routeCache[v].left \in 0..RouteTtl
  BY <1>2 DEF CachedRoutes
<1>7. CacheIsRecent'
  <2>1. ASSUME NEW v \in PushUser, NEW j \in ImServer, routeCache[v].left > 0,
               (j \in routeCache[v].at) # (j \in routes'[v])
        PROVE  routeAge'[v][j] + routeCache[v].left =< RouteTtl
    <3>1. CASE v = u /\ j = i
      BY <1>5, <1>6, <3>1, PushNumbers
    <3>2. CASE v # u \/ j # i
      BY <1>5, <2>1, <3>2 DEF PushInv, CacheIsRecent
    <3>3. QED
      BY <3>1, <3>2
  <2>2. QED
    BY <1>1, <2>1 DEF PushInv, CacheIsRecent
<1>8. QED
  BY <1>1, <1>2, <1>3, <1>4, <1>7, RoutesChange

LEMMA LeaseEndsKeeps ==
    ASSUME PushInv, NEW u \in PushUser, LeaseEnds(u)
    PROVE  PushInv'
<1>1. /\ routeCache' = [routeCache EXCEPT ![u] = NotCached]
      /\ UNCHANGED <<streamVars, phase, batch, sending, line, routes, routeAge, staleRoute>>
  BY DEF LeaseEnds
<1>2. /\ routes \in [PushUser -> SUBSET ImServer]
      /\ routeAge \in [PushUser -> [ImServer -> Nat]]
      /\ routeCache \in [PushUser -> CachedRoutes]
  BY DEF PushInv, PushTypes
<1>3. routeCache' \in [PushUser -> CachedRoutes]
      /\ \A v \in PushUser : routeCache'[v] = IF v = u THEN NotCached ELSE routeCache[v]
  BY <1>1, <1>2, NotCachedType
<1>4. CacheIsRecent'
  BY <1>1, <1>3, NotCachedType DEF PushInv, CacheIsRecent
<1>5. QED
  BY <1>1, <1>2, <1>3, <1>4, RoutesChange

LEMMA AgedType ==
    ASSUME NEW cached \in CachedRoutes
    PROVE  /\ Aged(cached) \in CachedRoutes
           /\ cached.left =< 1 => Aged(cached) = NotCached
           /\ cached.left > 1 => /\ Aged(cached).left = cached.left - 1
                                 /\ Aged(cached).at = cached.at
<1>1. cached.left \in 0..RouteTtl /\ cached.at \in SUBSET ImServer
  BY DEF CachedRoutes
<1>2. CASE cached.left =< 1
  BY <1>1, <1>2, NotCachedType DEF Aged
<1>3. CASE ~(cached.left =< 1)
  <2>1. cached.left - 1 \in 0..RouteTtl
    BY <1>1, <1>3, PushNumbers
  <2>2. Aged(cached) = [at |-> cached.at, left |-> cached.left - 1]
    BY <1>3 DEF Aged
  <2>3. QED
    BY <1>1, <1>3, <2>1, <2>2 DEF CachedRoutes
<1>4. QED
  BY <1>2, <1>3

LEMMA RouteTickKeeps ==
    ASSUME PushInv, RouteTick
    PROVE  PushInv'
<1>1. /\ routeAge' = [u \in PushUser |-> [i \in ImServer |-> Up(routeAge[u][i])]]
      /\ routeCache' = [u \in PushUser |-> Aged(routeCache[u])]
      /\ UNCHANGED <<streamVars, phase, batch, sending, line, routes, staleRoute>>
  BY DEF RouteTick
<1>2. /\ routes \in [PushUser -> SUBSET ImServer]
      /\ routeAge \in [PushUser -> [ImServer -> Nat]]
      /\ routeCache \in [PushUser -> CachedRoutes]
  BY DEF PushInv, PushTypes
<1>3. \A u \in PushUser, i \in ImServer :
         /\ routeAge[u][i] \in Nat /\ routeAge'[u][i] \in Nat
         /\ routeAge'[u][i] =< routeAge[u][i] + 1
  BY <1>1, <1>2, PushNumbers DEF Up
<1>4. routeAge' \in [PushUser -> [ImServer -> Nat]]
  BY <1>1, <1>3
<1>5. \A u \in PushUser :
         /\ routeCache[u] \in CachedRoutes /\ routeCache[u].left \in 0..RouteTtl
         /\ routeCache'[u] = Aged(routeCache[u])
  BY <1>1, <1>2 DEF CachedRoutes
<1>6. routeCache' \in [PushUser -> CachedRoutes]
  BY <1>1, <1>5, AgedType
<1>7. CacheIsRecent'
  <2>1. ASSUME NEW u \in PushUser
        PROVE  /\ routeCache'[u].left = 0 => routeCache'[u] = NotCached
               /\ \A i \in ImServer :
                    routeCache'[u].left > 0 /\ (i \in routeCache'[u].at) # (i \in routes[u])
                        => routeAge'[u][i] + routeCache'[u].left =< RouteTtl
    <3>1. CASE routeCache[u].left =< 1
      BY <1>5, <3>1, AgedType, NotCachedType
    <3>2. CASE routeCache[u].left > 1
      <4>1. routeCache'[u].left = routeCache[u].left - 1 /\ routeCache'[u].at = routeCache[u].at
        BY <1>5, <3>2, AgedType
      <4>2. ASSUME NEW i \in ImServer, (i \in routeCache'[u].at) # (i \in routes[u])
            PROVE  routeAge'[u][i] + routeCache'[u].left =< RouteTtl
        <5>1. routeAge[u][i] + routeCache[u].left =< RouteTtl
          BY <3>2, <4>1, <4>2, <1>5 DEF PushInv, CacheIsRecent
        <5>2. QED
          BY <1>3, <1>5, <4>1, <5>1, PushNumbers
      <4>3. QED
        BY <1>5, <3>2, <4>1, <4>2
    <3>3. QED
      BY <1>5, <3>1, <3>2
  <2>2. QED
    BY <1>1, <2>1 DEF PushInv, CacheIsRecent
<1>8. QED
  BY <1>1, <1>2, <1>4, <1>6, <1>7, RoutesChange
-----------------------------------------------------------------------------
\* The stream and what is made of it change; the routes do not.
LEMMA QueueChanges ==
    ASSUME PushInv, UNCHANGED <<events, routeVars, staleRoute>>,
           handed' \in Nat, handed' =< Len(events),
           unacked' \subseteq 1..handed', Cardinality(unacked') =< PushBatch,
           phase' \in {"read", "dispatch", "await"}, batch' \subseteq unacked',
           sending' \subseteq ImServer \X unacked', line' \in [ImServer -> Seq(Nat)],
           QueueInv'
    PROVE  PushInv'
  BY RoutesKept DEF PushInv, PushTypes

LEMMA QueueTypes ==
    ASSUME PushInv
    PROVE  /\ handed \in Nat /\ Len(events) \in Nat /\ handed =< Len(events)
           /\ unacked \subseteq 1..handed /\ Cardinality(unacked) =< PushBatch
           /\ batch \subseteq unacked /\ sending \subseteq ImServer \X unacked
           /\ line \in [ImServer -> Seq(Nat)] /\ phase \in {"read", "dispatch", "await"}
  BY DEF PushInv, PushTypes

LEMMA ReadPendingKeeps ==
    ASSUME PushInv, ReadPending
    PROVE  PushInv'
<1>1. /\ phase = "read" /\ unacked # {} /\ phase' = "dispatch"
      /\ batch' \subseteq unacked
      /\ UNCHANGED <<events, handed, unacked, sending, line>>
      /\ UNCHANGED <<events, routeVars, staleRoute>>
  BY DEF ReadPending, streamVars
<1>2. sending = {} /\ \A i \in ImServer : line[i] = <<>>
  BY <1>1 DEF PushInv, QueueInv
<1>3. QueueInv'
  BY <1>1, <1>2 DEF QueueInv, PushesInOrder
<1>4. QED
  BY <1>1, <1>3, QueueTypes, QueueChanges

LEMMA ReadNewKeeps ==
    ASSUME PushInv, ReadNew
    PROVE  PushInv'
<1>1. /\ phase = "read" /\ unacked = {} /\ handed < Len(events) /\ phase' = "dispatch"
      /\ handed' = IF handed + PushBatch < Len(events) THEN handed + PushBatch ELSE Len(events)
      /\ unacked' = (handed + 1)..handed' /\ batch' = unacked'
      /\ UNCHANGED <<sending, line>>
      /\ UNCHANGED <<events, routeVars, staleRoute>>
  BY DEF ReadNew
<1>2. /\ handed' \in Nat /\ handed' =< Len(events) /\ handed < handed'
      /\ handed' =< handed + PushBatch
  BY <1>1, QueueTypes, PushNumbers
<1>3. unacked' \subseteq 1..handed'
  BY <1>1, <1>2, QueueTypes
<1>4. Cardinality(unacked') =< PushBatch
  <2>1. Cardinality((handed + 1)..handed') = handed' - (handed + 1) + 1
    <3>1. handed + 1 \in Int /\ handed' \in Int /\ ~(handed + 1 > handed')
      BY <1>2, QueueTypes
    <3>2. QED
      BY <3>1, FS_Interval
  <2>2. QED
    BY <1>1, <1>2, <2>1, QueueTypes, PushNumbers
<1>5. sending = {}
  BY <1>1 DEF PushInv, QueueInv
<1>6. QueueInv'
  <2>1. \A n \in batch' : handed < n
    BY <1>1, <1>2, QueueTypes
  <2>2. ASSUME NEW i \in ImServer, NEW m \in DOMAIN line[i]
        PROVE  line[i][m] =< handed' /\ \A n \in batch' : line[i][m] < n
    <3>1. line[i][m] \in Nat /\ line[i][m] =< handed
      BY QueueTypes DEF PushInv, QueueInv
    <3>2. \A n \in batch' : n \in Nat
      BY <1>1, <1>2, QueueTypes
    <3>3. QED
      BY <1>2, <2>1, <3>1, <3>2, QueueTypes
  <2>3. PushesInOrder'
    BY <1>1 DEF PushInv, QueueInv, PushesInOrder
  <2>4. QED
    BY <1>1, <1>5, <2>2, <2>3 DEF QueueInv
<1>7. QED
  BY <1>1, <1>2, <1>3, <1>4, <1>5, <1>6, QueueTypes, QueueChanges

LEMMA EventDoneKeeps ==
    ASSUME PushInv, EventDone
    PROVE  PushInv'
<1>1. /\ sending = {} /\ phase' = "dispatch"
      /\ UNCHANGED <<events, handed, unacked, batch, sending, line>>
      /\ UNCHANGED <<events, routeVars, staleRoute>>
  BY DEF EventDone, streamVars
<1>2. QueueInv'
  BY <1>1 DEF PushInv, QueueInv, PushesInOrder
<1>3. QED
  BY <1>1, <1>2, QueueTypes, QueueChanges

LEMMA AckBatchKeeps ==
    ASSUME PushInv, AckBatch
    PROVE  PushInv'
<1>1. /\ phase = "dispatch" /\ batch = {} /\ phase' = "read" /\ unacked' = {}
      /\ UNCHANGED <<handed, batch, sending, line>>
      /\ UNCHANGED <<events, routeVars, staleRoute>>
  BY DEF AckBatch
<1>2. sending = {}
  BY <1>1 DEF PushInv, QueueInv
<1>3. QueueInv'
  BY <1>1, <1>2 DEF PushInv, QueueInv, PushesInOrder
<1>4. Cardinality(unacked') =< PushBatch
  BY <1>1, FS_EmptySet, PushNumbers
<1>5. QED
  BY <1>1, <1>2, <1>3, <1>4, QueueTypes, QueueChanges

LEMMA RestartDispatcherKeeps ==
    ASSUME PushInv, RestartDispatcher
    PROVE  PushInv'
<1>1. /\ phase' = "read" /\ batch' = {} /\ sending' = {}
      /\ line' = [i \in ImServer |-> <<>>]
      /\ routeCache' = [u \in PushUser |-> NotCached]
      /\ UNCHANGED <<events, handed, unacked, routes, routeAge, staleRoute>>
  BY DEF RestartDispatcher, streamVars
<1>2. QueueInv'
  BY <1>1 DEF QueueInv, PushesInOrder
<1>3. routeCache' \in [PushUser -> CachedRoutes]
  BY <1>1, NotCachedType
<1>4. CacheIsRecent'
  BY <1>1, NotCachedType DEF PushInv, CacheIsRecent
<1>5. PushTypes'
  <2>1. line' \in [ImServer -> Seq(Nat)]
    BY <1>1
  <2>2. QED
    BY <1>1, <1>3, <2>1 DEF PushInv, PushTypes
<1>6. QED
  BY <1>2, <1>4, <1>5 DEF PushInv

\* A request is a pair of a server and an event.
LEMMA RequestPair ==
    ASSUME PushInv, NEW request \in sending
    PROVE  \E i \in ImServer, n \in unacked : request = <<i, n>>
  BY QueueTypes

\* There is only one request to a server at a time.
LEMMA OneRequest ==
    ASSUME PushInv, NEW request \in sending, NEW p \in sending, p[1] = request[1]
    PROVE  p = request
<1>1. p[2] = request[2]
  BY DEF PushInv, QueueInv
<1>2. QED
  BY <1>1, RequestPair

LEMMA PushArrivesKeeps ==
    ASSUME PushInv, NEW request \in sending, PushArrives(request)
    PROVE  PushInv'
<1>1. PICK i \in ImServer, n \in unacked : request = <<i, n>>
  BY RequestPair
<1>2. /\ sending' = sending \ {request}
      /\ line' = [line EXCEPT ![i] = Append(line[i], n)]
      /\ UNCHANGED <<events, handed, unacked, phase, batch>>
      /\ UNCHANGED <<events, routeVars, staleRoute>>
  BY <1>1 DEF PushArrives, streamVars
<1>3. n \in Nat /\ n =< handed /\ \A m \in unacked : m \in Nat
  BY QueueTypes
<1>4. /\ line[i] \in Seq(Nat) /\ Len(line[i]) \in Nat /\ DOMAIN line[i] = 1..Len(line[i])
      /\ \A m \in 1..Len(line[i]) : line[i][m] < n
  <2>1. line[i] \in Seq(Nat)
    BY QueueTypes
  <2>2. request[1] = i /\ request[2] = n
    BY <1>1
  <2>3. \A m \in DOMAIN line[i] : line[i][m] < request[2]
    BY <2>2 DEF PushInv, QueueInv
  <2>4. QED
    BY <2>1, <2>2, <2>3
<1>5. line' \in [ImServer -> Seq(Nat)]
  <2>1. Append(line[i], n) \in Seq(Nat)
    BY <1>3, <1>4
  <2>2. QED
    BY <1>2, <2>1, QueueTypes
<1>6. /\ \A j \in ImServer : j # i => line'[j] = line[j]
      /\ line'[i] = Append(line[i], n)
  BY <1>2, QueueTypes
<1>7. /\ DOMAIN line'[i] = 1..(Len(line[i]) + 1)
      /\ line'[i][Len(line[i]) + 1] = n
      /\ \A m \in 1..Len(line[i]) : line'[i][m] = line[i][m]
  BY <1>3, <1>4, <1>6
<1>8. ASSUME NEW p \in sending' PROVE p \in sending /\ p[1] # i
  BY <1>1, <1>2, OneRequest
<1>9. QueueInv'
  <2>1. \A m \in batch : n < m
    <3>1. request[2] = n
      BY <1>1
    <3>2. QED
      BY <3>1 DEF PushInv, QueueInv
  <2>2. ASSUME NEW j \in ImServer, NEW m \in DOMAIN line'[j]
        PROVE  /\ line'[j][m] =< handed
               /\ \A l \in batch : line'[j][m] < l
               /\ \A p \in sending' : p[1] = j => line'[j][m] < p[2]
    <3>1. CASE j # i
      BY <1>6, <1>8, <3>1 DEF PushInv, QueueInv
    <3>2. CASE j = i /\ m \in DOMAIN line[i]
      BY <1>4, <1>7, <1>8, <3>2 DEF PushInv, QueueInv
    <3>3. CASE j = i /\ m = Len(line[i]) + 1
      BY <1>3, <1>7, <1>8, <2>1, <3>3
    <3>4. QED
      BY <1>4, <1>7, <3>1, <3>2, <3>3
  <2>3. PushesInOrder'
    <3>1. \A j \in ImServer : \A l, m \in DOMAIN line[j] : l < m => line[j][l] < line[j][m]
      BY DEF PushInv, QueueInv, PushesInOrder
    <3>2. ASSUME NEW l \in DOMAIN line'[i], NEW m \in DOMAIN line'[i], l < m
          PROVE  line'[i][l] < line'[i][m]
      <4>1. l \in 1..Len(line[i])
        BY <1>4, <1>7, <3>2
      <4>2. CASE m \in 1..Len(line[i])
        BY <1>4, <1>7, <3>1, <3>2, <4>1, <4>2
      <4>3. CASE m = Len(line[i]) + 1
        BY <1>4, <1>7, <4>1, <4>3
      <4>4. QED
        BY <1>4, <1>7, <4>2, <4>3
    <3>3. QED
      BY <1>6, <3>1, <3>2 DEF PushesInOrder
  <2>4. /\ phase' = "read" => batch' = {} /\ unacked' = {}
        /\ phase' # "await" => sending' = {}
        /\ \A p, q \in sending' : p[2] = q[2]
        /\ \A p \in sending', m \in batch' : p[2] < m
    BY <1>2 DEF PushInv, QueueInv
  <2>5. QED
    BY <1>2, <2>2, <2>3, <2>4 DEF QueueInv
<1>10. QED
  BY <1>2, <1>5, <1>9, QueueTypes, QueueChanges

LEMMA PushFailsKeeps ==
    ASSUME PushInv, NEW request \in sending, PushFails(request)
    PROVE  PushInv'
<1>1. /\ sending' = sending \ {request}
      /\ UNCHANGED <<events, handed, unacked, phase, batch, line>>
      /\ UNCHANGED <<events, routeVars, staleRoute>>
  BY DEF PushFails, streamVars
<1>2. QueueInv'
  BY <1>1 DEF PushInv, QueueInv, PushesInOrder
<1>3. QED
  BY <1>1, <1>2, QueueTypes, QueueChanges

\* What the routes of the users an event concerns are taken to be.
LEMMA LookupsRecent ==
    ASSUME PushInv, NEW users \in SUBSET PushUser, routeCache' = Lookups(users),
           UNCHANGED <<routes, routeAge>>
    PROVE  /\ routeCache' \in [PushUser -> CachedRoutes]
           /\ \A u \in PushUser :
                 /\ routeCache'[u].left = 0 => routeCache'[u] = NotCached
                 /\ \A i \in ImServer :
                       routeCache'[u].left > 0
                       /\ (i \in routeCache'[u].at) # (i \in routes'[u])
                          => routeAge'[u][i] + routeCache'[u].left =< RouteTtl
           /\ \A u \in users, i \in ImServer : AgeOf(u, i, routeCache') < RouteTtl
                                               /\ AgeOf(u, i, routeCache') \in Nat
<1> DEFINE Now(u) == [at |-> routes[u], left |-> RouteTtl]
<1>1. /\ routes \in [PushUser -> SUBSET ImServer]
      /\ routeAge \in [PushUser -> [ImServer -> Nat]]
      /\ routeCache \in [PushUser -> CachedRoutes]
  BY DEF PushInv, PushTypes
<1>2. ASSUME NEW u \in PushUser
      PROVE  Now(u) \in CachedRoutes /\ Now(u).left = RouteTtl /\ Now(u).at = routes[u]
  BY <1>1, PushNumbers DEF CachedRoutes
<1>3. ASSUME NEW u \in PushUser
      PROVE  /\ routeCache'[u] \in {routeCache[u], NotCached, Now(u)}
             /\ routeCache'[u] = NotCached => routeCache[u] = NotCached
             /\ u \in users /\ routeCache'[u] = NotCached => routes[u] = {}
  BY <1>2, NotCachedType, PushNumbers DEF Lookups
<1> HIDE DEF Now
<1>4. routeCache' \in [PushUser -> CachedRoutes]
  <2>1. \A u \in PushUser : routeCache'[u] \in CachedRoutes
    BY <1>1, <1>2, <1>3, NotCachedType
  <2>2. QED
    BY <2>1 DEF Lookups
<1>5. ASSUME NEW u \in PushUser
      PROVE  /\ routeCache'[u].left = 0 => routeCache'[u] = NotCached
             /\ \A i \in ImServer :
                   routeCache'[u].left > 0 /\ (i \in routeCache'[u].at) # (i \in routes'[u])
                       => routeAge'[u][i] + routeCache'[u].left =< RouteTtl
  <2>1. CASE routeCache'[u] = routeCache[u]
    BY <2>1 DEF PushInv, CacheIsRecent
  <2>2. CASE routeCache'[u] = NotCached
    BY <2>2, NotCachedType
  <2>3. CASE routeCache'[u] = Now(u)
    BY <1>2, <2>3, PushNumbers
  <2>4. QED
    BY <1>3, <2>1, <2>2, <2>3
<1>6. ASSUME NEW u \in users, NEW i \in ImServer
      PROVE  AgeOf(u, i, routeCache') < RouteTtl /\ AgeOf(u, i, routeCache') \in Nat
  <2>1. u \in PushUser /\ routeCache'[u].left \in 0..RouteTtl /\ routeAge[u][i] \in Nat
    BY <1>1, <1>4 DEF CachedRoutes
  <2>2. CASE (i \in routeCache'[u].at) = (i \in routes'[u])
    BY <2>2, PushNumbers DEF AgeOf
  <2>3. CASE (i \in routeCache'[u].at) # (i \in routes'[u])
    <3>1. routeCache'[u] # NotCached
      BY <1>3, <2>1, <2>3, NotCachedType
    <3>2. routeAge'[u][i] + routeCache'[u].left =< RouteTtl /\ routeCache'[u].left > 0
      BY <1>5, <2>1, <2>3, <3>1
    <3>3. AgeOf(u, i, routeCache') = routeAge[u][i]
      BY <2>3 DEF AgeOf
    <3>4. QED
      BY <2>1, <3>2, <3>3, PushNumbers
  <2>4. QED
    BY <2>2, <2>3
<1>7. QED
  BY <1>4, <1>5, <1>6

LEMMA DispatchEventKeeps ==
    ASSUME PushInv, NEW n \in batch, DispatchEvent(n)
    PROVE  PushInv'
<1>1. /\ phase = "dispatch" /\ n \in NextOf(batch) /\ routeCache' = Lookups(events[n])
      /\ sending' = {<<i, n>> : i \in UNION {routeCache'[u].at : u \in events[n]}}
      /\ staleRoute' \in {staleRoute}
             \cup {AgeOf(u, i, routeCache') : u \in events[n], i \in ImServer}
      /\ phase' = "await" /\ batch' = batch \ {n}
      /\ UNCHANGED <<events, handed, unacked, line, routes, routeAge>>
  BY DEF DispatchEvent, Oldest, streamVars
<1>2. /\ n \in unacked /\ n \in 1..handed /\ n \in 1..Len(events)
      /\ \A m \in batch : m \in Nat /\ n =< m
  BY <1>1, QueueTypes DEF NextOf
<1>3. events[n] \in SUBSET PushUser
  <2>1. events \in Seq(SUBSET PushUser)
    BY DEF PushInv, PushTypes
  <2>2. QED
    BY <1>2, <2>1
<1>4. /\ routeCache' \in [PushUser -> CachedRoutes]
      /\ \A u \in PushUser :
            /\ routeCache'[u].left = 0 => routeCache'[u] = NotCached
            /\ \A i \in ImServer :
                  routeCache'[u].left > 0
                  /\ (i \in routeCache'[u].at) # (i \in routes'[u])
                     => routeAge'[u][i] + routeCache'[u].left =< RouteTtl
      /\ \A u \in events[n], i \in ImServer : AgeOf(u, i, routeCache') < RouteTtl
                                              /\ AgeOf(u, i, routeCache') \in Nat
  BY <1>1, <1>3, LookupsRecent
<1>5. staleRoute' \in Nat /\ staleRoute' < RouteTtl
  <2>1. staleRoute \in Nat /\ staleRoute < RouteTtl
    BY DEF PushInv, PushTypes, CacheIsRecent
  <2>2. QED
    BY <1>1, <1>4, <2>1
<1>6. ASSUME NEW p \in sending'
      PROVE  p \in ImServer \X unacked /\ p[2] = n
  <2>1. PICK i \in UNION {routeCache'[u].at : u \in events[n]} : p = <<i, n>>
    BY <1>1
  <2>2. i \in ImServer
    BY <1>3, <1>4, <2>1 DEF CachedRoutes
  <2>3. QED
    BY <1>2, <2>1, <2>2
<1>7. QueueInv'
  <2>1. \A m \in batch' : n < m
    BY <1>1, <1>2
  <2>2. \A i \in ImServer : \A m \in DOMAIN line[i] :
           line[i][m] =< handed /\ \A l \in batch : line[i][m] < l
    BY DEF PushInv, QueueInv
  <2>3. PushesInOrder'
    BY <1>1 DEF PushInv, QueueInv, PushesInOrder
  <2>4. QED
    BY <1>1, <1>6, <2>1, <2>2, <2>3 DEF QueueInv
<1>8. CacheIsRecent'
  BY <1>4, <1>5 DEF CacheIsRecent
<1>9. PushTypes'
  <2>1. sending' \subseteq ImServer \X unacked
    BY <1>6
  <2>2. QED
    BY <1>1, <1>4, <1>5, <2>1 DEF PushInv, PushTypes
<1>10. QED
  BY <1>7, <1>8, <1>9 DEF PushInv

LEMMA PushInvStep == PushInv /\ [PushNext]_pushVars => PushInv'
<1> SUFFICES ASSUME PushInv, [PushNext]_pushVars PROVE PushInv'
  OBVIOUS
<1>1. ASSUME NEW users \in SUBSET PushUser, PublishEvent(users) PROVE PushInv'
  BY <1>1, PublishKeeps
<1>2. ASSUME NEW u \in PushUser, NEW i \in ImServer, MoveUser(u, i) PROVE PushInv'
  BY <1>2, MoveUserKeeps
<1>3. ASSUME NEW u \in PushUser, LeaseEnds(u) PROVE PushInv'
  BY <1>3, LeaseEndsKeeps
<1>4. CASE RouteTick \/ ReadPending \/ ReadNew \/ EventDone \/ AckBatch \/ RestartDispatcher
  BY <1>4, RouteTickKeeps, ReadPendingKeeps, ReadNewKeeps, EventDoneKeeps, AckBatchKeeps,
     RestartDispatcherKeeps
<1>5. ASSUME NEW n \in batch, DispatchEvent(n) PROVE PushInv'
  BY <1>5, DispatchEventKeeps
<1>6. ASSUME NEW request \in sending, PushArrives(request) \/ PushFails(request)
      PROVE  PushInv'
  BY <1>6, PushArrivesKeeps, PushFailsKeeps
<1>7. CASE UNCHANGED pushVars
  BY <1>7, QueueChanges, QueueTypes, QueueKept DEF pushVars, streamVars
<1>8. QED
  BY <1>1, <1>2, <1>3, <1>4, <1>5, <1>6, <1>7 DEF PushNext

LEMMA PushInvAlways == PushSpec => []PushInv
  BY PushInvInit, PushInvStep, PTL DEF PushSpec

LEMMA PushTyped == PushSpec => []PushTypeOK
<1>1. PushInv => PushTypeOK
  BY DEF PushInv, PushTypes, PushTypeOK, CachedRoutes
<1>2. QED
  BY <1>1, PushInvAlways, PTL

\* For any users, servers, lifetimes and sizes of the batch, and any number of events
\* and restarts: what a server got since the dispatcher started is in the order of the
\* stream, and nothing is in it twice.
THEOREM PushesOrdered == PushSpec => []PushesInOrder
<1>1. PushInv => PushesInOrder
  BY DEF PushInv, QueueInv
<1>2. QED
  BY <1>1, PushInvAlways, PTL

\* For any lifetime of the cached routes: no event goes where a user was, or misses
\* where a user is, by a route that changed a lifetime or longer ago.
THEOREM PushesRecentlyRouted == PushSpec => []PushesFollowRoutes
<1>1. PushInv => PushesFollowRoutes
  BY DEF PushInv, CacheIsRecent, PushesFollowRoutes
<1>2. QED
  BY <1>1, PushInvAlways, PTL
-----------------------------------------------------------------------------
(* The last n of a set of numbers.                                         *)

\* A set of natural numbers has a least one: what is proved by induction elsewhere
\* is proved here by looking at the least counterexample.
LEMMA LeastNumber ==
    ASSUME NEW S \in SUBSET Nat, S # {}
    PROVE  \E m \in S : \A n \in S : m =< n
<1> DEFINE Less == OpToRel(<, Nat)
<1>1. IsWellFoundedOn(Less, Nat)
  BY NatLessThanWellFounded
<1>2. \A x, y \in Nat : x < y => <<x, y>> \in Less
  BY DEF OpToRel
<1> HIDE DEF Less
<1>3. PICK m \in S : \A y \in S : ~(<<y, m>> \in Less)
  BY <1>1, WFMin
<1>4. ASSUME NEW n \in S PROVE m =< n
  <2>1. n \in Nat /\ m \in Nat
    OBVIOUS
  <2>2. ~(n < m)
    BY <1>2, <1>3, <2>1
  <2>3. QED
    BY <2>1, <2>2
<1>5. QED
  BY <1>4

\* A bounded set of natural numbers has a greatest one.
LEMMA GreatestNumber ==
    ASSUME NEW bound \in Nat, NEW S, S \subseteq 0..bound, S # {}
    PROVE  \E m \in S : \A n \in S : n =< m
<1> DEFINE Distances == {bound - n : n \in S}
<1>1. \A n \in S : bound - n \in Nat /\ bound - n \in Distances
  OBVIOUS
<1>2. Distances \in SUBSET Nat /\ Distances # {}
  BY <1>1
<1>3. PICK d \in Distances : \A e \in Distances : d =< e
  <2> HIDE DEF Distances
  <2>1. QED
    BY <1>2, LeastNumber
<1>4. PICK m \in S : d = bound - m
  BY <1>3
<1>5. ASSUME NEW n \in S PROVE n =< m
  <2>1. d =< bound - n /\ n \in 0..bound /\ m \in 0..bound
    BY <1>1, <1>3
  <2>2. QED
    BY <1>4, <2>1
<1>6. QED
  BY <1>5

LEMMA Bounded ==
    ASSUME NEW bound \in Nat, NEW S, S \subseteq 0..bound
    PROVE  /\ IsFiniteSet(S) /\ Cardinality(S) \in Nat
           /\ \A T : T \subseteq S => /\ IsFiniteSet(T) /\ Cardinality(T) \in Nat
                                      /\ Cardinality(T) =< Cardinality(S)
<1>1. IsFiniteSet(0..bound)
  BY FS_Interval
<1>2. IsFiniteSet(S)
  BY <1>1, FS_Subset
<1>3. ASSUME NEW T, T \subseteq S
      PROVE  IsFiniteSet(T) /\ Cardinality(T) \in Nat /\ Cardinality(T) =< Cardinality(S)
  <2>1. T \in SUBSET S
    BY <1>3
  <2>2. QED
    BY <1>2, <2>1, FS_Subset, FS_CardinalityType
<1>4. QED
  BY <1>2, <1>3, FS_CardinalityType

LEMMA AboveSubset ==
    ASSUME NEW bound \in Nat, NEW S, S \subseteq 0..bound, NEW k \in Nat
    PROVE  /\ Above(S, k) \subseteq S /\ Above(S, k) \subseteq 0..bound
           /\ Cardinality(Above(S, k)) \in Nat
           /\ \A l \in S : l \in Above(S, k) <=> k < l
<1>1. /\ Above(S, k) \subseteq S
      /\ \A l \in S : l \in Above(S, k) <=> k < l
  BY DEF Above
<1>2. QED
  BY <1>1, Bounded

\* If there are n of them, the last n are n, and ...
LEMMA HighestCount ==
    ASSUME NEW bound \in Nat, NEW S, S \subseteq 0..bound, NEW n \in Nat, n =< Cardinality(S)
    PROVE  Cardinality(Highest(S, n)) = n
<1> DEFINE Wrong == {l \in 0..n : Cardinality(Highest(S, l)) # l}
<1>1. SUFFICES ASSUME Wrong # {} PROVE FALSE
  BY DEF Wrong
<1>2. PICK m \in Wrong : \A l \in Wrong : m =< l
  <2>1. Wrong \in SUBSET Nat
    OBVIOUS
  <2> HIDE DEF Wrong
  <2>2. QED
    BY <1>1, <2>1, LeastNumber
<1>3. m \in Nat /\ m =< n /\ Cardinality(Highest(S, m)) # m
  BY <1>2
<1>4. ASSUME NEW j \in S
      PROVE  /\ j \in Nat /\ j \in 0..bound /\ Cardinality(Above(S, j)) \in Nat
             /\ Above(S, j) \subseteq S /\ Above(S, j) \subseteq 0..bound
             /\ \A i \in S : i \in Above(S, j) <=> j < i
  <2>1. j \in Nat
    OBVIOUS
  <2>2. QED
    BY <2>1, AboveSubset
<1>5. m # 0
  <2>1. ASSUME NEW j \in Highest(S, 0) PROVE FALSE
    BY <1>4 DEF Highest
  <2>2. Highest(S, 0) = {}
    BY <2>1
  <2>3. QED
    BY <1>3, <2>2, FS_EmptySet
<1>6. Cardinality(Highest(S, m - 1)) = m - 1
  <2>1. m - 1 \in 0..n /\ m - 1 \notin Wrong
    BY <1>2, <1>3, <1>5
  <2>2. QED
    BY <2>1
<1> HIDE DEF Wrong
<1> DEFINE Most == Highest(S, m - 1)
           Rest == S \ Most
<1>7. /\ Most \subseteq S /\ Most \subseteq 0..bound /\ IsFiniteSet(Most)
      /\ Rest \subseteq 0..bound /\ Rest \subseteq S
  <2>1. Most \subseteq S
    BY DEF Highest
  <2>2. QED
    BY <2>1, Bounded
<1>8. \A l \in S : l \in Most <=> Cardinality(Above(S, l)) < m - 1
  BY DEF Highest
<1>9. \A l \in S : l \in Highest(S, m) <=> Cardinality(Above(S, l)) < m
  BY DEF Highest
<1>10. Highest(S, m) \subseteq S
  BY DEF Highest
<1>11. Cardinality(Most) = m - 1
  BY <1>6
<1>12. \A l \in S : l \in Most \/ l \in Rest
  OBVIOUS
<1>13. Rest \cap Most = {}
  OBVIOUS
<1> HIDE DEF Most, Rest
<1>14. Rest # {}
  <2>1. CASE Rest = {}
    <3>1. S = Most
      BY <1>7, <1>12, <2>1
    <3>2. QED
      BY <1>3, <1>11, <3>1
  <2>2. QED
    BY <2>1
<1>15. PICK x \in Rest : \A y \in Rest : y =< x
  BY <1>7, <1>14, GreatestNumber
<1>16. x \in S /\ x \in 0..bound /\ x \notin Most
  BY <1>7, <1>13
<1>17. ASSUME NEW j \in Most, NEW i \in S, j < i PROVE i \in Most
  <2>1. i \in Nat /\ j \in Nat /\ j \in S
    BY <1>4, <1>7
  <2>2. Above(S, i) \subseteq Above(S, j)
    BY <1>4, <1>17, <2>1
  <2>3. Above(S, j) \subseteq 0..bound
    BY <1>4, <2>1
  <2>4. /\ Cardinality(Above(S, i)) =< Cardinality(Above(S, j))
        /\ Cardinality(Above(S, i)) \in Nat /\ Cardinality(Above(S, j)) \in Nat
    BY <2>2, <2>3, Bounded
  <2>5. Cardinality(Above(S, j)) < m - 1
    BY <1>8, <2>1
  <2>6. QED
    BY <1>3, <1>8, <2>4, <2>5
<1>18. Above(S, x) = Most
  <2>1. ASSUME NEW l \in S PROVE l \in Above(S, x) <=> l \in Most
    <3>1. l \in 0..bound /\ (l \in Above(S, x) <=> x < l)
      BY <1>4, <1>16
    <3>2. x < l => l \in Most
      BY <1>12, <1>15, <1>16, <3>1
    <3>3. l \in Most => ~(l < x) /\ l # x
      BY <1>16, <1>17
    <3>4. QED
      BY <1>16, <3>1, <3>2, <3>3
  <2>2. Above(S, x) \subseteq S
    BY <1>4, <1>16
  <2>3. QED
    BY <1>7, <2>1, <2>2
<1>19. Cardinality(Most \cup {x}) = m
  <2>1. Cardinality(Most \cup {x}) = Cardinality(Most) + 1
    BY <1>7, <1>16, FS_AddElement
  <2>2. QED
    BY <1>3, <1>11, <2>1
<1>20. Highest(S, m) = Most \cup {x}
  <2>1. \A l \in Most : l \in Highest(S, m)
    BY <1>3, <1>4, <1>7, <1>8, <1>9
  <2>2. x \in Highest(S, m)
    BY <1>3, <1>5, <1>9, <1>11, <1>16, <1>18
  <2>3. ASSUME NEW l \in Highest(S, m), l \notin Most PROVE l = x
    <3>1. l \in S /\ l \in 0..bound /\ l =< x
      BY <1>4, <1>10, <1>12, <1>15, <2>3
    <3>2. CASE l < x
      <4>1. Most \cup {x} \subseteq Above(S, l)
        <5>1. \A i \in Most : i \in S /\ i \in 0..bound /\ x < i
          BY <1>4, <1>7, <1>16, <1>18
        <5>2. QED
          BY <1>4, <1>16, <3>1, <3>2, <5>1
      <4>2. /\ Cardinality(Most \cup {x}) =< Cardinality(Above(S, l))
            /\ Cardinality(Above(S, l)) \in Nat
        BY <1>4, <3>1, <4>1, Bounded
      <4>3. Cardinality(Above(S, l)) < m
        BY <1>9, <2>3, <3>1
      <4>4. QED
        BY <1>3, <1>19, <4>2, <4>3
    <3>3. QED
      BY <1>16, <3>1, <3>2
  <2>4. QED
    BY <2>1, <2>2, <2>3
<1>21. QED
  BY <1>3, <1>19, <1>20

\* ... they are all above a number that n of the set are above.
LEMMA HighestAbove ==
    ASSUME NEW bound \in Nat, NEW S, S \subseteq 0..bound, NEW n \in Nat, NEW k \in Nat,
           NEW T, T \subseteq S, n =< Cardinality(T), \A j \in T : k < j
    PROVE  Cardinality(Highest(S, n)) = n /\ \A j \in Highest(S, n) : k < j
<1>1. n =< Cardinality(S)
  <2>1. Cardinality(T) =< Cardinality(S) /\ Cardinality(T) \in Nat /\ Cardinality(S) \in Nat
    BY Bounded
  <2>2. QED
    BY <2>1
<1>2. Cardinality(Highest(S, n)) = n
  BY <1>1, HighestCount
<1>3. ASSUME NEW j \in Highest(S, n), ~(k < j) PROVE FALSE
  <2>1. j \in S /\ j \in 0..bound /\ Cardinality(Above(S, j)) < n
    BY DEF Highest
  <2>2. T \subseteq Above(S, j)
    <3>1. ASSUME NEW i \in T PROVE i \in Above(S, j)
      <4>1. i \in S /\ i \in 0..bound /\ k < i
        OBVIOUS
      <4>2. QED
        BY <1>3, <2>1, <4>1 DEF Above
    <3>2. QED
      BY <3>1
  <2>3. Above(S, j) \subseteq 0..bound
    <3>1. j \in Nat
      BY <2>1
    <3>2. QED
      BY <3>1, AboveSubset
  <2>4. /\ Cardinality(T) =< Cardinality(Above(S, j))
        /\ Cardinality(Above(S, j)) \in Nat /\ Cardinality(T) \in Nat
    BY <2>2, <2>3, Bounded
  <2>5. QED
    BY <2>1, <2>4
<1>4. QED
  BY <1>2, <1>3

\* Who is not among the last n of its set is below n others of them.
LEMMA HighestOrAbove ==
    ASSUME NEW bound \in Nat, NEW S, S \subseteq 0..bound, NEW n \in Nat, NEW k \in S,
           k \notin Highest(S, n)
    PROVE  Cardinality(Highest(S, n)) = n /\ \A j \in Highest(S, n) : k < j
<1>1. k \in Nat /\ Above(S, k) \subseteq S /\ \A j \in Above(S, k) : k < j
  BY DEF Above
<1>2. ~(Cardinality(Above(S, k)) < n)
  BY DEF Highest
<1>3. Cardinality(Above(S, k)) \in Nat
  BY <1>1, Bounded
<1>4. n =< Cardinality(Above(S, k))
  BY <1>2, <1>3
<1>5. QED
  BY <1>1, <1>4, HighestAbove

\* The last, and the first, n of a set are n at most.
LEMMA AtMost ==
    ASSUME NEW bound \in Nat, NEW S, S \subseteq 0..bound, NEW n \in Nat
    PROVE  Cardinality(Highest(S, n)) =< n /\ Cardinality(Lowest(S, n)) =< n
<1>1. Highest(S, n) \subseteq 0..bound /\ Lowest(S, n) \subseteq 0..bound
  BY DEF Highest, Lowest
<1>2. ASSUME NEW T, T \subseteq 0..bound, NEW m \in T, NEW U, U \subseteq 0..bound,
             Cardinality(U) < n, T \subseteq U \cup {m}
      PROVE  Cardinality(T) =< n
  <2>1. IsFiniteSet(U) /\ Cardinality(U) \in Nat /\ m \in 0..bound
    BY <1>2, Bounded
  <2>2. \/ Cardinality(U \cup {m}) = Cardinality(U) + 1
        \/ Cardinality(U \cup {m}) = Cardinality(U)
    BY <2>1, FS_AddElement
  <2>3. U \cup {m} \subseteq 0..bound
    BY <1>2, <2>1
  <2>4. Cardinality(T) =< Cardinality(U \cup {m}) /\ Cardinality(T) \in Nat
    BY <1>2, <2>3, Bounded
  <2>5. QED
    BY <1>2, <2>1, <2>2, <2>4
<1>3. Cardinality({}) =< n
  BY FS_EmptySet
<1>4. Cardinality(Highest(S, n)) =< n
  <2>1. CASE Highest(S, n) = {}
    BY <1>3, <2>1
  <2>2. CASE Highest(S, n) # {}
    <3> DEFINE T == Highest(S, n)
    <3>1. PICK m \in T : \A j \in T : m =< j
      <4>1. T \in SUBSET Nat /\ T # {}
        BY <1>1, <2>2
      <4> HIDE DEF T
      <4>2. QED
        BY <4>1, LeastNumber
    <3>2. m \in S /\ m \in 0..bound /\ Cardinality(Above(S, m)) < n
      BY DEF Highest
    <3>3. T \subseteq S /\ T \subseteq 0..bound
      BY <1>1 DEF Highest
    <3> HIDE DEF T
    <3>4. Above(S, m) \subseteq 0..bound
      BY <3>2 DEF Above
    <3>5. T \subseteq Above(S, m) \cup {m}
      BY <3>1, <3>2, <3>3 DEF Above
    <3>6. Cardinality(T) =< n
      BY <1>2, <3>2, <3>3, <3>4, <3>5
    <3>7. QED
      BY <3>6 DEF T
  <2>3. QED
    BY <2>1, <2>2
<1>5. Cardinality(Lowest(S, n)) =< n
  <2>1. CASE Lowest(S, n) = {}
    BY <1>3, <2>1
  <2>2. CASE Lowest(S, n) # {}
    <3> DEFINE T == Lowest(S, n)
    <3>1. PICK m \in T : \A j \in T : j =< m
      <4>1. T \subseteq 0..bound /\ T # {}
        BY <1>1, <2>2
      <4> HIDE DEF T
      <4>2. QED
        BY <4>1, GreatestNumber
    <3>2. m \in S /\ m \in 0..bound /\ Cardinality(Below(S, m)) < n
      BY DEF Lowest
    <3>3. T \subseteq S /\ T \subseteq 0..bound
      BY <1>1 DEF Lowest
    <3> HIDE DEF T
    <3>4. Below(S, m) \subseteq 0..bound
      BY <3>2 DEF Below
    <3>5. T \subseteq Below(S, m) \cup {m}
      BY <3>1, <3>2, <3>3 DEF Below
    <3>6. Cardinality(T) =< n
      BY <1>2, <3>2, <3>3, <3>4, <3>5
    <3>7. QED
      BY <3>6 DEF T
  <2>3. QED
    BY <2>1, <2>2
<1>6. QED
  BY <1>4, <1>5

LEMMA UnionCount ==
    ASSUME NEW bound \in Nat, NEW S, S \subseteq 0..bound, NEW T, T \subseteq 0..bound
    PROVE  Cardinality(S \cup T) =< Cardinality(S) + Cardinality(T)
<1>1. IsFiniteSet(S) /\ IsFiniteSet(T) /\ S \cap T \subseteq S
  BY Bounded
<1>2. /\ Cardinality(S) \in Nat /\ Cardinality(T) \in Nat /\ Cardinality(S \cap T) \in Nat
  BY <1>1, Bounded
<1>3. Cardinality(S \cup T) = Cardinality(S) + Cardinality(T) - Cardinality(S \cap T)
  BY <1>1, FS_Union
<1>4. QED
  BY <1>2, <1>3
-----------------------------------------------------------------------------
(* Private conversations.                                                  *)

Statuses == {"none", "sent", "deleted"}
ChatSteps == {"idle", "hot", "rows", "sort", "receipt", "reset"}

ChatRequest ==
    [pc : ChatSteps, before : Nat, after : Nat, todo : Seq(Nat), found : SUBSET (1..MaxIds),
     start : SUBSET (1..MaxIds), redis : {"up", "failed"}]

SendTypes ==
    /\ client \in Seq(Nat) /\ Len(client) =< MaxIds
    /\ writing \in [Sender -> Nat]
    /\ accepted \subseteq 1..Len(client)
    /\ unread \in Nat /\ cursor \in Nat /\ broken \in {"no", "yes"}

StoreTypes ==
    /\ index \in Seq(Nat)
    /\ hot \in [1..MaxIds -> Statuses] /\ row \in [1..MaxIds -> Statuses]
    /\ queue \in Seq((1..MaxIds) \X {"sent", "deleted"})
    /\ doomed \subseteq accepted /\ deleting \subseteq doomed

ChatTypes == SendTypes /\ StoreTypes /\ read \in [Reader -> ChatRequest]

\* The scripts run in the order of the ids, so that what is written next is newer
\* than all that has been accepted and read.
SendsInOrder ==
    /\ cursor \in accepted \cup {0}
    /\ \A s \in Sender :
          /\ writing[s] =< Len(client)
          /\ writing[s] # 0 => \A k \in accepted : k < writing[s]
          /\ \A t \in Sender : writing[s] # 0 /\ writing[s] = writing[t] => s = t

Indexed(k) == \E n \in DOMAIN index : index[n] = k
Queued(k) == \E n \in DOMAIN queue : queue[n][1] = k

\* The index is in order; what it lacks is older and has a row.
IndexInv ==
    /\ \A n \in DOMAIN index : index[n] \in accepted
    /\ \A m, n \in DOMAIN index : m < n => index[m] < index[n]
    /\ \A k \in accepted :
          Indexed(k) \/ (row[k] # "none" /\ \A n \in DOMAIN index : k < index[n])

\* What is accepted has a row or will get one; what nobody deletes is hot, or has a
\* row, and is nowhere deleted.
CopiesInv ==
    /\ \A k \in accepted : row[k] # "none" \/ Queued(k)
    /\ \A k \in accepted \ doomed :
          row[k] # "deleted" /\ hot[k] # "deleted" /\ (hot[k] = "none" => row[k] # "none")
    /\ \A k \in 1..MaxIds : k \notin accepted => row[k] = "none" /\ hot[k] = "none"
    /\ \A n \in DOMAIN queue : /\ queue[n][1] \in accepted
                               /\ queue[n][1] \notin doomed => queue[n][2] = "sent"

\* The ids a reader still has to load are the beginning of the index, and what it
\* has found is newer.
LoadsInOrder(r) ==
    Reads(r, "hot") =>
        /\ 1 =< Len(read[r].todo) /\ Len(read[r].todo) =< Len(index)
        /\ \A n \in 1..Len(read[r].todo) :
              read[r].todo[n] = index[n] /\ \A f \in read[r].found : index[n] < f

\* Message k will not be missing from the page: it is found, or not yet looked for,
\* or will be found as a row, and is older than what has been found.
WillBeShown(r, k) ==
    /\ Reads(r, "hot") =>
          \/ k \in read[r].found
          \/ /\ \A f \in read[r].found : k < f
             /\ \/ \E n \in 1..Len(read[r].todo) : read[r].todo[n] = k
                \/ row[k] = "sent" /\ \A n \in 1..Len(read[r].todo) : k < read[r].todo[n]
    /\ Reads(r, "rows") => k \in read[r].found \/ row[k] = "sent"
    /\ Reads(r, "sort") => \/ k \in Page(r)
                           \/ /\ Cardinality(Page(r)) = PageSize
                              /\ \A j \in Page(r) : k < j

ReaderInv(r) ==
    /\ read[r].pc \in {"receipt", "reset"} => read[r].found \subseteq accepted
    /\ read[r].pc \in {"hot", "rows"} => Cardinality(read[r].found) < PageSize
    /\ read[r].pc \in {"hot", "rows", "sort"} => read[r].start \subseteq accepted
    /\ LoadsInOrder(r)
    /\ read[r].after = 0 /\ read[r].redis = "up" =>
          \A k \in read[r].start \ doomed : Wanted(r, k) => WillBeShown(r, k)

ChatInv ==
    /\ ChatTypes
    /\ SendsInOrder
    /\ IndexInv
    /\ CopiesInv
    /\ \A r \in Reader : ReaderInv(r)
    /\ ReceiptCoversUnread

LEMMA ChatNumbers == PageSize \in Nat /\ 0 < PageSize /\ MaxIds \in Nat
  BY ChatAssumption

LEMMA NoRequestType == NoRequest \in ChatRequest /\ NoRequest.pc = "idle"
  BY DEF NoRequest, ReaderAt, ChatRequest, ChatSteps

LEMMA ChatInvInit == ChatInit => ChatInv
<1> SUFFICES ASSUME ChatInit PROVE ChatInv
  OBVIOUS
<1>1. ChatTypes
  BY NoRequestType, ChatNumbers DEF ChatInit, ChatTypes, SendTypes, StoreTypes, Statuses
<1>2. SendsInOrder /\ IndexInv /\ CopiesInv
  BY DEF ChatInit, SendsInOrder, IndexInv, CopiesInv
<1>3. \A r \in Reader : ReaderInv(r)
  BY NoRequestType DEF ChatInit, ReaderInv, LoadsInOrder, WillBeShown, Reads
<1>4. ReceiptCoversUnread
  <2>1. Above(accepted, cursor) = {}
    BY DEF ChatInit, Above
  <2>2. QED
    BY SMTT(30), <2>1, FS_EmptySet DEF ChatInit, ReceiptCoversUnread
<1>5. QED
  BY <1>1, <1>2, <1>3, <1>4 DEF ChatInv

\* A reader that does nothing is not disturbed by what others do, as long as rows of
\* messages nobody deletes stay and the index is only added to.
LEMMA ReaderKept ==
    ASSUME ChatInv, NEW r \in Reader, read'[r] = read[r],
           accepted \subseteq accepted', doomed \subseteq doomed',
           \A k \in accepted \ doomed' : row[k] = "sent" => row'[k] = "sent",
           Len(index') \in Nat, Len(index) =< Len(index'),
           \A n \in 1..Len(index) : index'[n] = index[n]
    PROVE  ReaderInv(r)'
<1>1. Reads(r, "hot")' = Reads(r, "hot") /\ Reads(r, "rows")' = Reads(r, "rows")
      /\ Reads(r, "sort")' = Reads(r, "sort") /\ Page(r)' = Page(r)
  BY DEF Reads, Page, Highest, Above
<1>2. LoadsInOrder(r)'
  BY SMTT(30) DEF ChatInv, ChatTypes, StoreTypes, ChatRequest, ReaderInv, LoadsInOrder, Reads
<1>3. ASSUME NEW k \in read[r].start \ doomed', read[r].pc \in {"hot", "rows", "sort"},
             WillBeShown(r, k)
      PROVE  WillBeShown(r, k)'
  <2>1. k \in accepted \ doomed'
    BY <1>3 DEF ChatInv, ReaderInv
  <2>2. row[k] = "sent" => row'[k] = "sent"
    BY <2>1
  <2>3. QED
    BY <1>1, <1>3, <2>2 DEF WillBeShown
<1>4. ASSUME NEW k \in read[r].start \ doomed', read[r].pc \notin {"hot", "rows", "sort"}
      PROVE  WillBeShown(r, k)'
  BY <1>4 DEF WillBeShown, Reads
<1>5. QED
  BY <1>2, <1>3, <1>4 DEF ChatInv, ReaderInv, Wanted

LEMMA ReaderIdle ==
    ASSUME NEW r \in Reader, read'[r].pc = "idle"
    PROVE  ReaderInv(r)'
  BY DEF ReaderInv, LoadsInOrder, WillBeShown, Reads

\* The counter is right as long as nothing it is about changes.
LEMMA UnreadKept ==
    ASSUME ChatInv, UNCHANGED <<accepted, unread, cursor, broken>>,
           \A r \in Reader : Reads(r, "reset") => Reads(r, "reset")'
    PROVE  ReceiptCoversUnread'
  BY DEF ChatInv, ReceiptCoversUnread, Above
-----------------------------------------------------------------------------
LEMMA BuildMessageKeeps ==
    ASSUME ChatInv, NEW s \in Sender, BuildMessage(s)
    PROVE  ChatInv'
<1>1. PICK c \in Nat : client' = Append(client, c)
  BY DEF BuildMessage, ChatInv, ChatTypes, SendTypes, Id
<1>2. /\ writing[s] = 0 /\ Len(client) < MaxIds
      /\ writing' = [writing EXCEPT ![s] = Len(client')]
      /\ UNCHANGED <<accepted, index, hot, row, queue, doomed, deleting, unread, cursor,
                     broken, read>>
  BY DEF BuildMessage, storeVars, countVars
<1>3. /\ client' \in Seq(Nat) /\ Len(client') = Len(client) + 1
      /\ Len(client) \in Nat /\ accepted \subseteq 1..Len(client)
  BY <1>1 DEF ChatInv, ChatTypes, SendTypes
<1>4. ChatTypes'
  BY <1>2, <1>3, ChatNumbers DEF ChatInv, ChatTypes, SendTypes, StoreTypes, ChatRequest
<1>5. SendsInOrder'
  BY <1>2, <1>3 DEF ChatInv, ChatTypes, SendTypes, SendsInOrder
<1>6. IndexInv' /\ CopiesInv'
  BY <1>2 DEF ChatInv, IndexInv, CopiesInv, Indexed, Queued
<1>7. ASSUME NEW r \in Reader PROVE ReaderInv(r)'
  <2>1. Len(index) \in Nat
    BY DEF ChatInv, ChatTypes, StoreTypes
  <2>2. QED
    BY <1>2, <2>1, ReaderKept
<1>8. ReceiptCoversUnread'
  BY <1>2, UnreadKept DEF Reads
<1>9. QED
  BY <1>4, <1>5, <1>6, <1>7, <1>8 DEF ChatInv

\* A message that has failed, or repeats another one, is forgotten.
LEMMA MessageForgotten ==
    ASSUME ChatInv, NEW s \in Sender,
           writing' = [writing EXCEPT ![s] = 0],
           UNCHANGED <<client, accepted, index, hot, row, queue, doomed, deleting, unread,
                       cursor, broken, read>>
    PROVE  ChatInv'
<1>1. ChatTypes'
  BY DEF ChatInv, ChatTypes, SendTypes, StoreTypes, ChatRequest
<1>2. SendsInOrder'
  BY DEF ChatInv, ChatTypes, SendTypes, SendsInOrder
<1>3. IndexInv' /\ CopiesInv'
  BY DEF ChatInv, IndexInv, CopiesInv, Indexed, Queued
<1>4. ASSUME NEW r \in Reader PROVE ReaderInv(r)'
  <2>1. Len(index) \in Nat
    BY DEF ChatInv, ChatTypes, StoreTypes
  <2>2. QED
    BY <2>1, ReaderKept
<1>5. ReceiptCoversUnread'
  BY UnreadKept DEF Reads
<1>6. QED
  BY <1>1, <1>2, <1>3, <1>4, <1>5 DEF ChatInv

\* The message is newer than all that have been accepted, and than the receipt, so
\* that the counter and the messages it may count grow by one.
LEMMA WriteHotKeeps ==
    ASSUME InOrder, ChatInv, NEW s \in Sender, WriteHot(s)
    PROVE  ChatInv'
<1> DEFINE k == writing[s]
<1>1. /\ k # 0 /\ \A t \in Sender : writing[t] \in {0} \cup (k..MaxIds)
      /\ writing' = [writing EXCEPT ![s] = 0]
      /\ UNCHANGED <<client, row, doomed, deleting, cursor, broken, read>>
  BY DEF WriteHot
<1>2. CASE UNCHANGED <<accepted, index, hot, queue, unread>>
  BY <1>1, <1>2, MessageForgotten
<1>3. CASE /\ accepted' = accepted \cup {k}
           /\ index' = Append(index, k)
           /\ hot' = [hot EXCEPT ![k] = "sent"]
           /\ queue' = Append(queue, <<k, "sent">>)
           /\ unread' = unread + 1
  <2>1. /\ k \in Nat /\ k \in 1..Len(client) /\ k \in 1..MaxIds
        /\ \A j \in accepted : j \in 1..MaxIds /\ j < k
    BY <1>1, ChatNumbers DEF ChatInv, ChatTypes, SendTypes, SendsInOrder
  <2> HIDE DEF k
  <2>2. ChatTypes'
    BY SMTT(30), <1>1, <1>3, <2>1 DEF ChatInv, ChatTypes, SendTypes, StoreTypes, ChatRequest,
                                          Statuses
  <2>3. SendsInOrder'
    <3>1. cursor' \in accepted' \cup {0}
      BY <1>1, <1>3 DEF ChatInv, SendsInOrder
    <3>2. ASSUME NEW t \in Sender, writing'[t] # 0
          PROVE  /\ writing'[t] = writing[t] /\ writing[t] # 0 /\ k < writing[t]
      <4>1. t # s /\ writing'[t] = writing[t] /\ writing[t] # 0
        BY <1>1, <3>2 DEF ChatInv, ChatTypes, SendTypes
      <4>2. writing[t] # k
        BY <1>1, <4>1 DEF ChatInv, SendsInOrder, k
      <4>3. QED
        BY <1>1, <2>1, <4>1, <4>2, ChatNumbers
    <3>3. ASSUME NEW t \in Sender PROVE writing'[t] =< Len(client')
      BY <1>1 DEF ChatInv, ChatTypes, SendTypes, SendsInOrder
    <3>4. QED
      BY <1>1, <1>3, <2>1, <3>1, <3>2, <3>3 DEF ChatInv, SendsInOrder
  <2>4. IndexInv'
    <3>1. Len(index) \in Nat /\ Len(index') = Len(index) + 1 /\ index'[Len(index) + 1] = k
          /\ \A n \in 1..Len(index) : index'[n] = index[n]
          /\ DOMAIN index = 1..Len(index) /\ DOMAIN index' = 1..(Len(index) + 1)
      BY <1>3, <2>1 DEF ChatInv, ChatTypes, StoreTypes
    <3>2. \A n \in DOMAIN index' : index'[n] \in accepted'
      BY <1>3, <3>1 DEF ChatInv, IndexInv
    <3>3. \A m, n \in DOMAIN index' : m < n => index'[m] < index'[n]
      BY <2>1, <3>1 DEF ChatInv, IndexInv
    <3>4. ASSUME NEW j \in accepted'
          PROVE  Indexed(j)' \/ (row'[j] # "none" /\ \A n \in DOMAIN index' : j < index'[n])
      <4>1. CASE j = k
        BY <3>1, <4>1 DEF Indexed
      <4>2. CASE Indexed(j)
        BY <3>1, <4>2 DEF Indexed
      <4>3. CASE j \in accepted /\ ~Indexed(j)
        <5>1. row[j] # "none" /\ (\A n \in DOMAIN index : j < index[n]) /\ j < k
          BY <2>1, <4>3 DEF ChatInv, IndexInv
        <5>2. QED
          BY <1>1, <3>1, <5>1
      <4>4. QED
        BY <1>3, <4>1, <4>2, <4>3
    <3>5. QED
      BY <3>2, <3>3, <3>4 DEF IndexInv
  <2>5. CopiesInv'
    <3>1. Len(queue) \in Nat /\ Len(queue') = Len(queue) + 1
          /\ queue'[Len(queue) + 1] = <<k, "sent">>
          /\ \A n \in 1..Len(queue) : queue'[n] = queue[n]
          /\ DOMAIN queue = 1..Len(queue) /\ DOMAIN queue' = 1..(Len(queue) + 1)
      BY <1>3, <2>1 DEF ChatInv, ChatTypes, StoreTypes
    <3>2. hot'[k] = "sent" /\ \A j \in 1..MaxIds : j # k => hot'[j] = hot[j]
      BY <1>3, <2>1 DEF ChatInv, ChatTypes, StoreTypes
    <3>3. k \notin accepted /\ row[k] = "none"
      BY <2>1 DEF ChatInv, CopiesInv
    <3>4. ASSUME NEW j \in accepted' PROVE row'[j] # "none" \/ Queued(j)'
      <4>1. CASE j = k
        BY <3>1, <4>1 DEF Queued
      <4>2. CASE j \in accepted
        BY <1>1, <3>1, <4>2 DEF ChatInv, CopiesInv, Queued
      <4>3. QED
        BY <1>3, <4>1, <4>2
    <3>5. \A n \in DOMAIN queue' : /\ queue'[n][1] \in accepted'
                                   /\ queue'[n][1] \notin doomed' => queue'[n][2] = "sent"
      BY <1>1, <1>3, <3>1 DEF ChatInv, CopiesInv
    <3>6. \A j \in accepted' \ doomed' :
             row'[j] # "deleted" /\ hot'[j] # "deleted" /\ (hot'[j] = "none" => row'[j] # "none")
      BY <1>1, <1>3, <2>1, <3>2, <3>3 DEF ChatInv, CopiesInv
    <3>7. \A j \in 1..MaxIds : j \notin accepted' => row'[j] = "none" /\ hot'[j] = "none"
      BY <1>1, <1>3, <2>1, <3>2 DEF ChatInv, CopiesInv
    <3>8. QED
      BY <3>4, <3>5, <3>6, <3>7 DEF CopiesInv
  <2>6. ASSUME NEW r \in Reader PROVE ReaderInv(r)'
    <3>1. /\ Len(index') \in Nat /\ Len(index) =< Len(index')
          /\ \A n \in 1..Len(index) : index'[n] = index[n]
      BY <1>3, <2>1 DEF ChatInv, ChatTypes, StoreTypes
    <3>2. accepted \subseteq accepted'
      BY <1>3
    <3>3. QED
      BY <1>1, <3>1, <3>2, ReaderKept
  <2>7. ReceiptCoversUnread'
    <3>1. cursor \in Nat /\ cursor < k /\ k \notin accepted /\ accepted \subseteq 0..MaxIds
      BY <2>1 DEF ChatInv, SendsInOrder
    <3>2. Above(accepted', cursor') = Above(accepted, cursor) \cup {k}
      BY <1>1, <1>3, <3>1 DEF Above
    <3>3. /\ IsFiniteSet(Above(accepted, cursor)) /\ k \notin Above(accepted, cursor)
          /\ Cardinality(Above(accepted, cursor)) \in Nat
      BY <3>1, AboveSubset, Bounded, ChatNumbers
    <3>4. Cardinality(Above(accepted', cursor')) = Cardinality(Above(accepted, cursor)) + 1
      BY <3>2, <3>3, FS_AddElement
    <3>5. QED
      BY <1>1, <1>3, <3>3, <3>4
         DEF ChatInv, ReceiptCoversUnread, Reads, ChatTypes, SendTypes
  <2>8. QED
    BY <2>2, <2>3, <2>4, <2>5, <2>6, <2>7 DEF ChatInv
<1>4. QED
  BY <1>2, <1>3 DEF WriteHot
-----------------------------------------------------------------------------
\* Nothing changes but copies of messages and the events queued.
LEMMA CopiesChange ==
    ASSUME ChatInv,
           UNCHANGED <<client, writing, accepted, index, unread, cursor, broken, read>>,
           doomed \subseteq doomed', \A k \in accepted : row[k] # "none" => row'[k] # "none",
           \A k \in accepted \ doomed' : row[k] = "sent" => row'[k] = "sent",
           StoreTypes', CopiesInv'
    PROVE  ChatInv'
<1>1. ChatTypes' /\ SendsInOrder'
  BY DEF ChatInv, ChatTypes, SendTypes, ChatRequest, SendsInOrder
<1>2. IndexInv'
  BY DEF ChatInv, IndexInv, Indexed
<1>3. ASSUME NEW r \in Reader PROVE ReaderInv(r)'
  <2>1. Len(index) \in Nat
    BY DEF ChatInv, ChatTypes, StoreTypes
  <2>2. QED
    BY <2>1, ReaderKept
<1>4. ReceiptCoversUnread'
  BY UnreadKept DEF Reads
<1>5. QED
  BY <1>1, <1>2, <1>3, <1>4 DEF ChatInv

LEMMA DeleteHotKeeps ==
    ASSUME ChatInv, NEW k \in Id, DeleteHot(k)
    PROVE  ChatInv'
<1>1. /\ hot[k] # "none" \/ row[k] # "none"
      /\ hot' = [hot EXCEPT ![k] = "deleted"]
      /\ doomed' = doomed \cup {k} /\ deleting' = deleting \cup {k}
      /\ UNCHANGED <<client, writing, accepted, index, row, queue, unread, cursor, broken, read>>
  BY DEF DeleteHot, sendVars, countVars
<1>2. k \in 1..MaxIds /\ k \in accepted
  <2>1. k \in 1..MaxIds
    BY ChatNumbers DEF ChatInv, ChatTypes, SendTypes, Id
  <2>2. QED
    BY <1>1, <2>1 DEF ChatInv, CopiesInv
<1>3. StoreTypes'
  BY <1>1, <1>2 DEF ChatInv, ChatTypes, StoreTypes, Statuses
<1>4. CopiesInv'
  <2>1. hot'[k] = "deleted" /\ \A j \in 1..MaxIds : j # k => hot'[j] = hot[j]
    BY <1>1, <1>2 DEF ChatInv, ChatTypes, StoreTypes
  <2>2. accepted \subseteq 1..MaxIds
    BY ChatNumbers DEF ChatInv, ChatTypes, SendTypes
  <2>3. QED
    BY <1>1, <1>2, <2>1, <2>2 DEF ChatInv, CopiesInv, Queued
<1>5. QED
  BY <1>1, <1>3, <1>4, CopiesChange

LEMMA QueueDeleteKeeps ==
    ASSUME ChatInv, NEW k \in Id, QueueDelete(k)
    PROVE  ChatInv'
<1>1. /\ k \in deleting /\ deleting' = deleting \ {k}
      /\ queue' \in {queue, Append(queue, <<k, "deleted">>)}
      /\ UNCHANGED <<client, writing, accepted, index, hot, row, doomed, unread, cursor,
                     broken, read>>
  BY DEF QueueDelete, sendVars, countVars
<1>2. k \in 1..MaxIds /\ k \in doomed /\ k \in accepted
  BY <1>1, ChatNumbers DEF ChatInv, ChatTypes, SendTypes, StoreTypes
<1>3. StoreTypes'
  <2> DEFINE Event == (1..MaxIds) \X {"sent", "deleted"}
  <2>1. <<k, "deleted">> \in Event /\ queue \in Seq(Event)
    BY <1>2 DEF ChatInv, ChatTypes, StoreTypes
  <2>2. queue' \in Seq(Event)
    <3> HIDE DEF Event
    <3>1. Append(queue, <<k, "deleted">>) \in Seq(Event)
      BY <2>1
    <3>2. QED
      BY <1>1, <2>1, <3>1
  <2>3. QED
    BY <1>1, <2>2 DEF ChatInv, ChatTypes, StoreTypes
<1>4. CopiesInv'
  <2>1. CASE queue' = queue
    BY <1>1, <2>1 DEF ChatInv, CopiesInv, Queued
  <2>2. CASE queue' = Append(queue, <<k, "deleted">>)
    <3>1. /\ Len(queue) \in Nat /\ queue'[Len(queue) + 1] = <<k, "deleted">>
          /\ \A n \in 1..Len(queue) : queue'[n] = queue[n]
          /\ DOMAIN queue = 1..Len(queue) /\ DOMAIN queue' = 1..(Len(queue) + 1)
      BY <2>2, <1>2 DEF ChatInv, ChatTypes, StoreTypes
    <3>2. \A j : Queued(j) => Queued(j)'
      BY <3>1 DEF Queued
    <3>3. \A n \in DOMAIN queue' : /\ queue'[n][1] \in accepted'
                                   /\ queue'[n][1] \notin doomed' => queue'[n][2] = "sent"
      BY <1>1, <1>2, <3>1 DEF ChatInv, CopiesInv
    <3>4. QED
      BY <1>1, <3>2, <3>3 DEF ChatInv, CopiesInv
  <2>3. QED
    BY <1>1, <2>1, <2>2
<1>5. QED
  BY <1>1, <1>3, <1>4, CopiesChange

LEMMA PersistKeeps ==
    ASSUME ChatInv, Persist
    PROVE  ChatInv'
<1>1. PICK k \in 1..MaxIds, status \in {"sent", "deleted"} :
         queue # <<>> /\ Head(queue) = <<k, status>> /\ queue[1] = <<k, status>>
  <2>1. queue # <<>> /\ queue \in Seq((1..MaxIds) \X {"sent", "deleted"})
    BY DEF Persist, ChatInv, ChatTypes, StoreTypes
  <2>2. Head(queue) = queue[1] /\ Head(queue) \in (1..MaxIds) \X {"sent", "deleted"}
    BY <2>1
  <2>3. QED
    BY <2>1, <2>2
<1>2. /\ row' = [row EXCEPT ![k] = IF row[k] = "deleted" THEN row[k] ELSE status]
      /\ queue' = Tail(queue)
      /\ UNCHANGED <<client, writing, accepted, index, hot, doomed, deleting, unread, cursor,
                     broken, read>>
  <2>1. Head(queue)[1] = k /\ Head(queue)[2] = status
    BY <1>1
  <2>2. QED
    BY <2>1 DEF Persist, sendVars, countVars
<1>3. StoreTypes'
  BY <1>1, <1>2 DEF ChatInv, ChatTypes, StoreTypes, Statuses
<1>4. /\ row'[k] = IF row[k] = "deleted" THEN row[k] ELSE status
      /\ \A j \in 1..MaxIds : j # k => row'[j] = row[j]
  BY <1>2 DEF ChatInv, ChatTypes, StoreTypes
<1>5. /\ Len(queue) \in Nat /\ 1 =< Len(queue) /\ DOMAIN queue = 1..Len(queue)
      /\ DOMAIN queue' = 1..(Len(queue) - 1)
      /\ \A n \in 1..(Len(queue) - 1) : queue'[n] = queue[n + 1]
  BY <1>1, <1>2 DEF ChatInv, ChatTypes, StoreTypes
<1>6. k \in accepted /\ (k \notin doomed => status = "sent" /\ row[k] # "deleted")
  <2>1. 1 \in DOMAIN queue /\ queue[1][1] = k /\ queue[1][2] = status
    BY <1>1, <1>5
  <2>2. QED
    BY <2>1 DEF ChatInv, CopiesInv
<1>7. accepted \subseteq 1..MaxIds
  BY ChatNumbers DEF ChatInv, ChatTypes, SendTypes
<1>8. CopiesInv'
  <2>1. ASSUME NEW j \in accepted PROVE row'[j] # "none" \/ Queued(j)'
    <3>1. CASE j = k
      BY <1>4, <3>1
    <3>2. CASE j # k /\ Queued(j)
      <4>1. PICK n \in DOMAIN queue : queue[n][1] = j
        BY <3>2 DEF Queued
      <4>2. n # 1
        BY <1>1, <3>2, <4>1
      <4>3. n - 1 \in DOMAIN queue' /\ queue'[n - 1] = queue[n]
        BY <1>5, <4>1, <4>2
      <4>4. QED
        BY <4>1, <4>3 DEF Queued
    <3>3. CASE j # k /\ row[j] # "none"
      BY <1>4, <1>7, <3>3
    <3>4. QED
      BY <3>1, <3>2, <3>3 DEF ChatInv, CopiesInv
  <2>2. \A n \in DOMAIN queue' : /\ queue'[n][1] \in accepted'
                                 /\ queue'[n][1] \notin doomed' => queue'[n][2] = "sent"
    BY <1>2, <1>5 DEF ChatInv, CopiesInv
  <2>3. ASSUME NEW j \in accepted \ doomed
        PROVE  /\ row'[j] # "deleted" /\ hot'[j] # "deleted"
               /\ hot'[j] = "none" => row'[j] # "none"
    BY <1>2, <1>4, <1>6, <1>7 DEF ChatInv, CopiesInv
  <2>4. \A j \in 1..MaxIds : j \notin accepted => row'[j] = "none" /\ hot'[j] = "none"
    BY <1>2, <1>4, <1>6 DEF ChatInv, CopiesInv
  <2>5. QED
    BY <1>2, <2>1, <2>2, <2>3, <2>4 DEF CopiesInv
<1>9. /\ \A j \in accepted : row[j] # "none" => row'[j] # "none"
      /\ \A j \in accepted \ doomed : row[j] = "sent" => row'[j] = "sent"
  BY <1>4, <1>6, <1>7
<1>10. QED
  BY <1>2, <1>3, <1>8, <1>9, CopiesChange

\* When all is settled, everything that has been accepted has a row.
LEMMA SettledInRows ==
    ASSUME ChatInv, Settled
    PROVE  \A k \in accepted : row[k] # "none"
  BY DEF Settled, ChatInv, CopiesInv, Queued

LEMMA ExpireMessageKeeps ==
    ASSUME ChatInv, NEW k \in Id, ExpireMessage(k)
    PROVE  ChatInv'
<1>1. /\ Settled /\ hot' = [hot EXCEPT ![k] = "none"]
      /\ UNCHANGED <<client, writing, accepted, index, row, queue, doomed, deleting, unread,
                     cursor, broken, read>>
  BY DEF ExpireMessage, sendVars, countVars
<1>2. k \in 1..MaxIds /\ accepted \subseteq 1..MaxIds
  BY ChatNumbers DEF ChatInv, ChatTypes, SendTypes, Id
<1>3. StoreTypes'
  BY <1>1, <1>2 DEF ChatInv, ChatTypes, StoreTypes, Statuses
<1>4. CopiesInv'
  <2>1. hot'[k] = "none" /\ \A j \in 1..MaxIds : j # k => hot'[j] = hot[j]
    BY <1>1, <1>2 DEF ChatInv, ChatTypes, StoreTypes
  <2>2. QED
    BY <1>1, <1>2, <2>1, SettledInRows DEF ChatInv, CopiesInv, Queued
<1>5. QED
  BY <1>1, <1>3, <1>4, CopiesChange

LEMMA ExpireConversationKeeps ==
    ASSUME ChatInv, ExpireConversation
    PROVE  ChatInv'
<1>1. /\ Settled /\ index' = <<>> /\ unread' = 0
      /\ UNCHANGED <<client, writing, accepted, hot, row, queue, doomed, deleting, cursor,
                     broken, read>>
  BY DEF ExpireConversation, sendVars
<1>2. ChatTypes' /\ SendsInOrder' /\ CopiesInv'
  BY <1>1 DEF ChatInv, ChatTypes, SendTypes, StoreTypes, ChatRequest, SendsInOrder, CopiesInv,
              Queued
<1>3. IndexInv'
  BY <1>1, SettledInRows DEF IndexInv
<1>4. \A r \in Reader : ReaderInv(r)'
  BY <1>1, ReaderIdle DEF Settled
<1>5. ReceiptCoversUnread'
  <2>1. accepted' \subseteq 0..MaxIds /\ cursor' \in Nat
    BY <1>1, ChatNumbers DEF ChatInv, ChatTypes, SendTypes
  <2>2. Cardinality(Above(accepted', cursor')) \in Nat
    BY <2>1, AboveSubset, ChatNumbers
  <2>3. QED
    BY <1>1, <2>2 DEF ReceiptCoversUnread
<1>6. QED
  BY <1>2, <1>3, <1>4, <1>5 DEF ChatInv
-----------------------------------------------------------------------------
\* A reader takes a step and nothing else changes but the counter and the receipt.
LEMMA ReaderSteps ==
    ASSUME ChatInv, NEW r \in Reader, NEW request \in ChatRequest, ReaderGoes(r, request),
           UNCHANGED <<client, writing, accepted, storeVars>>,
           unread' \in Nat, cursor' \in accepted \cup {0}, broken' \in {"no", "yes"},
           ReaderInv(r)', ReceiptCoversUnread'
    PROVE  ChatInv'
<1>1. /\ read' = [read EXCEPT ![r] = request]
      /\ UNCHANGED <<index, hot, row, queue, doomed, deleting>>
  BY DEF ReaderGoes, storeVars
<1>2. cursor' \in Nat
  BY DEF ChatInv, ChatTypes, SendTypes
<1>3. read' \in [Reader -> ChatRequest]
  BY <1>1 DEF ChatInv, ChatTypes
<1>4. ChatTypes'
  BY <1>1, <1>2, <1>3 DEF ChatInv, ChatTypes, SendTypes, StoreTypes, ChatRequest
<1>5. SendsInOrder' /\ IndexInv' /\ CopiesInv'
  BY <1>1 DEF ChatInv, SendsInOrder, IndexInv, CopiesInv, Indexed, Queued
<1>6. ASSUME NEW q \in Reader, q # r PROVE ReaderInv(q)'
  <2>1. read'[q] = read[q] /\ Len(index) \in Nat
    BY <1>1, <1>6 DEF ChatInv, ChatTypes, StoreTypes
  <2>2. QED
    BY <1>1, <2>1, ReaderKept
<1>7. QED
  BY <1>4, <1>5, <1>6 DEF ChatInv

\* The same for a step of a request for the history.
LEMMA HistorySteps ==
    ASSUME ChatInv, NEW r \in Reader, NEW request \in ChatRequest, ReaderGoes(r, request),
           UNCHANGED <<client, writing, accepted, storeVars, countVars>>,
           ~Reads(r, "reset"), ReaderInv(r)'
    PROVE  ChatInv'
<1>1. /\ read' = [read EXCEPT ![r] = request]
      /\ UNCHANGED <<unread, cursor, broken>>
  BY DEF ReaderGoes, countVars
<1>2. \A q \in Reader : Reads(q, "reset") => Reads(q, "reset")'
  BY <1>1 DEF Reads, ChatInv, ChatTypes
<1>3. ReceiptCoversUnread'
  BY <1>1, <1>2, UnreadKept
<1>4. unread \in Nat /\ cursor \in accepted \cup {0} /\ broken \in {"no", "yes"}
  BY DEF ChatInv, ChatTypes, SendTypes, SendsInOrder
<1>5. QED
  BY <1>1, <1>3, <1>4, ReaderSteps

LEMMA RequestOf ==
    ASSUME ChatInv, NEW r \in Reader
    PROVE  /\ read[r] \in ChatRequest
           /\ read[r].pc \in ChatSteps /\ read[r].before \in Nat /\ read[r].after \in Nat
           /\ read[r].todo \in Seq(Nat) /\ read[r].found \subseteq 1..MaxIds
           /\ read[r].start \subseteq 1..MaxIds /\ read[r].redis \in {"up", "failed"}
  BY DEF ChatInv, ChatTypes, ChatRequest

LEMMA Numbered ==
    ASSUME ChatInv
    PROVE  /\ accepted \subseteq 1..MaxIds /\ Id \subseteq 1..MaxIds /\ accepted \subseteq Id
           /\ Id \in SUBSET Nat /\ Len(client) \in Nat
  BY ChatNumbers DEF ChatInv, ChatTypes, SendTypes, Id

LEMMA BeginHistoryKeeps ==
    ASSUME ChatInv, NEW r \in Reader, NEW before \in Nat, NEW after \in Nat,
           BeginHistory(r, before, after)
    PROVE  ChatInv'
<1>1. PICK ids \in Answered(index, <<>>) :
         ReaderGoes(r, [pc |-> IF ids = <<>> THEN "rows" ELSE "hot",
                        before |-> before, after |-> after,
                        todo |-> ids, found |-> {}, start |-> {k \in accepted : k < before},
                        redis |-> IF ids = index THEN "up" ELSE "failed"])
  BY DEF BeginHistory
<1> DEFINE start   == {k \in accepted : k < before}
           request == [pc |-> IF ids = <<>> THEN "rows" ELSE "hot",
                       before |-> before, after |-> after,
                       todo |-> ids, found |-> {}, start |-> start,
                       redis |-> IF ids = index THEN "up" ELSE "failed"]
<1>2. Reads(r, "idle") /\ UNCHANGED <<client, writing, accepted, storeVars, countVars>>
      /\ UNCHANGED <<index, row, doomed>>
  BY DEF BeginHistory, sendVars, storeVars
<1>3. ids \in {index, <<>>} /\ index \in Seq(Nat) /\ ids \in Seq(Nat)
  <2>1. index \in Seq(Nat)
    BY DEF ChatInv, ChatTypes, StoreTypes
  <2>2. <<>> \in Seq(Nat)
    OBVIOUS
  <2>3. ids = index \/ ids = <<>>
    BY <1>1 DEF Answered
  <2>4. QED
    BY <2>1, <2>2, <2>3
<1>4. request \in ChatRequest
  <2>1. start \subseteq 1..MaxIds
    BY Numbered
  <2>2. QED
    BY <1>3, <2>1 DEF ChatRequest, ChatSteps
<1>5. read'[r] = request
  BY <1>1 DEF ReaderGoes, ChatInv, ChatTypes
<1>6. /\ read'[r].pc = IF ids = <<>> THEN "rows" ELSE "hot"
      /\ read'[r].todo = ids /\ read'[r].found = {} /\ read'[r].start = start
      /\ read'[r].redis = IF ids = index THEN "up" ELSE "failed"
  BY <1>5
<1> HIDE DEF request
<1>7. LoadsInOrder(r)'
  BY <1>2, <1>3, <1>6 DEF LoadsInOrder, Reads
<1>8. ASSUME NEW k \in start \ doomed', read'[r].redis = "up"
      PROVE  WillBeShown(r, k)'
  <2>1. ids = index /\ k \in accepted /\ k \notin doomed
    BY <1>2, <1>6, <1>8
  <2>2. \/ \E n \in 1..Len(index) : index[n] = k
        \/ row[k] # "none" /\ \A n \in 1..Len(index) : k < index[n]
    <3>1. DOMAIN index = 1..Len(index)
      BY <1>3
    <3>2. QED
      BY <2>1, <3>1 DEF ChatInv, IndexInv, Indexed
  <2>3. row[k] # "none" => row[k] = "sent"
    <3>1. row[k] \in Statuses /\ row[k] # "deleted"
      BY <2>1, Numbered DEF ChatInv, ChatTypes, StoreTypes, CopiesInv
    <3>2. QED
      BY <3>1 DEF Statuses
  <2>4. CASE ids = <<>>
    <3>1. row[k] = "sent"
      BY <1>3, <2>1, <2>2, <2>3, <2>4
    <3>2. QED
      BY <1>2, <1>6, <2>4, <3>1 DEF WillBeShown, Reads
  <2>5. CASE ids # <<>>
    BY <1>2, <1>6, <2>1, <2>2, <2>3, <2>5 DEF WillBeShown, Reads
  <2>6. QED
    BY <2>4, <2>5
<1>9. ReaderInv(r)'
  <2>1. Cardinality(read'[r].found) < PageSize
    BY <1>6, ChatNumbers, FS_EmptySet
  <2>2. read'[r].start \subseteq accepted'
    BY <1>2, <1>6
  <2>3. read'[r].pc \notin {"receipt", "reset"}
    BY <1>6
  <2>4. QED
    BY <1>6, <1>7, <1>8, <2>1, <2>2, <2>3 DEF ReaderInv
<1>10. ~Reads(r, "reset")
  BY <1>2 DEF Reads
<1>11. ReaderGoes(r, request)
  BY <1>1 DEF request
<1>12. QED
  BY <1>2, <1>4, <1>9, <1>10, <1>11, HistorySteps

\* The end of a request that changes neither the counter nor the receipt.
LEMMA HistoryEnds ==
    ASSUME ChatInv, NEW r \in Reader, ReaderGoes(r, NoRequest),
           UNCHANGED <<client, writing, accepted, storeVars, countVars>>,
           ~Reads(r, "reset")
    PROVE  ChatInv'
<1>1. read'[r].pc = "idle"
  BY NoRequestType DEF ReaderGoes, ChatInv, ChatTypes
<1>2. QED
  BY <1>1, ReaderIdle, NoRequestType, HistorySteps

LEMMA BeginMarkKeeps ==
    ASSUME ChatInv, NEW r \in Reader, BeginMark(r)
    PROVE  ChatInv'
<1>1. PICK latest : /\ ReaderGoes(r, ReaderAt("receipt", latest))
                    /\ latest \subseteq accepted
  <2>1. PICK ids \in {index, <<>>} :
           LET live   == {k \in Id : row[k] = "sent"}
               latest == IF ids # <<>> THEN {ids[Len(ids)]}
                         ELSE {k \in live : \A j \in live : j =< k}
           IN ReaderGoes(r, ReaderAt("receipt", latest))
    BY DEF BeginMark, Answered
  <2> DEFINE live   == {k \in Id : row[k] = "sent"}
             latest == IF ids # <<>> THEN {ids[Len(ids)]}
                       ELSE {k \in live : \A j \in live : j =< k}
  <2>2. live \subseteq accepted
    BY Numbered DEF ChatInv, CopiesInv
  <2>3. ids # <<>> => ids[Len(ids)] \in accepted
    <3>1. ids # <<>> => ids = index /\ Len(index) \in DOMAIN index
      BY <2>1 DEF ChatInv, ChatTypes, StoreTypes
    <3>2. QED
      BY <3>1 DEF ChatInv, IndexInv
  <2>4. latest \subseteq accepted
    BY <2>2, <2>3
  <2>5. QED
    BY <2>1, <2>4
<1>2. Reads(r, "idle") /\ UNCHANGED <<client, writing, accepted, storeVars, countVars>>
  BY DEF BeginMark, sendVars
<1>3. ReaderAt("receipt", latest) \in ChatRequest
  BY <1>1, Numbered DEF ReaderAt, ChatRequest, ChatSteps
<1>4. read'[r] = ReaderAt("receipt", latest)
  BY <1>1 DEF ReaderGoes, ChatInv, ChatTypes
<1>5. read'[r].pc = "receipt" /\ read'[r].found = latest
  BY <1>4 DEF ReaderAt
<1>6. ReaderInv(r)'
  BY <1>1, <1>2, <1>5 DEF ReaderInv, LoadsInOrder, WillBeShown, Reads
<1>7. ~Reads(r, "reset")
  BY <1>2 DEF Reads
<1>8. QED
  BY <1>1, <1>2, <1>3, <1>6, <1>7, HistorySteps

LEMMA StoreReceiptKeeps ==
    ASSUME ChatInv, NEW r \in Reader, StoreReceipt(r)
    PROVE  ChatInv'
<1>1. /\ Reads(r, "receipt")
      /\ cursor' \in IF read[r].found = {} THEN {0} ELSE read[r].found
      /\ ReaderGoes(r, ReaderAt("reset", read[r].found))
      /\ UNCHANGED <<client, writing, accepted, storeVars, unread, broken>>
  BY DEF StoreReceipt, sendVars
<1>2. read[r].found \subseteq accepted
  BY <1>1 DEF ChatInv, ReaderInv, Reads
<1>3. ReaderAt("reset", read[r].found) \in ChatRequest
  BY RequestOf DEF ReaderAt, ChatRequest, ChatSteps
<1>4. read'[r] = ReaderAt("reset", read[r].found)
  BY <1>1 DEF ReaderGoes, ChatInv, ChatTypes
<1>5. read'[r].pc = "reset" /\ read'[r].found = read[r].found
  BY <1>4 DEF ReaderAt
<1>6. ReaderInv(r)'
  BY <1>1, <1>2, <1>5 DEF ReaderInv, LoadsInOrder, WillBeShown, Reads
<1>7. cursor' \in accepted \cup {0} /\ unread' \in Nat /\ broken' \in {"no", "yes"}
  BY <1>1, <1>2 DEF ChatInv, ChatTypes, SendTypes
<1>8. ReceiptCoversUnread'
  BY <1>5 DEF ReceiptCoversUnread, Reads
<1>9. QED
  BY <1>1, <1>3, <1>6, <1>7, <1>8, ReaderSteps

LEMMA ResetUnreadKeeps ==
    ASSUME ChatInv, NEW r \in Reader, ResetUnread(r)
    PROVE  ChatInv'
<1>1. /\ unread' = 0 /\ ReaderGoes(r, NoRequest)
      /\ UNCHANGED <<client, writing, accepted, storeVars, cursor, broken>>
  BY DEF ResetUnread, sendVars
<1>2. read'[r].pc = "idle"
  BY <1>1, NoRequestType DEF ReaderGoes, ChatInv, ChatTypes
<1>3. ReceiptCoversUnread'
  <2>1. accepted' \subseteq 0..MaxIds /\ cursor' \in Nat
    BY <1>1, Numbered DEF ChatInv, ChatTypes, SendTypes
  <2>2. Cardinality(Above(accepted', cursor')) \in Nat
    BY <2>1, AboveSubset, ChatNumbers
  <2>3. QED
    BY <1>1, <2>2 DEF ReceiptCoversUnread
<1>4. cursor' \in accepted \cup {0} /\ broken' \in {"no", "yes"}
  BY <1>1 DEF ChatInv, ChatTypes, SendTypes, SendsInOrder
<1>5. QED
  BY <1>1, <1>2, <1>3, <1>4, ReaderIdle, NoRequestType, ReaderSteps

LEMMA ReaderFailsKeeps ==
    ASSUME ChatInv, NEW r \in Reader, ReaderFails(r)
    PROVE  ChatInv'
<1>1. /\ broken' = IF Reads(r, "reset") THEN "yes" ELSE broken
      /\ ReaderGoes(r, NoRequest)
      /\ UNCHANGED <<client, writing, accepted, storeVars, unread, cursor>>
  BY DEF ReaderFails, sendVars
<1>2. CASE Reads(r, "reset")
  <2>1. read'[r].pc = "idle"
    BY <1>1, NoRequestType DEF ReaderGoes, ChatInv, ChatTypes
  <2>2. ReceiptCoversUnread'
    BY <1>1, <1>2 DEF ReceiptCoversUnread
  <2>3. unread' \in Nat /\ cursor' \in accepted \cup {0} /\ broken' \in {"no", "yes"}
    BY <1>1 DEF ChatInv, ChatTypes, SendTypes, SendsInOrder
  <2>4. QED
    BY <1>1, <2>1, <2>2, <2>3, ReaderIdle, NoRequestType, ReaderSteps
<1>3. CASE ~Reads(r, "reset")
  BY <1>1, <1>3, HistoryEnds DEF countVars
<1>4. QED
  BY <1>2, <1>3
-----------------------------------------------------------------------------
LEMMA FrontOf ==
    ASSUME NEW ids \in Seq(Nat), 1 =< Len(ids)
    PROVE  /\ SubSeq(ids, 1, Len(ids) - 1) \in Seq(Nat)
           /\ Len(SubSeq(ids, 1, Len(ids) - 1)) = Len(ids) - 1
           /\ \A n \in 1..(Len(ids) - 1) : SubSeq(ids, 1, Len(ids) - 1)[n] = ids[n]
<1> DEFINE front == SubSeq(ids, 1, Len(ids) - 1)
<1>1. Len(ids) \in Nat /\ \A n \in 1..(Len(ids) - 1) : ids[n] \in Nat
  OBVIOUS
<1>2. front = [n \in 1..(Len(ids) - 1) |-> ids[n]]
  BY <1>1
<1> HIDE DEF front
<1>3. front \in [1..(Len(ids) - 1) -> Nat]
  BY <1>1, <1>2
<1>4. front \in Seq(Nat) /\ Len(front) = Len(ids) - 1
  BY SMTT(30), <1>1, <1>3
<1>5. QED
  BY <1>2, <1>4 DEF front

\* The id loaded is the newest of those left to load and older than what has been
\* found: a page that becomes full with it lacks only older ones.
LEMMA LoadNextKeeps ==
    ASSUME ChatInv, NEW r \in Reader, LoadNext(r)
    PROVE  ChatInv'
<1> DEFINE last == Len(read[r].todo)
           k    == read[r].todo[last]
           rest == SubSeq(read[r].todo, 1, last - 1)
<1>1. Reads(r, "hot") /\ UNCHANGED <<client, writing, accepted, storeVars, countVars>>
      /\ UNCHANGED <<index, row, doomed>>
  BY DEF LoadNext, sendVars, storeVars
<1>2. PICK copy \in {hot[k], "none"} :
         LET live  == "sent" = IF copy = "none" THEN row[k] ELSE copy
             found == IF live /\ Wanted(r, k) THEN read[r].found \cup {k} ELSE read[r].found
             pc    == IF Cardinality(found) = PageSize THEN "sort"
                      ELSE IF last = 1 THEN "rows" ELSE "hot"
         IN ReaderGoes(r, Went(read[r], pc, rest, found,
                               IF copy = hot[k] THEN read[r].redis ELSE "failed"))
  BY DEF LoadNext, Answered
<1> DEFINE live  == "sent" = IF copy = "none" THEN row[k] ELSE copy
           found == IF live /\ Wanted(r, k) THEN read[r].found \cup {k} ELSE read[r].found
           pc    == IF Cardinality(found) = PageSize THEN "sort"
                    ELSE IF last = 1 THEN "rows" ELSE "hot"
           redis == IF copy = hot[k] THEN read[r].redis ELSE "failed"
           request == Went(read[r], pc, rest, found, redis)
<1>3. ReaderGoes(r, request)
  BY <1>2
<1>4. /\ last \in Nat /\ 1 =< last /\ last =< Len(index)
      /\ read[r].todo \in Seq(Nat) /\ index \in Seq(Nat)
      /\ \A n \in 1..last : read[r].todo[n] = index[n] /\ \A f \in read[r].found : index[n] < f
  <2>1. index \in Seq(Nat)
    BY DEF ChatInv, ChatTypes, StoreTypes
  <2>2. read[r].todo \in Seq(Nat)
    BY RequestOf
  <2>3. last \in Nat
    BY <2>2
  <2>4. LoadsInOrder(r)
    BY DEF ChatInv, ReaderInv
  <2>5. QED
    BY <1>1, <2>1, <2>2, <2>3, <2>4 DEF LoadsInOrder
<1>5. k \in accepted /\ k \in 1..MaxIds /\ \A n \in 1..last : n # last => read[r].todo[n] < k
  <2>1. DOMAIN index = 1..Len(index) /\ last \in 1..Len(index) /\ 1..last \subseteq 1..Len(index)
    BY <1>4
  <2>2. /\ \A n \in DOMAIN index : index[n] \in accepted
        /\ \A m, n \in DOMAIN index : m < n => index[m] < index[n]
    BY DEF ChatInv, IndexInv
  <2> HIDE DEF last
  <2>3. last \in 1..last /\ last \in DOMAIN index /\ \A n \in 1..last : n \in DOMAIN index
    BY <1>4, <2>1
  <2>4. index[last] = k /\ index[last] \in accepted
    BY <1>4, <2>2, <2>3
  <2>5. \A n \in 1..last : n # last => n < last
    BY <1>4
  <2>6. \A n \in 1..last : n # last => index[n] < index[last]
    BY <2>2, <2>3, <2>5
  <2>7. \A n \in 1..last : n # last => read[r].todo[n] < k
    BY <1>4, <2>4, <2>6
  <2>8. QED
    BY <2>4, <2>7, Numbered
<1>6. /\ rest \in Seq(Nat) /\ Len(rest) = last - 1
      /\ \A n \in 1..(last - 1) : rest[n] = read[r].todo[n]
  BY <1>4, FrontOf
<1>7. /\ found \subseteq 1..MaxIds
      /\ read[r].found \subseteq found /\ read[r].found \subseteq 1..MaxIds
  BY <1>5, RequestOf
<1>8. pc \in ChatSteps /\ pc \in {"hot", "rows", "sort"}
  BY DEF ChatSteps
<1>9. redis \in {"up", "failed"}
  BY RequestOf
<1>10. request \in ChatRequest
  <2> HIDE DEF found, pc, redis, rest, last, k
  <2>1. QED
    BY <1>6, <1>7, <1>8, <1>9, RequestOf DEF Went, ChatRequest
<1>11. read'[r] = request
  BY <1>3 DEF ReaderGoes, ChatInv, ChatTypes
<1>12. /\ read'[r].pc = pc /\ read'[r].todo = rest /\ read'[r].found = found
       /\ read'[r].start = read[r].start /\ read'[r].before = read[r].before
       /\ read'[r].after = read[r].after /\ read'[r].redis = redis
  BY <1>11 DEF Went
<1>13. \A n \in 1..(last - 1) : rest[n] < k /\ \A f \in found : rest[n] < f
  <2>1. \A n \in 1..(last - 1) : n \in 1..last /\ n # last
    BY <1>4
  <2>2. QED
    BY <1>4, <1>5, <1>6, <2>1
<1>14. Cardinality(found) < PageSize \/ Cardinality(found) = PageSize
  <2>1. Cardinality(read[r].found) < PageSize /\ read[r].found \subseteq 0..MaxIds
    BY <1>1, RequestOf DEF ChatInv, ReaderInv, Reads
  <2>2. IsFiniteSet(read[r].found) /\ Cardinality(read[r].found) \in Nat
    BY <2>1, Bounded, ChatNumbers
  <2>3. \/ Cardinality(read[r].found \cup {k}) = Cardinality(read[r].found) + 1
        \/ Cardinality(read[r].found \cup {k}) = Cardinality(read[r].found)
    BY <2>2, FS_AddElement
  <2>4. QED
    BY <2>1, <2>2, <2>3, ChatNumbers
<1>15. \A j : Wanted(r, j)' = Wanted(r, j)
  BY <1>12 DEF Wanted
<1>16. ASSUME NEW j \in read[r].start \ doomed, Wanted(r, j), WillBeShown(r, j), copy = hot[k]
       PROVE  WillBeShown(r, j)'
  <2>1. j \in accepted /\ j \in 1..MaxIds
    BY <1>1, Numbered DEF ChatInv, ReaderInv, Reads
  <2>2. j = k => j \in found
    <3>1. j = k => row[j] # "deleted" /\ hot[j] # "deleted" /\ (hot[j] = "none" => row[j] # "none")
                   /\ hot[j] \in Statuses /\ row[j] \in Statuses
      BY <2>1 DEF ChatInv, CopiesInv, ChatTypes, StoreTypes
    <3>2. j = k => live
      BY <1>16, <3>1 DEF Statuses
    <3>3. QED
      BY <1>16, <3>2
  <2>3. \/ j \in found
        \/ /\ \A f \in found : j < f
           /\ \/ \E n \in 1..(last - 1) : rest[n] = j
              \/ row[j] = "sent" /\ \A n \in 1..(last - 1) : j < rest[n]
    <3>1. CASE j \in read[r].found
      BY <1>7, <3>1
    <3>2. CASE /\ \A f \in read[r].found : j < f
               /\ \E n \in 1..last : read[r].todo[n] = j
      <4>1. PICK n \in 1..last : read[r].todo[n] = j
        BY <3>2
      <4>2. n = last \/ (n \in 1..(last - 1) /\ rest[n] = j)
        BY <1>4, <1>6, <4>1
      <4>3. QED
        BY <1>13, <2>2, <4>1, <4>2
    <3>3. CASE /\ \A f \in read[r].found : j < f
               /\ row[j] = "sent" /\ \A n \in 1..last : j < read[r].todo[n]
      <4>1. j < k /\ \A n \in 1..(last - 1) : j < rest[n]
        BY <1>4, <1>6, <3>3
      <4>2. \A f \in found : j < f
        BY <3>3, <4>1
      <4>3. QED
        BY <3>3, <4>1, <4>2
    <3>4. QED
      BY <1>1, <1>16, <3>1, <3>2, <3>3 DEF WillBeShown
  <2> HIDE DEF found, rest, last, k, redis
  <2>4. CASE pc = "hot"
    <3>1. Len(rest) = last - 1
      BY <1>6
    <3>2. QED
      BY <1>1, <1>12, <2>3, <2>4, <3>1 DEF WillBeShown, Reads
  <2>5. CASE pc = "rows"
    <3>1. last = 1
      BY <2>5
    <3>2. j \in found \/ row[j] = "sent"
      BY <2>3, <3>1
    <3>3. QED
      BY <1>1, <1>12, <2>5, <3>2 DEF WillBeShown, Reads
  <2>6. CASE pc = "sort"
    <3>1. Cardinality(found) = PageSize
      BY <2>6
    <3>2. Page(r)' = Highest(found, PageSize)
      BY <1>12 DEF Page, Highest, Above
    <3>3. /\ found \subseteq 0..MaxIds /\ MaxIds \in Nat /\ PageSize \in Nat /\ j \in Nat
          /\ PageSize =< Cardinality(found)
      BY <1>7, <2>1, <3>1, ChatNumbers
    <3>4. \/ j \in Highest(found, PageSize)
          \/ /\ Cardinality(Highest(found, PageSize)) = PageSize
             /\ \A f \in Highest(found, PageSize) : j < f
      <4>1. CASE j \in found
        BY <3>3, <4>1, HighestOrAbove
      <4>2. CASE \A f \in found : j < f
        BY <3>3, <4>2, HighestAbove
      <4>3. QED
        BY <2>3, <4>1, <4>2
    <3>5. QED
      BY <1>12, <2>6, <3>2, <3>4 DEF WillBeShown, Reads
  <2>7. QED
    BY <1>8, <2>4, <2>5, <2>6
<1>17. LoadsInOrder(r)'
  <2>1. ASSUME pc = "hot"
        PROVE  /\ 1 =< Len(rest) /\ Len(rest) =< Len(index)
               /\ \A n \in 1..Len(rest) : rest[n] = index[n] /\ \A f \in found : index[n] < f
    <3>1. last # 1
      BY <2>1
    <3>2. \A n \in 1..(last - 1) : n \in 1..last
      BY <1>4
    <3>3. \A n \in 1..(last - 1) : rest[n] = index[n] /\ \A f \in found : index[n] < f
      BY <1>4, <1>6, <1>13, <3>2
    <3> HIDE DEF found, rest, pc, last
    <3>4. Len(rest) = last - 1 /\ 1 =< last - 1 /\ last - 1 =< Len(index)
      BY <1>4, <1>6, <3>1
    <3>5. QED
      BY <3>3, <3>4
  <2> HIDE DEF found, rest, pc
  <2>2. QED
    BY <1>1, <1>12, <2>1 DEF LoadsInOrder, Reads
<1>18. ReaderInv(r)'
  <2>1. pc \in {"hot", "rows"} => Cardinality(found) < PageSize
    BY <1>14
  <2>2. read[r].start \subseteq accepted
    BY <1>1 DEF ChatInv, ReaderInv, Reads
  <2>3. redis = "up" => copy = hot[k] /\ read[r].redis = "up"
    OBVIOUS
  <2> HIDE DEF found, rest, pc, redis
  <2>4. ASSUME read'[r].after = 0, read'[r].redis = "up",
               NEW j \in read'[r].start \ doomed', Wanted(r, j)'
        PROVE  WillBeShown(r, j)'
    <3>1. /\ read[r].after = 0 /\ read[r].redis = "up" /\ copy = hot[k]
          /\ j \in read[r].start \ doomed /\ Wanted(r, j)
      BY <1>1, <1>12, <1>15, <2>3, <2>4
    <3>2. WillBeShown(r, j)
      BY <3>1 DEF ChatInv, ReaderInv
    <3>3. QED
      BY <1>16, <3>1, <3>2
  <2>5. QED
    BY <1>1, <1>8, <1>12, <1>17, <2>1, <2>2, <2>4 DEF ReaderInv
<1>19. ~Reads(r, "reset")
  BY <1>1 DEF Reads
<1> HIDE DEF request
<1>20. QED
  BY <1>1, <1>3, <1>10, <1>18, <1>19, HistorySteps

\* Going back, a request is given the newest rows: one it is not given is older than
\* a page of them.
LEMMA ReadRowsKeeps ==
    ASSUME ChatInv, NEW r \in Reader, ReadRows(r)
    PROVE  ChatInv'
<1> DEFINE limit   == PageSize + Cardinality(read[r].found)
           found   == read[r].found \cup FirstRows(r, limit)
           request == Went(read[r], "sort", <<>>, found, read[r].redis)
<1>1. /\ Reads(r, "rows") /\ ReaderGoes(r, request)
      /\ UNCHANGED <<client, writing, accepted, storeVars, countVars>>
      /\ UNCHANGED <<row, doomed>>
  BY DEF ReadRows, sendVars, storeVars
<1>2. read[r].found \subseteq 0..MaxIds /\ read[r].found \subseteq 1..MaxIds
  BY RequestOf
<1>3. limit \in Nat /\ PageSize =< limit
  BY <1>2, Bounded, ChatNumbers
<1>4. RowsWanted(r) \subseteq 1..MaxIds /\ RowsWanted(r) \subseteq 0..MaxIds
  BY Numbered DEF RowsWanted
<1>5. FirstRows(r, limit) \subseteq RowsWanted(r)
  BY DEF FirstRows, Lowest, Highest
<1>6. found \subseteq 1..MaxIds /\ found \subseteq 0..MaxIds
  BY <1>2, <1>4, <1>5
<1> HIDE DEF limit
<1>7. request \in ChatRequest
  <2> HIDE DEF found
  <2>1. QED
    BY <1>6, RequestOf DEF Went, ChatRequest, ChatSteps
<1>8. read'[r] = request
  BY <1>1 DEF ReaderGoes, ChatInv, ChatTypes
<1>9. /\ read'[r].pc = "sort" /\ read'[r].found = found
      /\ read'[r].start = read[r].start /\ read'[r].before = read[r].before
      /\ read'[r].after = read[r].after /\ read'[r].redis = read[r].redis
  BY <1>8 DEF Went
<1> HIDE DEF request
<1>10. ASSUME NEW j \in read[r].start \ doomed, Wanted(r, j), WillBeShown(r, j),
              read[r].after = 0
       PROVE  WillBeShown(r, j)'
  <2>1. j \in accepted /\ j \in 1..MaxIds /\ j \in Id /\ j \in Nat
    BY <1>1, Numbered DEF ChatInv, ReaderInv, Reads
  <2>2. FirstRows(r, limit) = Highest(RowsWanted(r), limit)
    BY <1>10 DEF FirstRows
  <2>3. Page(r)' = Highest(found, PageSize)
    BY <1>9 DEF Page, Highest, Above
  <2>4. \/ j \in Highest(found, PageSize)
        \/ /\ Cardinality(Highest(found, PageSize)) = PageSize
           /\ \A f \in Highest(found, PageSize) : j < f
    <3>1. CASE j \in found
      <4> HIDE DEF found
      <4>1. QED
        BY <1>6, <3>1, ChatNumbers, HighestOrAbove
    <3>2. CASE j \notin found
      <4>1. j \in RowsWanted(r) /\ j \notin Highest(RowsWanted(r), limit)
        BY <1>1, <1>10, <2>1, <2>2, <3>2 DEF WillBeShown, RowsWanted
      <4>2. /\ Cardinality(Highest(RowsWanted(r), limit)) = limit
            /\ \A f \in Highest(RowsWanted(r), limit) : j < f
        BY <1>3, <1>4, <4>1, ChatNumbers, HighestOrAbove
      <4>3. Highest(RowsWanted(r), limit) \subseteq found
        BY <2>2
      <4>4. PageSize =< Cardinality(Highest(RowsWanted(r), limit))
        BY <1>3, <4>2
      <4> HIDE DEF found
      <4>5. QED
        BY <1>6, <2>1, <4>2, <4>3, <4>4, ChatNumbers, HighestAbove
    <3>3. QED
      BY <3>1, <3>2
  <2>5. QED
    BY <1>9, <2>3, <2>4 DEF WillBeShown, Reads
<1> HIDE DEF found
<1>11. read[r].start \subseteq accepted
  BY <1>1 DEF ChatInv, ReaderInv, Reads
<1>12. ASSUME read'[r].after = 0, read'[r].redis = "up",
              NEW j \in read'[r].start \ doomed', Wanted(r, j)'
       PROVE  WillBeShown(r, j)'
  <2>1. /\ read[r].after = 0 /\ read[r].redis = "up"
        /\ j \in read[r].start \ doomed /\ Wanted(r, j)
    BY <1>1, <1>9, <1>12 DEF Wanted
  <2>2. WillBeShown(r, j)
    BY <2>1 DEF ChatInv, ReaderInv
  <2>3. QED
    BY <1>10, <2>1, <2>2
<1>13. ReaderInv(r)'
  BY <1>1, <1>9, <1>11, <1>12 DEF ReaderInv, LoadsInOrder, Reads
<1>14. ~Reads(r, "reset")
  BY <1>1 DEF Reads
<1>15. QED
  BY <1>1, <1>7, <1>13, <1>14, HistorySteps

LEMMA ChatInvStep ==
    ASSUME InOrder, ChatInv, [ChatNext]_chatVars
    PROVE  ChatInv'
<1>1. ASSUME NEW s \in Sender, BuildMessage(s) \/ WriteHot(s) PROVE ChatInv'
  BY <1>1, BuildMessageKeeps, WriteHotKeeps
<1>2. ASSUME NEW s \in Sender, SendFails(s) PROVE ChatInv'
  BY <1>2, MessageForgotten DEF SendFails, storeVars, countVars
<1>3. ASSUME NEW k \in Id, DeleteHot(k) \/ QueueDelete(k) \/ ExpireMessage(k) PROVE ChatInv'
  BY <1>3, DeleteHotKeeps, QueueDeleteKeeps, ExpireMessageKeeps
<1>4. CASE Persist \/ ExpireConversation
  BY <1>4, PersistKeeps, ExpireConversationKeeps
<1>5. ASSUME NEW r \in Reader, NEW before \in Id \cup {MaxIds + 1}, BeginHistory(r, before, 0)
      PROVE  ChatInv'
  <2>1. before \in Nat /\ 0 \in Nat
    BY Numbered, ChatNumbers
  <2>2. QED
    BY <1>5, <2>1, BeginHistoryKeeps
<1>6. ASSUME NEW r \in Reader, NEW after \in Id, BeginHistory(r, MaxIds + 1, after)
      PROVE  ChatInv'
  <2>1. after \in Nat /\ MaxIds + 1 \in Nat
    BY Numbered, ChatNumbers
  <2>2. QED
    BY <1>6, <2>1, BeginHistoryKeeps
<1>7. ASSUME NEW r \in Reader, LoadNext(r) \/ ReadRows(r) PROVE ChatInv'
  BY <1>7, LoadNextKeeps, ReadRowsKeeps
<1>8. ASSUME NEW r \in Reader, ShowHistory(r) PROVE ChatInv'
  BY <1>8, HistoryEnds DEF ShowHistory, Reads, sendVars
<1>9. ASSUME NEW r \in Reader,
             BeginMark(r) \/ StoreReceipt(r) \/ ResetUnread(r) \/ ReaderFails(r)
      PROVE  ChatInv'
  BY <1>9, BeginMarkKeeps, StoreReceiptKeeps, ResetUnreadKeeps, ReaderFailsKeeps
<1>10. CASE UNCHANGED chatVars
  <2>1. UNCHANGED <<client, writing, accepted, index, hot, row, queue, doomed, deleting,
                    unread, cursor, broken, read>>
    BY <1>10 DEF chatVars, sendVars, storeVars, countVars
  <2>2. StoreTypes' /\ CopiesInv'
    BY <2>1 DEF ChatInv, ChatTypes, StoreTypes, CopiesInv, Queued
  <2>3. QED
    BY <2>1, <2>2, CopiesChange
<1>11. QED
  BY <1>1, <1>2, <1>3, <1>4, <1>5, <1>6, <1>7, <1>8, <1>9, <1>10 DEF ChatNext
-----------------------------------------------------------------------------
\* A message is accepted once for each clientMessageId: while a send of it is being
\* made, what repeats it is hot.
OncePerClient ==
    /\ client \in Seq(1..MaxIds)
    /\ \A j, k \in accepted : client[j] = client[k] => j = k
    /\ \A s \in Sender : writing[s] # 0 =>
          \A j \in accepted : client[j] = client[writing[s]] => hot[j] # "none"

LEMMA OncePerClientStep ==
    ASSUME ChatInv, OncePerClient, [ChatNext]_chatVars
    PROVE  OncePerClient'
<1>1. /\ accepted \subseteq 1..Len(client) /\ Len(client) \in Nat
      /\ accepted \subseteq 1..MaxIds /\ MaxIds \in Nat
      /\ \A s \in Sender : writing[s] \in Nat /\ writing[s] =< Len(client)
      /\ hot \in [1..MaxIds -> Statuses] /\ writing \in [Sender -> Nat]
  BY Numbered, ChatNumbers DEF ChatInv, ChatTypes, SendTypes, StoreTypes, SendsInOrder
<1>2. CASE /\ UNCHANGED <<client, accepted, writing>>
           /\ \A j \in accepted : hot[j] # "none" => hot'[j] # "none"
  BY <1>2 DEF OncePerClient
<1>3. ASSUME NEW s \in Sender, BuildMessage(s) PROVE OncePerClient'
  <2>1. PICK c \in {client[n] : n \in Id} \cup {Len(client) + 1} :
           /\ \A k \in accepted : client[k] = c => hot[k] # "none"
           /\ client' = Append(client, c)
    BY <1>3 DEF BuildMessage
  <2>2. /\ Len(client) < MaxIds /\ UNCHANGED <<accepted, hot>>
        /\ writing' = [writing EXCEPT ![s] = Len(client')]
    BY <1>3 DEF BuildMessage, storeVars
  <2>3. c \in 1..MaxIds
    BY <1>1, <2>1, <2>2 DEF Id, OncePerClient
  <2>4. /\ client' \in Seq(1..MaxIds) /\ Len(client') = Len(client) + 1
        /\ client'[Len(client) + 1] = c
        /\ \A n \in 1..Len(client) : client'[n] = client[n]
    BY <2>1, <2>3 DEF OncePerClient
  <2>5. \A j, k \in accepted : client'[j] = client'[k] => j = k
    BY <1>1, <2>4 DEF OncePerClient
  <2>6. ASSUME NEW t \in Sender, writing'[t] # 0,
               NEW j \in accepted, client'[j] = client'[writing'[t]]
        PROVE  hot[j] # "none"
    <3>1. CASE t = s
      <4>1. client[j] = c
        BY <1>1, <2>2, <2>4, <2>6, <3>1
      <4>2. QED
        BY <2>1, <4>1
    <3>2. CASE t # s
      <4>1. writing'[t] = writing[t] /\ writing[t] \in 1..Len(client)
        BY <1>1, <2>2, <2>6, <3>2
      <4>2. client[j] = client[writing[t]]
        BY <1>1, <2>4, <2>6, <4>1
      <4>3. QED
        BY <2>6, <4>1, <4>2 DEF OncePerClient
    <3>3. QED
      BY <3>1, <3>2
  <2>7. QED
    BY <2>2, <2>4, <2>5, <2>6 DEF OncePerClient
<1>4. ASSUME NEW s \in Sender, SendFails(s) PROVE OncePerClient'
  <2>1. writing' = [writing EXCEPT ![s] = 0] /\ UNCHANGED <<client, accepted, hot>>
    BY <1>4 DEF SendFails, storeVars
  <2>2. QED
    BY <1>1, <2>1 DEF OncePerClient
<1>5. ASSUME NEW s \in Sender, WriteHot(s) PROVE OncePerClient'
  <2> DEFINE k == writing[s]
  <2>1. k # 0 /\ writing' = [writing EXCEPT ![s] = 0] /\ client' = client
    BY <1>5 DEF WriteHot
  <2>2. CASE UNCHANGED <<accepted, hot>>
    BY <1>1, <2>1, <2>2 DEF OncePerClient
  <2>3. CASE /\ ~Repeats(k) /\ accepted' = accepted \cup {k}
             /\ hot' = [hot EXCEPT ![k] = "sent"]
    <3>1. k \in 1..MaxIds /\ k \in 1..Len(client)
      BY <1>1, <2>1, ChatNumbers DEF ChatInv, ChatTypes, SendTypes
    <3> HIDE DEF k
    <3>2. hot'[k] = "sent" /\ \A j \in 1..MaxIds : j # k => hot'[j] = hot[j]
      BY <1>1, <2>3, <3>1
    <3>3. \A j \in accepted : client[j] # client[k]
      BY <2>1, <2>3 DEF Repeats, OncePerClient, k
    <3>4. \A i, j \in accepted' : client[i] = client[j] => i = j
      BY <2>3, <3>3 DEF OncePerClient
    <3>5. ASSUME NEW t \in Sender, writing'[t] # 0,
                 NEW j \in accepted', client[j] = client[writing'[t]]
          PROVE  hot'[j] # "none"
      <4>1. writing'[t] = writing[t] /\ writing[t] # 0
        BY <1>1, <2>1, <3>5
      <4>2. CASE j = k
        BY <3>2, <4>2
      <4>3. CASE j # k
        <5>1. j \in accepted /\ j \in 1..MaxIds /\ hot'[j] = hot[j]
          BY <1>1, <2>3, <3>2, <4>3
        <5>2. QED
          BY <3>5, <4>1, <5>1 DEF OncePerClient
      <4>4. QED
        BY <4>2, <4>3
    <3>6. QED
      BY <2>1, <3>4, <3>5 DEF OncePerClient
  <2>4. QED
    BY <1>5, <2>2, <2>3 DEF WriteHot
<1>6. ASSUME NEW k \in Id, DeleteHot(k) PROVE OncePerClient'
  <2>1. /\ hot' = [hot EXCEPT ![k] = "deleted"]
        /\ UNCHANGED <<client, writing, accepted>>
    BY <1>6 DEF DeleteHot, sendVars
  <2>2. \A j \in accepted : hot[j] # "none" => hot'[j] # "none"
    BY <1>1, <2>1
  <2>3. QED
    BY <1>2, <2>1, <2>2
<1>7. ASSUME NEW k \in Id, ExpireMessage(k) PROVE OncePerClient'
  <2>1. UNCHANGED <<client, writing, accepted>> /\ \A s \in Sender : writing[s] = 0
    BY <1>7 DEF ExpireMessage, Settled, sendVars
  <2>2. QED
    BY <2>1 DEF OncePerClient
<1>8. ASSUME NEW k \in Id, QueueDelete(k) PROVE OncePerClient'
  BY <1>2, <1>8 DEF QueueDelete, sendVars
<1>9. CASE Persist \/ ExpireConversation
  BY <1>2, <1>9 DEF Persist, ExpireConversation, sendVars
<1>10. ASSUME NEW r \in Reader, NEW before, NEW after, BeginHistory(r, before, after)
       PROVE OncePerClient'
  BY <1>2, <1>10 DEF BeginHistory, sendVars, storeVars
<1>11. ASSUME NEW r \in Reader, \/ LoadNext(r) \/ ReadRows(r) \/ ShowHistory(r)
                                \/ BeginMark(r) \/ StoreReceipt(r) \/ ResetUnread(r)
                                \/ ReaderFails(r)
       PROVE  OncePerClient'
  BY <1>2, <1>11 DEF LoadNext, ReadRows, ShowHistory, BeginMark, StoreReceipt, ResetUnread,
                     ReaderFails, sendVars, storeVars
<1>12. CASE UNCHANGED chatVars
  BY <1>2, <1>12 DEF chatVars, sendVars, storeVars
<1>13. QED
  BY <1>3, <1>4, <1>5, <1>6, <1>7, <1>8, <1>9, <1>10, <1>11, <1>12 DEF ChatNext

\* The counter counts no more than has been accepted, and a request finds no more
\* than a page and the rows it asks for.
ChatBounds ==
    /\ unread =< Cardinality(accepted)
    /\ \A r \in Reader : Cardinality(read[r].found) < 3 * PageSize

LEMMA LatestCount ==
    ASSUME NEW S, S \subseteq Nat
    PROVE  Cardinality({k \in S : \A j \in S : j =< k}) \in {0, 1}
<1> DEFINE T == {k \in S : \A j \in S : j =< k}
<1>1. CASE T = {}
  BY <1>1, FS_EmptySet
<1>2. CASE T # {}
  <2>1. PICK m \in T : TRUE
    BY <1>2
  <2>2. ASSUME NEW n \in T PROVE n = m
    <3>1. n \in Nat /\ m \in Nat /\ n =< m /\ m =< n
      BY <2>1
    <3>2. QED
      BY <3>1
  <2>3. T = {m} /\ Cardinality({m}) = 1
    <3> HIDE DEF T
    <3>1. QED
      BY <2>1, <2>2, FS_Singleton
  <2>4. QED
    BY <2>3
<1>3. QED
  BY <1>1, <1>2

\* A request that has found no more than so many keeps within the bounds.
LEMMA FoundBounded ==
    ASSUME ChatInv, ChatBounds, NEW r \in Reader, NEW request, ReaderGoes(r, request),
           Cardinality(request.found) < 3 * PageSize,
           accepted' = accepted, unread' =< Cardinality(accepted)
    PROVE  ChatBounds'
<1>1. \A q \in Reader : read'[q] = IF q = r THEN request ELSE read[q]
  BY DEF ReaderGoes, ChatInv, ChatTypes
<1>2. QED
  BY <1>1 DEF ChatBounds

LEMMA ChatBoundsStep ==
    ASSUME ChatInv, ChatBounds, [ChatNext]_chatVars
    PROVE  ChatBounds'
<1>1. /\ accepted \subseteq 0..MaxIds /\ IsFiniteSet(accepted) /\ Cardinality(accepted) \in Nat
      /\ unread =< Cardinality(accepted) /\ PageSize \in Nat /\ 0 < PageSize /\ MaxIds \in Nat
      /\ \A r \in Reader : read[r].found \subseteq 0..MaxIds
  <2>1. accepted \subseteq 0..MaxIds
    BY Numbered
  <2>2. \A r \in Reader : read[r].found \subseteq 0..MaxIds
    BY RequestOf
  <2>3. QED
    BY <2>1, <2>2, Bounded, ChatNumbers DEF ChatBounds
<1>2. 0 < 3 * PageSize /\ 1 < 3 * PageSize
  BY <1>1
<1>3. CASE UNCHANGED <<accepted, unread, read>>
  BY <1>3 DEF ChatBounds
<1>4. ASSUME NEW s \in Sender, WriteHot(s) PROVE ChatBounds'
  <2>1. CASE UNCHANGED <<accepted, unread>>
    BY <1>4, <2>1 DEF WriteHot, ChatBounds
  <2>2. CASE accepted' = accepted \cup {writing[s]} /\ unread' = unread + 1
    <3>1. writing[s] \notin accepted
      <4>1. writing[s] # 0 /\ writing[s] \in Nat
        BY <1>4 DEF WriteHot, ChatInv, ChatTypes, SendTypes
      <4>2. QED
        BY <4>1 DEF ChatInv, SendsInOrder
    <3>2. Cardinality(accepted') = Cardinality(accepted) + 1
      BY <1>1, <2>2, <3>1, FS_AddElement
    <3>3. unread' =< Cardinality(accepted')
      BY <1>1, <2>2, <3>2 DEF ChatInv, ChatTypes, SendTypes
    <3>4. QED
      BY <1>4, <3>3 DEF WriteHot, ChatBounds
  <2>3. QED
    BY <1>4, <2>1, <2>2 DEF WriteHot
<1>5. ASSUME NEW s \in Sender, BuildMessage(s) \/ SendFails(s) PROVE ChatBounds'
  BY <1>3, <1>5 DEF BuildMessage, SendFails, countVars
<1>6. ASSUME NEW k \in Id, DeleteHot(k) \/ QueueDelete(k) \/ ExpireMessage(k)
      PROVE  ChatBounds'
  BY <1>3, <1>6 DEF DeleteHot, QueueDelete, ExpireMessage, sendVars, countVars
<1>7. CASE Persist
  BY <1>3, <1>7 DEF Persist, sendVars, countVars
<1>8. CASE ExpireConversation
  BY <1>1, <1>8 DEF ExpireConversation, ChatBounds, sendVars
<1>9. ASSUME NEW r \in Reader, NEW before, NEW after, BeginHistory(r, before, after)
      PROVE  ChatBounds'
  <2>1. PICK request : ReaderGoes(r, request) /\ request.found = {}
    BY <1>9 DEF BeginHistory
  <2>2. accepted' = accepted /\ unread' = unread
    BY <1>9 DEF BeginHistory, sendVars, countVars
  <2>3. QED
    BY <1>1, <1>2, <2>1, <2>2, FoundBounded, FS_EmptySet
<1>10. ASSUME NEW r \in Reader, LoadNext(r) PROVE ChatBounds'
  <2> DEFINE k == read[r].todo[Len(read[r].todo)]
  <2>1. PICK request : /\ ReaderGoes(r, request)
                       /\ request.found \in {read[r].found, read[r].found \cup {k}}
    BY <1>10 DEF LoadNext, Went
  <2>2. accepted' = accepted /\ unread' = unread
    BY <1>10 DEF LoadNext, sendVars, countVars
  <2>3. Cardinality(read[r].found) < PageSize
    BY <1>10 DEF LoadNext, ChatInv, ReaderInv, Reads
  <2>4. IsFiniteSet(read[r].found) /\ Cardinality(read[r].found) \in Nat
    BY <1>1, Bounded
  <2>5. \/ Cardinality(request.found) = Cardinality(read[r].found)
        \/ Cardinality(request.found) = Cardinality(read[r].found) + 1
    BY <2>1, <2>4, FS_AddElement
  <2>6. Cardinality(request.found) < 3 * PageSize
    BY <1>1, <2>3, <2>4, <2>5
  <2>7. QED
    BY <1>1, <2>1, <2>2, <2>6, FoundBounded
<1>11. ASSUME NEW r \in Reader, ReadRows(r) PROVE ChatBounds'
  <2> DEFINE limit == PageSize + Cardinality(read[r].found)
             first == FirstRows(r, limit)
  <2>1. PICK request : ReaderGoes(r, request) /\ request.found = read[r].found \cup first
    BY <1>11 DEF ReadRows, Went
  <2>2. accepted' = accepted /\ unread' = unread
    BY <1>11 DEF ReadRows, sendVars, countVars
  <2>3. Cardinality(read[r].found) < PageSize
    BY <1>11 DEF ReadRows, ChatInv, ReaderInv, Reads
  <2>4. Cardinality(read[r].found) \in Nat
    BY <1>1, Bounded
  <2>5. limit \in Nat
    BY <1>1, <2>4
  <2>6. RowsWanted(r) \subseteq 0..MaxIds
    BY Numbered DEF RowsWanted
  <2>7. first \subseteq 0..MaxIds
    BY <2>6 DEF FirstRows, Lowest, Highest
  <2>8. Cardinality(first) =< limit
    <3> HIDE DEF limit
    <3>1. QED
      BY <1>1, <2>5, <2>6, AtMost DEF FirstRows
  <2>9. /\ Cardinality(first) \in Nat
        /\ Cardinality(request.found) =< Cardinality(read[r].found) + Cardinality(first)
        /\ Cardinality(request.found) \in Nat
    <3> HIDE DEF first
    <3>1. read[r].found \cup first \subseteq 0..MaxIds
      BY <1>1, <2>7
    <3>2. QED
      BY <1>1, <2>1, <2>7, <3>1, UnionCount, Bounded
  <2> HIDE DEF first
  <2>10. Cardinality(request.found) < 3 * PageSize
    BY <1>1, <2>3, <2>4, <2>8, <2>9
  <2>11. QED
    BY <1>1, <2>1, <2>2, <2>10, FoundBounded
<1>12. ASSUME NEW r \in Reader, ShowHistory(r) \/ ResetUnread(r) \/ ReaderFails(r)
       PROVE  ChatBounds'
  <2>1. ReaderGoes(r, NoRequest) /\ accepted' = accepted /\ unread' \in {0, unread}
    BY <1>12 DEF ShowHistory, ResetUnread, ReaderFails, sendVars, countVars
  <2>2. NoRequest.found = {}
    BY DEF NoRequest, ReaderAt
  <2>3. Cardinality(NoRequest.found) < 3 * PageSize
    BY <1>2, <2>2, FS_EmptySet
  <2>4. unread' =< Cardinality(accepted)
    BY <1>1, <2>1
  <2>5. QED
    BY <2>1, <2>3, <2>4, FoundBounded
<1>13. ASSUME NEW r \in Reader, BeginMark(r) PROVE ChatBounds'
  <2> DEFINE live == {k \in Id : row[k] = "sent"}
  <2>1. PICK ids : LET latest == IF ids # <<>> THEN {ids[Len(ids)]}
                                 ELSE {k \in live : \A j \in live : j =< k}
                   IN ReaderGoes(r, ReaderAt("receipt", latest))
    BY <1>13 DEF BeginMark
  <2> DEFINE latest == IF ids # <<>> THEN {ids[Len(ids)]}
                       ELSE {k \in live : \A j \in live : j =< k}
             request == ReaderAt("receipt", latest)
  <2>2. ReaderGoes(r, request) /\ request.found = latest
    BY <2>1 DEF ReaderAt
  <2>3. live \subseteq Nat
    BY Numbered
  <2>4. Cardinality({k \in live : \A j \in live : j =< k}) \in {0, 1}
    <3> HIDE DEF live
    <3>1. QED
      BY <2>3, LatestCount
  <2>5. Cardinality({ids[Len(ids)]}) = 1
    BY FS_Singleton
  <2>6. Cardinality(latest) \in {0, 1}
    BY <2>4, <2>5
  <2>7. accepted' = accepted /\ unread' = unread
    BY <1>13 DEF BeginMark, sendVars, countVars
  <2> HIDE DEF latest, request
  <2>8. Cardinality(request.found) < 3 * PageSize
    BY <1>2, <2>2, <2>6
  <2>9. QED
    BY <1>1, <2>2, <2>7, <2>8, FoundBounded
<1>14. ASSUME NEW r \in Reader, StoreReceipt(r) PROVE ChatBounds'
  <2>1. ReaderGoes(r, ReaderAt("reset", read[r].found)) /\ accepted' = accepted
        /\ unread' = unread
    BY <1>14 DEF StoreReceipt, sendVars
  <2>2. ReaderAt("reset", read[r].found).found = read[r].found
    BY DEF ReaderAt
  <2>3. QED
    BY <1>1, <2>1, <2>2, FoundBounded DEF ChatBounds
<1>15. CASE UNCHANGED chatVars
  BY <1>3, <1>15 DEF chatVars, sendVars, countVars
<1>16. QED
  BY <1>4, <1>5, <1>6, <1>7, <1>8, <1>9, <1>10, <1>11, <1>12, <1>13, <1>14, <1>15 DEF ChatNext

ChatSafe == ChatInv /\ OncePerClient /\ ChatBounds

LEMMA ChatSafeAlways ==
    ASSUME InOrder
    PROVE  ChatSpec => []ChatSafe
<1>1. ChatInit => ChatSafe
  <2> SUFFICES ASSUME ChatInit PROVE ChatSafe
    OBVIOUS
  <2>1. OncePerClient
    BY ChatNumbers DEF ChatInit, OncePerClient
  <2>2. ChatBounds
    <3>1. accepted = {} /\ unread = 0 /\ \A r \in Reader : read[r].found = {}
      BY DEF ChatInit, NoRequest, ReaderAt
    <3>2. 0 < 3 * PageSize
      BY ChatNumbers
    <3>3. QED
      BY <3>1, <3>2, FS_EmptySet DEF ChatBounds
  <2>3. QED
    BY <2>1, <2>2, ChatInvInit DEF ChatSafe
<1>2. ChatSafe /\ [ChatNext]_chatVars => ChatSafe'
  BY ChatInvStep, OncePerClientStep, ChatBoundsStep DEF ChatSafe
<1>3. QED
  BY <1>1, <1>2, PTL DEF ChatSpec

LEMMA ChatTyped ==
    ASSUME InOrder
    PROVE  ChatSpec => []ChatTypeOK
<1>1. ChatSafe => ChatTypeOK
  <2> SUFFICES ASSUME ChatSafe PROVE ChatTypeOK
    OBVIOUS
  <2>1. ChatInv /\ OncePerClient /\ ChatBounds
    BY DEF ChatSafe
  <2>2. client \in Seq(1..MaxIds) /\ Len(client) =< MaxIds
    BY <2>1 DEF OncePerClient, ChatInv, ChatTypes, SendTypes
  <2>3. accepted \subseteq Id /\ \A n \in DOMAIN index : index[n] \in accepted
    BY <2>1, Numbered DEF ChatInv, IndexInv
  <2>4. \A j, k \in accepted : client[j] = client[k] => j = k
    BY <2>1 DEF OncePerClient
  <2>5. \A k \in 1..MaxIds : /\ {hot[k], row[k]} \subseteq {"none", "sent", "deleted"}
                             /\ row[k] # "none" => k \in accepted
    BY <2>1 DEF ChatInv, CopiesInv, ChatTypes, StoreTypes, Statuses
  <2>6. deleting \subseteq doomed /\ doomed \subseteq accepted
    BY <2>1 DEF ChatInv, ChatTypes, StoreTypes
  <2>7. unread \in 0..MaxIds
    <3>1. accepted \subseteq 1..MaxIds /\ 1..MaxIds \subseteq 0..MaxIds /\ MaxIds \in Nat
      BY <2>1, Numbered, ChatNumbers
    <3>2. Cardinality(1..MaxIds) = MaxIds
      BY <3>1, FS_Interval
    <3>3. Cardinality(accepted) =< MaxIds /\ Cardinality(accepted) \in Nat
      BY <3>1, <3>2, Bounded
    <3>4. unread \in Nat /\ unread =< Cardinality(accepted)
      BY <2>1 DEF ChatBounds, ChatInv, ChatTypes, SendTypes
    <3>5. QED
      BY <3>1, <3>3, <3>4
  <2>8. cursor \in 0..MaxIds
    BY <2>1, Numbered, ChatNumbers DEF ChatInv, SendsInOrder
  <2>9. \A r \in Reader : Cardinality(read[r].found) < 3 * PageSize
    BY <2>1 DEF ChatBounds
  <2>10. QED
    BY <2>2, <2>3, <2>4, <2>5, <2>6, <2>7, <2>8, <2>9 DEF ChatTypeOK
<1>2. QED
  BY <1>1, ChatSafeAlways, PTL

\* As long as the scripts of the sends run in the order of their ids, a page of the
\* history has no gaps (load_history): hot copies, rows and events not yet applied
\* are one ordered list to a reader, whatever is persisted, sent, deleted or expires
\* while it goes through them.
THEOREM HistoryComplete ==
    ASSUME InOrder
    PROVE  ChatSpec => []HistoryHasNoGaps
<1>1. ChatSafe => HistoryHasNoGaps
  BY DEF ChatSafe, ChatInv, ReaderInv, WillBeShown, HistoryHasNoGaps, Reads
<1>2. QED
  BY <1>1, ChatSafeAlways, PTL

\* Under the same condition the unread counter never counts what the newest receipt
\* covers, once the marks in progress are through (mark_private_read).
THEOREM UnreadCovered ==
    ASSUME InOrder
    PROVE  ChatSpec => []ReceiptCoversUnread
<1>1. ChatSafe => ReceiptCoversUnread
  BY DEF ChatSafe, ChatInv
<1>2. QED
  BY <1>1, ChatSafeAlways, PTL
-----------------------------------------------------------------------------
(* Types of accounts, of tokens and tickets, and of automatic replies.     *)

\* What a request holds on to is a word, a file that is there, a version within
\* the bound, or a whole document.
Document(d) == DOMAIN d = {"exists", "privacy", "message", "push"} /\ d.exists

StepTyped(step, known, status) ==
    /\ step.pc \in {"insert", "consume", "bind"} => step.word \in Word
    /\ step.pc = "avatar" => step.word \in known
    /\ step.pc = "device" => step.version \in 0..MaxVersion
    /\ step.pc = "save" => Document(step.document)
    /\ step.pc = "delete" => status # None

RowTyped ==
    /\ DOMAIN account = {"status", "password", "phone", "avatar", "stamp"}
    /\ account.status \in {None, "active", "deleted"}
    /\ account.status # None => account.password \in Word
    /\ account.phone \in Word \cup {None}
    /\ account.avatar \in files \cup {None}

AccountsTyped ==
    /\ RowTyped
    /\ codes \subseteq Word
    /\ settings = NoRow \/ Document(settings)
    /\ device.version \in 0..MaxVersion
    /\ told \subseteq (1..MaxVersion) \X Word
    /\ calls \in 0..MaxCalls
    /\ \A r \in Request : StepTyped(work[r], files, account.status)

LEMMA AccountsTypedInit == AccountsInit => AccountsTyped
<1> SUFFICES ASSUME AccountsInit PROVE AccountsTyped
  OBVIOUS
<1>1. RowTyped
  BY DEF AccountsInit, RowTyped
<1>2. 0 \in 0..MaxVersion /\ 0 \in 0..MaxCalls
  BY AccountsAssumption
<1>3. \A r \in Request : StepTyped(work[r], files, account.status)
  <2>1. Idle.pc = "idle"
    BY DEF Idle
  <2>2. StepTyped(Idle, files, account.status)
    BY <2>1 DEF StepTyped
  <2>3. QED
    BY <2>2 DEF AccountsInit
<1>4. device.version = 0
  BY DEF AccountsInit
<1>5. QED
  BY <1>1, <1>2, <1>3, <1>4 DEF AccountsInit, AccountsTyped

\* A request takes a step, and what the others hold on to stays.
LEMMA WorkTyped ==
    ASSUME DeviceInv, AccountsTyped, NEW r \in Request, NEW step,
           work' = [work EXCEPT ![r] = step], files \subseteq files',
           account.status # None => account'.status # None,
           StepTyped(step, files', account'.status)
    PROVE  \A q \in Request : StepTyped(work'[q], files', account'.status)
<1>1. /\ work'[r] = step
      /\ \A q \in Request \ {r} : work'[q] = work[q]
  BY DEF DeviceInv
<1>2. \A q \in Request : StepTyped(work[q], files', account'.status)
  BY DEF AccountsTyped, StepTyped
<1>3. QED
  BY <1>1, <1>2

\* Other tables than the one a step writes.
LEMMA AccountStep ==
    ASSUME DeviceInv, AccountsTyped, NEW r \in Request, NEW step,
           work' = [work EXCEPT ![r] = step], files \subseteq files',
           account.status # None => account'.status # None,
           StepTyped(step, files', account'.status),
           RowTyped', codes' \subseteq Word, settings' = NoRow \/ Document(settings'),
           device'.version \in 0..MaxVersion, told' \subseteq (1..MaxVersion) \X Word,
           calls' \in 0..MaxCalls
    PROVE  AccountsTyped'
  BY WorkTyped DEF AccountsTyped

LEMMA RequestBegins ==
    ASSUME DeviceInv, AccountsTyped, NEW r \in Request, NEW step, Begin(r, step),
           UNCHANGED <<rowVars, settingsVars, deviceVars>>, StepTyped(step, files, account.status)
    PROVE  AccountsTyped'
<1>1. calls' \in 0..MaxCalls
  BY AccountsAssumption DEF Begin, AccountsTyped
<1>2. UNCHANGED <<account, codes, files, settings, device, told>>
  BY DEF rowVars, settingsVars, deviceVars
<1>3. RowTyped'
  BY <1>2 DEF AccountsTyped, RowTyped
<1>4. QED
  BY <1>1, <1>2, <1>3, AccountStep DEF Begin, AccountsTyped

LEMMA RequestEnds ==
    ASSUME DeviceInv, AccountsTyped, NEW r \in Request, Finish(r), UNCHANGED files,
           account.status # None => account'.status # None, RowTyped',
           codes' \subseteq Word, settings' = NoRow \/ Document(settings'),
           device'.version \in 0..MaxVersion, told' \subseteq (1..MaxVersion) \X Word
    PROVE  AccountsTyped'
<1>1. StepTyped(Idle, files', account'.status)
  <2>1. Idle.pc = "idle"
    BY DEF Idle
  <2>2. QED
    BY <2>1 DEF StepTyped
<1>2. calls' \in 0..MaxCalls
  BY DEF Finish, Continue, AccountsTyped
<1>3. QED
  BY <1>1, <1>2, AccountStep DEF Finish, Continue

LEMMA AccountsTypedStep ==
    DeviceInv /\ AccountsTyped /\ [AccountsNext]_accountVars => AccountsTyped'
<1> SUFFICES ASSUME DeviceInv, AccountsTyped, [AccountsNext]_accountVars
             PROVE  AccountsTyped'
  OBVIOUS
<1>0. /\ RowTyped /\ codes \subseteq Word /\ (settings = NoRow \/ Document(settings))
      /\ device.version \in 0..MaxVersion /\ told \subseteq (1..MaxVersion) \X Word
      /\ calls \in 0..MaxCalls
      /\ \A r \in Request : StepTyped(work[r], files, account.status)
  BY DEF AccountsTyped
<1>1. ASSUME NEW r \in Request, Fails(r) \/ ForgetSettings(r) \/ ShowSettings(r)
      PROVE  AccountsTyped'
  <2>1. Finish(r) /\ UNCHANGED <<account, codes, files, settings, device, told>>
    BY <1>1 DEF Fails, ForgetSettings, ShowSettings, rowVars, settingsVars, deviceVars
  <2>2. RowTyped'
    BY <1>0, <2>1 DEF RowTyped
  <2>3. QED
    BY <1>0, <2>1, <2>2, RequestEnds
<1>2. ASSUME NEW r \in Request,
             UNCHANGED <<codes, files, settingsVars, deviceVars>>, RowTyped', Finish(r),
             account.status # None => account'.status # None
      PROVE  AccountsTyped'
  <2>1. UNCHANGED <<codes, files, settings, device, told>>
    BY <1>2 DEF settingsVars, deviceVars
  <2>2. QED
    BY <1>0, <1>2, <2>1, RequestEnds
<1>3. ASSUME NEW r \in Request, InsertUser(r) PROVE AccountsTyped'
  <2>1. /\ Doing(r, "insert") /\ Finish(r)
        /\ UNCHANGED <<codes, files, settingsVars, deviceVars>>
        /\ account.status # None => account' = account
        /\ account.status = None =>
              account' = [account EXCEPT !.status = "active", !.password = work[r].word]
    BY <1>3, Zenon DEF InsertUser
  <2>2. work[r].word \in Word
    BY <1>0, <2>1 DEF Doing, StepTyped
  <2>3. RowTyped' /\ account'.status # None
    BY <1>0, <2>1, <2>2 DEF RowTyped, None
  <2>4. QED
    BY <2>1, <2>3, <1>2
<1>4. ASSUME NEW r \in Request, StampLogin(r) \/ \E w \in Word : WritePassword(r, w)
      PROVE  AccountsTyped'
  <2>1. Finish(r) /\ UNCHANGED <<codes, files, settingsVars, deviceVars>>
    BY <1>4 DEF StampLogin, WritePassword
  <2>2. RowTyped' /\ account'.status = account.status
    BY <1>0, <1>4 DEF StampLogin, WritePassword, RowTyped
  <2>3. QED
    BY <2>1, <2>2, <1>2
<1>5. ASSUME NEW r \in Request, DeleteUser(r) PROVE AccountsTyped'
  <2> DEFINE step == [pc |-> "forget settings"]
  <2>1. work' = [work EXCEPT ![r] = step] /\ UNCHANGED calls
    BY <1>5, Zenon DEF DeleteUser, Continue
  <2>2. UNCHANGED <<codes, files, settings, device, told>>
    BY <1>5 DEF DeleteUser, settingsVars, deviceVars
  <2>3. account' = [account EXCEPT !.status = "deleted", !.stamp = "deleted"]
    BY <1>5, Zenon DEF DeleteUser
  <2>4. step.pc = "forget settings"
    OBVIOUS
  <2>5. StepTyped(step, files', account'.status)
    BY <2>4 DEF StepTyped
  <2> HIDE DEF step
  <2>6. Doing(r, "delete")
    BY <1>5 DEF DeleteUser
  <2>7. account.status # None
    BY <1>0, <2>6 DEF Doing, StepTyped
  <2>9. RowTyped' /\ account'.status = "deleted"
    BY <1>0, <2>2, <2>3, <2>7 DEF RowTyped
  <2>8. QED
    BY <1>0, <2>1, <2>2, <2>5, <2>9, AccountStep DEF None
<1>6. ASSUME NEW r \in Request, ReadNoSettings(r) PROVE AccountsTyped'
  <2> DEFINE step == [pc |-> "defaults"]
  <2>1. StepTyped(step, files, account.status)
    BY DEF StepTyped
  <2> HIDE DEF step
  <2>2. Begin(r, step) /\ UNCHANGED <<rowVars, settingsVars, deviceVars>>
    BY <1>6, Zenon DEF ReadNoSettings, step
  <2>3. QED
    BY <2>1, <2>2, RequestBegins
<1>7. ASSUME NEW r \in Request, NEW w \in Word,
             NEW pc \in {"login", "password", "delete"}, Verified(r, w, pc)
      PROVE  AccountsTyped'
  <2> DEFINE step == [pc |-> pc]
  <2>1. StepTyped(step, files, account.status)
    BY <1>7 DEF StepTyped, Verified, Active, None
  <2> HIDE DEF step
  <2>2. Begin(r, step) /\ UNCHANGED <<rowVars, settingsVars, deviceVars>>
    BY <1>7, Zenon DEF Verified, step
  <2>3. QED
    BY <2>1, <2>2, RequestBegins
<1>8. ASSUME NEW r \in Request, NEW w \in Word, Register(r, w) \/ ReadCode(r, w)
      PROVE  AccountsTyped'
  <2>1. PICK pc \in {"insert", "consume"} : Begin(r, [pc |-> pc, word |-> w])
    BY <1>8 DEF Register, ReadCode
  <2> DEFINE step == [pc |-> pc, word |-> w]
  <2>2. StepTyped(step, files, account.status)
    BY <2>1 DEF StepTyped
  <2>3. Begin(r, step)
    BY <2>1
  <2> HIDE DEF step
  <2>4. UNCHANGED <<rowVars, settingsVars, deviceVars>>
    BY <1>8 DEF Register, ReadCode
  <2>5. QED
    BY <2>2, <2>3, <2>4, RequestBegins
<1>9. ASSUME NEW r \in Request, NEW w \in Word, LockDevice(r, w) PROVE AccountsTyped'
  <2> DEFINE step == [pc |-> "device", word |-> w, version |-> NextTokenVersion(w)]
  <2>1. NextTokenVersion(w) \in 0..MaxVersion
    BY <1>0, <1>9, AccountsAssumption DEF LockDevice, NextTokenVersion
  <2>2. StepTyped(step, files, account.status)
    BY <2>1 DEF StepTyped
  <2> HIDE DEF step
  <2>3. Begin(r, step) /\ UNCHANGED <<rowVars, settingsVars, deviceVars>>
    BY <1>9, Zenon DEF LockDevice, step
  <2>4. QED
    BY <2>2, <2>3, RequestBegins
<1>10. ASSUME NEW r \in Request, NEW field \in {"privacy", "message"}, MergeSettings(r, field)
       PROVE  AccountsTyped'
  <2> DEFINE base == IF settings.exists THEN settings ELSE Defaults
             document == [base EXCEPT ![field] = "saved"]
             step == [pc |-> "save", document |-> document]
  <2>1. Document(Defaults)
    BY DEF Document, Defaults, NoRow
  <2>2. Document(base)
    <3>1. CASE settings = NoRow
      <4>1. ~settings.exists
        BY <3>1 DEF NoRow
      <4>2. QED
        BY <2>1, <4>1
    <3>2. CASE Document(settings)
      BY <2>1, <3>2
    <3>3. QED
      BY <1>0, <3>1, <3>2
  <2> HIDE DEF base
  <2>3. Document(document)
    BY <2>2 DEF Document
  <2>4. Begin(r, step) /\ UNCHANGED <<rowVars, settingsVars, deviceVars>>
    BY <1>10 DEF MergeSettings, base
  <2> HIDE DEF document
  <2>5. StepTyped(step, files, account.status)
    BY <2>3 DEF StepTyped
  <2> HIDE DEF step
  <2>6. QED
    BY <2>4, <2>5, RequestBegins
<1>11. ASSUME NEW r \in Request, ConsumeCode(r) PROVE AccountsTyped'
  <2> DEFINE step == [pc |-> "bind", word |-> work[r].word]
  <2>1. work[r] = [pc |-> "consume", word |-> work[r].word]
    BY <1>11 DEF ConsumeCode, DeviceInv
  <2>2. [work[r] EXCEPT !.pc = "bind"] = step
    BY <2>1
  <2>3. work[r].word \in Word
    BY <1>0, <1>11 DEF ConsumeCode, Doing, StepTyped
  <2>4. StepTyped(step, files, account.status)
    BY <2>3 DEF StepTyped
  <2> HIDE DEF step
  <2>5. work' = [work EXCEPT ![r] = step] /\ UNCHANGED calls
    BY <1>11, <2>2 DEF ConsumeCode, Continue
  <2>6. codes' \subseteq Word /\ UNCHANGED <<account, files, settings, device, told>>
    BY <1>0, <1>11 DEF ConsumeCode, settingsVars, deviceVars
  <2>7. RowTyped'
    BY <1>0, <2>6 DEF RowTyped
  <2>8. QED
    BY <1>0, <2>4, <2>5, <2>6, <2>7, AccountStep
<1>12. ASSUME NEW r \in Request, Bind(r) PROVE AccountsTyped'
  <2>1. work[r].word \in Word
    BY <1>0, <1>12 DEF Bind, Doing, StepTyped
  <2>2. /\ UNCHANGED <<codes, files, settingsVars, deviceVars>> /\ Finish(r)
        /\ account' \in {account, [account EXCEPT !.phone = work[r].word]}
    BY <1>12, Zenon DEF Bind
  <2>3. RowTyped' /\ account'.status = account.status
    BY <1>0, <2>1, <2>2 DEF RowTyped
  <2>4. QED
    BY <2>2, <2>3, <1>2
<1>13. ASSUME NEW r \in Request, NEW w \in Word, WriteAvatar(r, w) PROVE AccountsTyped'
  <2> DEFINE step == [pc |-> "avatar", word |-> w]
  <2>1. /\ files' = files \cup {w} /\ calls < MaxCalls /\ calls' = calls + 1
        /\ work' = [work EXCEPT ![r] = step]
        /\ UNCHANGED <<account, codes, settings, device, told>>
    BY <1>13 DEF WriteAvatar, Begin, settingsVars, deviceVars
  <2>2. StepTyped(step, files', account'.status)
    BY <2>1 DEF StepTyped
  <2> HIDE DEF step
  <2>3. RowTyped'
    BY <1>0, <2>1 DEF RowTyped
  <2>4. calls' \in 0..MaxCalls
    BY <1>0, <2>1, AccountsAssumption
  <2>5. QED
    BY <1>0, <2>1, <2>2, <2>3, <2>4, AccountStep
<1>14. ASSUME NEW r \in Request, PointAtAvatar(r) PROVE AccountsTyped'
  <2>1. work[r].word \in files
    BY <1>0, <1>14 DEF PointAtAvatar, Doing, StepTyped
  <2>2. RowTyped' /\ account'.status = account.status
    BY <1>0, <1>14, <2>1 DEF PointAtAvatar, RowTyped
  <2>3. QED
    BY <1>14, <2>2, <1>2 DEF PointAtAvatar
<1>15. ASSUME NEW r \in Request, WriteDefaults(r) PROVE AccountsTyped'
  <2>1. Document(settings')
    BY <1>15 DEF WriteDefaults, Document, Defaults, NoRow
  <2>2. Finish(r) /\ UNCHANGED <<account, codes, files, device, told>>
    BY <1>15 DEF WriteDefaults, rowVars, deviceVars
  <2>3. RowTyped'
    BY <1>0, <2>2 DEF RowTyped
  <2>4. QED
    BY <1>0, <2>1, <2>2, <2>3, RequestEnds
<1>16. ASSUME NEW r \in Request, SaveSettings(r) PROVE AccountsTyped'
  <2> DEFINE step == [pc |-> "show", document |-> work[r].document]
  <2>1. work[r] = [pc |-> "save", document |-> work[r].document]
    BY <1>16 DEF SaveSettings, DeviceInv
  <2>2. [work[r] EXCEPT !.pc = "show"] = step
    BY <2>1
  <2>3. StepTyped(step, files, account.status)
    BY DEF StepTyped
  <2>4. Document(work[r].document)
    BY <1>0, <1>16 DEF SaveSettings, Doing, StepTyped
  <2>5. Document(settings')
    BY <1>16, <2>4 DEF SaveSettings, Document
  <2> HIDE DEF step
  <2>6. work' = [work EXCEPT ![r] = step] /\ UNCHANGED calls
    BY <1>16, <2>2 DEF SaveSettings, Continue
  <2>7. UNCHANGED <<account, codes, files, device, told>>
    BY <1>16 DEF SaveSettings, rowVars, deviceVars
  <2>8. RowTyped'
    BY <1>0, <2>7 DEF RowTyped
  <2>9. QED
    BY <1>0, <2>3, <2>5, <2>6, <2>7, <2>8, AccountStep
<1>17. ASSUME NEW r \in Request, WriteDevice(r) PROVE AccountsTyped'
  <2>1. /\ work[r].version \in 0..MaxVersion /\ work[r].word \in Word
        /\ work[r].version = NextTokenVersion(work[r].word)
    BY <1>0, <1>17 DEF WriteDevice, Doing, StepTyped, DeviceInv
  <2>2. work[r].version \in 1..MaxVersion
    <3>1. device.version \in Nat /\ (device.version = 0 => device.token = None)
      BY DEF DeviceInv, DeviceTypes
    <3>2. work[r].version # 0
      BY <2>1, <3>1, AccountsAssumption DEF NextTokenVersion, None
    <3>3. QED
      BY <2>1, <3>2, AccountsAssumption
  <2>3. /\ device'.version = work[r].version
        /\ told' = told \cup {<<work[r].version, work[r].word>>}
        /\ Finish(r) /\ UNCHANGED <<account, codes, files, settings>>
    BY <1>17 DEF WriteDevice, rowVars, settingsVars
  <2>4. RowTyped'
    BY <1>0, <2>3 DEF RowTyped
  <2>5. QED
    BY <1>0, <2>1, <2>2, <2>3, <2>4, RequestEnds
<1>18. ASSUME NEW w \in Word \cup {None}, Unregister(w) PROVE AccountsTyped'
  <2>1. UNCHANGED <<account, codes, files, settings, told, work, calls>>
        /\ device'.version = device.version
    BY <1>18 DEF Unregister, rowVars, settingsVars, DeviceInv, DeviceTypes
  <2>2. RowTyped'
    BY <1>0, <2>1 DEF RowTyped
  <2>3. QED
    BY <1>0, <2>1, <2>2 DEF AccountsTyped
<1>19. ASSUME NEW w \in Word, SendCode(w) \/ CodeExpires(w) PROVE AccountsTyped'
  <2>1. UNCHANGED <<account, files, settings, device, told, work, calls>>
        /\ codes' \subseteq Word
    BY <1>0, <1>19 DEF SendCode, CodeExpires, settingsVars, deviceVars
  <2>2. RowTyped'
    BY <1>0, <2>1 DEF RowTyped
  <2>3. QED
    BY <1>0, <2>1, <2>2 DEF AccountsTyped
<1>20. ASSUME NEW w \in Word, UpdateProfile(w) PROVE AccountsTyped'
  <2>1. UNCHANGED <<codes, files, settings, device, told, work>>
        /\ calls' \in 0..MaxCalls
    BY <1>0, <1>20, AccountsAssumption DEF UpdateProfile, settingsVars, deviceVars
  <2>2. RowTyped' /\ account'.status = account.status
    BY <1>0, <1>20 DEF UpdateProfile, RowTyped
  <2>3. QED
    BY <1>0, <2>1, <2>2 DEF AccountsTyped
<1>21. CASE SavePushSettings
  <2>1. UNCHANGED <<account, codes, files, device, told, work>> /\ calls' \in 0..MaxCalls
    BY <1>0, <1>21, AccountsAssumption DEF SavePushSettings, rowVars, deviceVars
  <2>2. Document(settings')
    BY <1>0, <1>21 DEF SavePushSettings, Document, NoRow
  <2>3. RowTyped'
    BY <1>0, <2>1 DEF RowTyped
  <2>4. QED
    BY <1>0, <2>1, <2>2, <2>3 DEF AccountsTyped
<1>22. CASE UNCHANGED accountVars
  <2>1. UNCHANGED <<account, codes, files, settings, device, told, work, calls>>
    BY <1>22 DEF accountVars, rowVars, settingsVars, deviceVars
  <2>2. RowTyped'
    BY <1>0, <2>1 DEF RowTyped
  <2>3. QED
    BY <1>0, <2>1, <2>2 DEF AccountsTyped
<1>23. QED
  BY <1>1, <1>3, <1>4, <1>5, <1>6, <1>7, <1>8, <1>9, <1>10, <1>11, <1>12, <1>13, <1>14, <1>15,
     <1>16, <1>17, <1>18, <1>19, <1>20, <1>21, <1>22 DEF AccountsNext

LEMMA UsersTyped == AccountsSpec => []AccountsTypeOK
<1>1. AccountsTyped => AccountsTypeOK
  BY DEF AccountsTyped, RowTyped, AccountsTypeOK, Document
<1>2. QED
  BY DeviceInvInit, DeviceInvStep, AccountsTypedInit, AccountsTypedStep, <1>1, PTL
  DEF AccountsSpec

\* What TokensInv and TicketsInv do not say of the types.
AuthTyped ==
    /\ clock =< MaxTime
    /\ listed \subseteq returned
    /\ resource \in {"none", "login", "refresh"}
    /\ revokeAfter >= -1
    /\ \A t \in Ticket : socket[t].invalid \in 0..MaxInvalid

LEMMA AuthTypedInit == AuthInit => AuthTyped
<1> SUFFICES ASSUME AuthInit PROVE AuthTyped
  OBVIOUS
<1>1. clock =< MaxTime /\ revokeAfter >= -1
  BY TokensAssumption DEF AuthInit
<1>2. \A t \in Ticket : socket[t].invalid \in 0..MaxInvalid
  BY TokensAssumption DEF AuthInit
<1>3. QED
  BY <1>1, <1>2 DEF AuthInit, AuthTyped

LEMMA AuthTypedStep ==
    TokensInv /\ TicketsInv /\ AuthTyped /\ [AuthNext]_authVars => AuthTyped'
<1> SUFFICES ASSUME TokensInv, TicketsInv, AuthTyped, [AuthNext]_authVars PROVE AuthTyped'
  OBVIOUS
<1>0. /\ clock \in Nat /\ clock =< MaxTime /\ listed \subseteq returned
      /\ resource \in {"none", "login", "refresh"}
      /\ revokeAfter \in Int /\ revokeAfter >= -1
      /\ \A t \in Ticket : socket[t].invalid \in 0..MaxInvalid
      /\ MaxTime \in Nat /\ MaxInvalid \in Nat
      /\ \A c \in Client : call[c].by \in {"login", "refresh"}
  BY TokensAssumption DEF AuthTyped, TokensInv, TokenTypes, CallType
<1>1. ASSUME UNCHANGED ticketVars, clock' =< MaxTime, revokeAfter' >= -1,
             listed' \subseteq returned', resource' \in {"none", "login", "refresh"}
      PROVE  AuthTyped'
  BY <1>0, <1>1 DEF AuthTyped, ticketVars
<1>2. ASSUME UNCHANGED tokenVars,
             \A t \in Ticket : socket'[t].invalid \in 0..MaxInvalid
      PROVE  AuthTyped'
  BY <1>0, <1>2 DEF AuthTyped, tokenVars
<1>3. CASE TimePasses
  BY <1>0, <1>1, <1>3 DEF TimePasses
<1>4. CASE IdentifierExpires \/ ResourceExpires
  BY <1>0, <1>1, <1>4 DEF IdentifierExpires, ResourceExpires
<1>5. ASSUME NEW c \in Client, CallFails(c) \/ Login(c) \/ \E n \in returned : Refresh(c, n)
      PROVE  AuthTyped'
  BY <1>0, <1>1, <1>5 DEF CallFails, Login, Refresh, tokenVars
<1>6. ASSUME NEW c \in Client, SwapIdentifier(c) PROVE AuthTyped'
  BY <1>0, <1>1, <1>6 DEF SwapIdentifier
<1>7. ASSUME NEW c \in Client, BuildPair(c) PROVE AuthTyped'
  <2>1. /\ resource' = call[c].by
        /\ UNCHANGED <<clock, returned, revokeAfter, listed, ticketVars>>
    BY <1>7 DEF BuildPair
  <2>2. QED
    BY <1>0, <1>1, <2>1
<1>8. ASSUME NEW c \in Client, StorePair(c) PROVE AuthTyped'
  BY <1>0, <1>1, <1>8 DEF StorePair
<1>9. ASSUME NEW c \in Client, RevokeUser(c) \/ ForgetIdentifier(c) \/ DropResource(c)
      PROVE  AuthTyped'
  BY <1>0, <1>1, <1>9 DEF RevokeUser, ForgetIdentifier, DropResource
<1>10. ASSUME NEW n \in returned, RevokeToken(n) PROVE AuthTyped'
  BY <1>0, <1>1, <1>10 DEF RevokeToken
<1>11. ASSUME NEW t \in Ticket,
              IssueTicket(t) \/ TicketExpires(t) \/ ConsumeUnanswered(t)
       PROVE  AuthTyped'
  BY <1>0, <1>2, <1>11 DEF IssueTicket, TicketExpires, ConsumeUnanswered
<1>12. ASSUME NEW t \in Ticket, NEW own \in BOOLEAN, ConsumeTicket(t, own) PROVE AuthTyped'
  <2>1. UNCHANGED tokenVars /\ socket' \in {socket, Opened(t)}
    BY <1>12 DEF ConsumeTicket
  <2>2. \A s \in Ticket : socket'[s].invalid \in 0..MaxInvalid
    BY <1>0, <2>1 DEF Opened, TicketsInv
  <2>3. QED
    BY <1>2, <2>1, <2>2
<1>13. ASSUME NEW t \in Ticket, Heartbeat(t) \/ InvalidPayload(t) PROVE AuthTyped'
  <2>1. socket[t] \in [opened : 0..1, invalid : Nat]
    BY DEF TicketsInv
  <2>2. PICK k \in 0..MaxInvalid : socket' = [socket EXCEPT ![t].invalid = k]
    BY <1>0, <1>13, <2>1 DEF Heartbeat, InvalidPayload, Open
  <2>3. \A s \in Ticket : socket'[s].invalid \in 0..MaxInvalid
    BY <1>0, <2>1, <2>2 DEF TicketsInv
  <2>4. QED
    BY <1>2, <1>13, <2>3 DEF Heartbeat, InvalidPayload
<1>14. CASE UNCHANGED authVars
  BY <1>0, <1>1, <1>14 DEF authVars, tokenVars
<1>15. QED
  BY <1>3, <1>4, <1>5, <1>6, <1>7, <1>8, <1>9, <1>10, <1>11, <1>12, <1>13, <1>14 DEF AuthNext

LEMMA TokensTyped == AuthSpec => []AuthTypeOK
<1>1. TokensInv /\ TicketsInv /\ AuthTyped => AuthTypeOK
  <2> SUFFICES ASSUME TokensInv, TicketsInv, AuthTyped PROVE AuthTypeOK
    OBVIOUS
  <2>1. /\ clock \in 0..MaxTime /\ revokeAfter \in -1..clock
    BY TokensAssumption DEF TokensInv, TokenTypes, AuthTyped
  <2>2. issued \in Seq(0..MaxTime)
    <3>1. issued \in Seq(Nat) /\ \A n \in 1..Len(issued) : 2 * issued[n] =< clock
      BY DEF TokensInv, TokenTypes, Pair
    <3>2. \A n \in 1..Len(issued) : issued[n] \in 0..MaxTime
      BY <2>1, <3>1, TokensAssumption
    <3>3. issued \in [1..Len(issued) -> 0..MaxTime] /\ Len(issued) \in Nat
      BY <3>1, <3>2
    <3> DEFINE size == Len(issued)
    <3> HIDE DEF size
    <3>4. issued \in [1..size -> 0..MaxTime] /\ size \in Nat
      BY <3>3 DEF size
    <3>5. QED
      BY <3>4, SeqDef
  <2>3. remembered \in Pair \cup {Forgotten, Reserved}
    BY DEF TokensInv, TokenTypes
  <2>4. \A c \in Client : call[c].pc \in {"idle", "swap", "upsert", "store", "forget", "drop"}
    BY DEF TokensInv, TokenTypes, CallType
  <2>5. QED
    BY <2>1, <2>2, <2>3, <2>4 DEF TokensInv, TokenTypes, TicketsInv, AuthTyped, AuthTypeOK
<1>2. QED
  BY TokensInvInit, TokensInvStep, AuthTypedInit, AuthTypedStep, <1>1, PTL DEF AuthSpec

\* Jobs and requests under way have somebody's name.
ReplyTyped ==
    /\ reentry \subseteq Persona /\ revived \subseteq Persona
    /\ missed =< MaxMissed
    /\ \A t \in Job : job[t].pc # "idle" => job[t].user \in Persona
    /\ \A s \in Switching : switching[s].pc # "idle" => switching[s].user \in Persona

LEMMA ReplyTypedInit == ReplyInit => ReplyTyped
  BY ReplyAssumption, NoJobType DEF ReplyInit, ReplyTyped

\* Who is outdated keeps step and name.
LEMMA OutdatedKeeps ==
    ASSUME NEW r, NEW u, NEW on
    PROVE  Outdated(r, u, on).pc = r.pc /\ (Outdated(r, u, on).user = r.user)
<1>1. CASE r.user = u /\ ~on /\ (r.pc = "refresh" \/ r.on)
  BY <1>1 DEF Outdated
<1>2. CASE ~(r.user = u /\ ~on /\ (r.pc = "refresh" \/ r.on))
  BY <1>2, Zenon DEF Outdated
<1>3. QED
  BY <1>1, <1>2

\* The next step of one job, for whom it was, or for somebody.
LEMMA NextJob ==
    ASSUME JobsFresh, NEW t \in Job,
           \/ JobEnds(t)
           \/ Proceed(t) /\ ~JobAt(t, "idle")
           \/ \E pc \in {"copy", "row", "refresh", "lock", "rounds", "pause", "queue",
                         "count"} : JobGoes(t, pc) /\ ~JobAt(t, "idle"),
           ReplyTyped
    PROVE  \A q \in Job : job'[q].pc # "idle" => job'[q].user \in Persona
<1>1. job[t] \in JobType /\ job \in [Job -> JobType]
  BY DEF JobsFresh
<1>2. CASE JobEnds(t)
  BY <1>1, <1>2, NoJobType DEF JobEnds, ReplyTyped
<1>3. CASE Proceed(t) /\ ~JobAt(t, "idle")
  <2>1. CASE matter = "switch"
    BY <1>2, <1>3, <2>1 DEF Proceed
  <2>2. CASE matter # "switch"
    <3> DEFINE x == JobFor("lock", job[t].user)
    <3>1. job' = [job EXCEPT ![t] = x]
      BY <1>3, <2>2 DEF Proceed
    <3>2. x.user = job[t].user
      BY DEF JobFor
    <3> HIDE DEF x
    <3>3. QED
      BY <1>1, <1>3, <3>1, <3>2 DEF JobAt, ReplyTyped
  <2>3. QED
    BY <2>1, <2>2
<1>4. ASSUME NEW pc \in {"copy", "row", "refresh", "lock", "rounds", "pause", "queue",
                         "count"}, JobGoes(t, pc), ~JobAt(t, "idle")
      PROVE  \A q \in Job : job'[q].pc # "idle" => job'[q].user \in Persona
  <2>1. PICK x \in JobType : job' = [job EXCEPT ![t] = x] /\ x.user = job[t].user
    BY <1>4, JobGoesType
  <2>2. QED
    BY <1>1, <1>4, <2>1 DEF JobAt, ReplyTyped
<1>5. QED
  BY <1>2, <1>3, <1>4

LEMMA TriggerTyped ==
    ASSUME JobsFresh, ReplyTyped, NEW u \in Persona, Trigger(u)
    PROVE  \A q \in Job : job'[q].pc # "idle" => job'[q].user \in Persona
<1>1. PICK t \in Job : job' = [job EXCEPT ![t] = JobFor("copy", u)]
  BY DEF Trigger
<1>2. JobFor("copy", u).user = u
  BY DEF JobFor
<1>3. QED
  BY <1>1, <1>2 DEF JobsFresh, ReplyTyped

LEMMA TurnTyped ==
    ASSUME RequestsFresh, JobsFresh, ReplyTyped, NEW s \in Switching, NEW u \in Persona,
           NEW on \in BOOLEAN, TurnRow(s, u, on)
    PROVE  /\ \A t \in Job : job'[t].pc # "idle" => job'[t].user \in Persona
           /\ \A q \in Switching : switching'[q].pc # "idle" => switching'[q].user \in Persona
<1> DEFINE x == [pc |-> "copy", user |-> u, on |-> on, old |-> FALSE]
<1>1. x.user = u
  OBVIOUS
<1>2. /\ \A t \in Job : job'[t] = Outdated(job[t], u, on)
      /\ \A q \in Switching : q # s => switching'[q] = Outdated(switching[q], u, on)
      /\ switching'[s] = x
  BY DEF TurnRow
<1> HIDE DEF x
<1>3. QED
  BY <1>1, <1>2, OutdatedKeeps DEF ReplyTyped

LEMMA RequestTyped ==
    ASSUME RequestsFresh, ReplyTyped, NEW s \in Switching, NEW x,
           switching' = [switching EXCEPT ![s] = x], x.pc = "idle" \/ x.user \in Persona
    PROVE  \A q \in Switching : switching'[q].pc # "idle" => switching'[q].user \in Persona
  BY DEF RequestsFresh, ReplyTyped

LEMMA ReplyTypedStep ==
    SwitchInv /\ RoundsInv /\ ReplyTyped /\ [ReplyNext]_replyVars => ReplyTyped'
<1> SUFFICES ASSUME SwitchInv, RoundsInv, ReplyTyped, [ReplyNext]_replyVars PROVE ReplyTyped'
  OBVIOUS
<1>0. /\ JobsFresh /\ RequestsFresh
      /\ missed \in Nat /\ missed =< MaxMissed /\ MaxMissed \in Nat
      /\ reentry \subseteq Persona /\ revived \subseteq Persona
  BY ReplyAssumption DEF SwitchInv, RoundsInv, ReplyTyped
<1> DEFINE Jobs == \A t \in Job : job'[t].pc # "idle" => job'[t].user \in Persona
           Requests == \A s \in Switching :
                          switching'[s].pc # "idle" => switching'[s].user \in Persona
<1>1. ASSUME reentry' \subseteq Persona, revived' \subseteq Persona, missed' =< MaxMissed,
             Jobs, Requests
      PROVE  ReplyTyped'
  BY <1>1 DEF ReplyTyped
<1>2. (UNCHANGED job => Jobs) /\ (UNCHANGED switching => Requests)
  BY DEF ReplyTyped
<1> HIDE DEF Jobs, Requests
<1>3. ASSUME NEW u \in Persona, WriteOneself(u) PROVE ReplyTyped'
  <2>1. Jobs
    BY <1>0, <1>3, PeerType, TriggerTyped DEF WriteOneself, Jobs
  <2>2. Requests
    <3>1. CASE UNCHANGED switching
      BY <1>2, <3>1
    <3>2. ASSUME NEW s \in Switching, switching' = [switching EXCEPT ![s] = JobFor("row", u)]
          PROVE  Requests
      <4>1. JobFor("row", u).user = u
        BY DEF JobFor
      <4>2. QED
        BY <1>0, <3>2, <4>1, RequestTyped DEF Requests
    <3>3. QED
      BY <1>3, <3>1, <3>2 DEF WriteOneself
  <2>3. QED
    BY <1>0, <1>1, <1>3, <2>1, <2>2 DEF WriteOneself, roundVars
<1>4. ASSUME NEW u \in Persona, ReplyArrives(u) PROVE ReplyTyped'
  <2>1. Jobs
    BY <1>0, <1>4, PeerType, TriggerTyped DEF ReplyArrives, Jobs
  <2>2. QED
    BY <1>0, <1>1, <1>2, <1>4, <2>1 DEF ReplyArrives, switchVars, roundVars
<1>5. ASSUME NEW u \in Persona, CopyExpires(u) \/ ReentryExpires(u) PROVE ReplyTyped'
  BY <1>0, <1>1, <1>2, <1>5 DEF CopyExpires, ReentryExpires, switchVars, roundVars
<1>6. ASSUME NEW s \in Switching, NEW u \in Persona, NEW on \in BOOLEAN, UpdateSwitch(s, u, on)
      PROVE  ReplyTyped'
  <2>1. Jobs /\ Requests
    BY <1>0, <1>6, TurnTyped DEF UpdateSwitch, Jobs, Requests
  <2>2. QED
    BY <1>0, <1>1, <1>6, <2>1 DEF UpdateSwitch, roundVars
<1>7. ASSUME NEW s \in Switching, TurnOwnOff(s) PROVE ReplyTyped'
  <2>0. switching[s] \in JobType /\ switching[s].user \in Persona
    BY <1>0, <1>7 DEF TurnOwnOff, RequestsFresh, ReplyTyped
  <2>1. Jobs /\ Requests
    <3>1. CASE TurnRow(s, switching[s].user, FALSE)
      BY <1>0, <2>0, <3>1, TurnTyped DEF Jobs, Requests
    <3>2. CASE switching' = [switching EXCEPT ![s].pc = "copy"] /\ UNCHANGED job
      <4> DEFINE x == [switching[s] EXCEPT !.pc = "copy"]
      <4>1. x.user = switching[s].user
        BY <2>0 DEF JobType
      <4>2. switching' = [switching EXCEPT ![s] = x]
        BY <3>2
      <4> HIDE DEF x
      <4>3. QED
        BY <1>0, <1>2, <2>0, <3>2, <4>1, <4>2, RequestTyped DEF Requests
    <3>3. QED
      BY <1>7, <3>1, <3>2 DEF TurnOwnOff
  <2>2. QED
    BY <1>0, <1>1, <1>7, <2>1 DEF TurnOwnOff, roundVars
<1>8. ASSUME NEW s \in Switching, WriteCopy(s) \/ SwitchFails(s) PROVE ReplyTyped'
  <2>1. /\ switching' = [switching EXCEPT ![s] = NoJob] /\ UNCHANGED <<job, reentry, missed>>
        /\ switching[s].pc # "idle"
    BY <1>8 DEF WriteCopy, SwitchFails, roundVars
  <2>2. Requests
    BY <1>0, <2>1, RequestTyped, NoJobType DEF Requests
  <2>3. revived' \subseteq revived \cup {switching[s].user}
    BY <1>8 DEF WriteCopy, SwitchFails
  <2>4. switching[s].user \in Persona
    BY <2>1 DEF ReplyTyped
  <2>5. QED
    BY <1>0, <1>1, <1>2, <2>1, <2>2, <2>3, <2>4
<1>9. ASSUME NEW t \in Job, UNCHANGED <<switching, revived, reentry, missed>>,
             \/ JobEnds(t)
             \/ Proceed(t) /\ ~JobAt(t, "idle")
             \/ \E pc \in {"copy", "row", "refresh", "lock", "rounds", "pause", "queue",
                           "count"} : JobGoes(t, pc) /\ ~JobAt(t, "idle")
      PROVE  ReplyTyped'
  <2>1. Jobs
    BY <1>0, <1>9, NextJob DEF Jobs
  <2>2. QED
    BY <1>0, <1>1, <1>2, <1>9, <2>1
<1>10. ASSUME NEW t \in Job, ReadCopy(t) \/ ReadSwitch(t) PROVE ReplyTyped'
  <2>1. ~JobAt(t, "idle") /\ UNCHANGED <<switching, revived, reentry, missed>>
    BY <1>10 DEF ReadCopy, ReadSwitch, JobAt, switchVars, roundVars
  <2>2. JobGoes(t, "row") \/ Proceed(t) \/ JobGoes(t, "refresh") \/ JobEnds(t)
    BY <1>10, Zenon DEF ReadCopy, ReadSwitch
  <2>3. QED
    BY <1>9, <2>1, <2>2
<1>11. ASSUME NEW t \in Job, RefreshCopy(t) PROVE ReplyTyped'
  <2>1. ~JobAt(t, "idle") /\ Proceed(t) /\ UNCHANGED <<switching, reentry, missed>>
    BY <1>11 DEF RefreshCopy, JobAt, roundVars
  <2>2. Jobs
    BY <1>0, <2>1, NextJob DEF Jobs
  <2>3. revived' \subseteq revived \cup {job[t].user}
    BY <1>11 DEF RefreshCopy
  <2>4. job[t].user \in Persona
    BY <2>1 DEF ReplyTyped, JobAt
  <2>5. QED
    BY <1>0, <1>1, <1>2, <2>1, <2>2, <2>3, <2>4
<1>12. ASSUME NEW t \in Job, LockReentry(t) PROVE ReplyTyped'
  <2>1. /\ ~JobAt(t, "idle") /\ reentry' = reentry \cup {job[t].user}
        /\ UNCHANGED <<switching, revived, missed>>
    BY <1>12 DEF LockReentry, JobAt, switchVars, roundVars
  <2>2. JobEnds(t) \/ JobGoes(t, "rounds")
    BY <1>12, Zenon DEF LockReentry
  <2>3. Jobs
    BY <1>0, <2>1, <2>2, NextJob DEF Jobs
  <2>4. job[t].user \in Persona
    BY <2>1 DEF ReplyTyped, JobAt
  <2>5. QED
    BY <1>0, <1>1, <1>2, <2>1, <2>3, <2>4
<1>13. ASSUME NEW t \in Job, ReadRounds(t) PROVE ReplyTyped'
  <2>1. ~JobAt(t, "idle") /\ UNCHANGED <<switching, revived, reentry>>
    BY <1>13 DEF ReadRounds, JobAt, switchVars
  <2>2. JobGoes(t, "pause") \/ JobGoes(t, "queue")
    BY <1>13 DEF ReadRounds
  <2>3. missed' =< MaxMissed
    BY <1>0, <1>13 DEF ReadRounds
  <2>4. Jobs
    BY <1>0, <2>1, <2>2, NextJob DEF Jobs
  <2>5. QED
    BY <1>0, <1>1, <1>2, <2>1, <2>3, <2>4
<1>14. ASSUME NEW t \in Job, RestartRounds(t) \/ QueueTask(t) \/ CountRound(t) PROVE ReplyTyped'
  <2>1. /\ ~JobAt(t, "idle") /\ UNCHANGED <<switching, revived, reentry, missed>>
        /\ (JobGoes(t, "queue") \/ JobGoes(t, "count") \/ JobEnds(t))
    BY <1>14 DEF RestartRounds, QueueTask, CountRound, JobAt, switchVars
  <2>2. QED
    BY <1>9, <2>1
<1>15. ASSUME NEW t \in Job, JobFails(t) PROVE ReplyTyped'
  <2>1. JobEnds(t) /\ missed' =< MaxMissed /\ UNCHANGED <<switching, revived, reentry>>
    BY <1>15 DEF JobFails, switchVars
  <2>2. Jobs
    BY <1>0, <2>1, NextJob DEF Jobs
  <2>3. QED
    BY <1>0, <1>1, <1>2, <2>1, <2>2
<1>16. CASE RoundsExpire
  BY <1>0, <1>1, <1>2, <1>16 DEF RoundsExpire, switchVars
<1>17. CASE UNCHANGED replyVars
  BY <1>0, <1>1, <1>2, <1>17 DEF replyVars, switchVars, roundVars
<1>18. QED
  BY <1>3, <1>4, <1>5, <1>6, <1>7, <1>8, <1>10, <1>11, <1>12, <1>13, <1>14, <1>15, <1>16, <1>17
  DEF ReplyNext

LEMMA RepliesTyped == ReplySpec => []ReplyTypeOK
<1>1. SwitchInv /\ RoundsInv /\ ReplyTyped => ReplyTypeOK
  BY ReplyAssumption DEF SwitchInv, RoundsInv, ReplyTyped, ReplyTypeOK
<1>2. SwitchInv => JobsFresh
  BY DEF SwitchInv
<1>3. QED
  BY SwitchInvInit, SwitchInvStep, RoundsInvInit, RoundsInvStep, ReplyTypedInit,
     ReplyTypedStep, <1>1, <1>2, PTL DEF ReplySpec
-----------------------------------------------------------------------------
(* The parts side by side.                                                 *)

\* Side by side, each part still follows its own specification.
LEMMA PartsFollow ==
    Spec => CachesSpec /\ ChatSpec /\ PushSpec /\ AuthSpec /\ AccountsSpec /\ ReplySpec
<1>1. Init => CachesInit /\ ChatInit /\ PushInit /\ AuthInit /\ AccountsInit /\ ReplyInit
  BY DEF Init
<1>2. [Next]_vars => /\ [CachesNext]_cacheVars /\ [ChatNext]_chatVars
                     /\ [PushNext]_pushVars /\ [AuthNext]_authVars
                     /\ [AccountsNext]_accountVars /\ [ReplyNext]_replyVars
  BY DEF Next, vars
<1>3. QED
  BY <1>1, <1>2, PTL DEF Spec, CachesSpec, ChatSpec, PushSpec, AuthSpec, AccountsSpec,
                         ReplySpec

\* All services around the messages keep their types, whichever of them moves, if the
\* scripts of the sends run in the order of their ids.
THEOREM TypeCorrect ==
    ASSUME InOrder
    PROVE  Spec => []TypeOK
BY PartsFollow, CachesTyped, ChatTyped, PushTyped, TokensTyped, UsersTyped, RepliesTyped, PTL
DEF TypeOK

\* What the parts promise, they promise side by side: the caches, the two sides of a
\* conversation, the push dispatcher, tokens and tickets, push devices and replies.
THEOREM ServicesCorrect ==
    ASSUME InOrder
    PROVE  Spec => /\ [](AnswersAreRecent /\ HistoryHasNoGaps /\ ReceiptCoversUnread)
                   /\ [](PushesInOrder /\ PushesFollowRoutes /\ TokensStayUsed)
                   /\ [](TokenVersionNamesToken /\ RobotsPause /\ OffMeansOff)
BY PartsFollow, AnswersRecent, HistoryComplete, UnreadCovered, PushesOrdered,
   PushesRecentlyRouted, TokensUsedOnce, VersionsNameTokens, TwoRobotsPause,
   SwitchedOffStaysOff, PTL
=============================================================================
