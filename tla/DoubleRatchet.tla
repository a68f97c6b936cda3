---------------------------- MODULE DoubleRatchet ----------------------------
(***************************************************************************)
(* The protocol of an encrypted conversation between two devices: the      *)
(* X3DH key agreement that opens it and the Double Ratchet that runs it,   *)
(* over a network that delays, reorders, repeats and damages messages.     *)
(* Cryptography is symbolic: a Diffie-Hellman result is the set of the two *)
(* keys, a root key the sequence of the results that went into it, a chain *)
(* the root key it is derived with and the side that sends on it.          *)
(***************************************************************************)
EXTENDS Integers, Sequences, FiniteSets

CONSTANTS
    Initiator, Responder, \* the two devices
    MaxSkip,              \* MAX_SKIP, 2000 in the code
    MaxStored,            \* SkippedKeyStore::MAX, 2000 in the code
    MaxMessages,          \* bound: messages sent
    MaxPairs,             \* bound: ratchet key pairs of a device
    MaxNoise              \* bound: repeated and damaged deliveries

ASSUME RatchetAssumption ==
    /\ Initiator # Responder
    /\ MaxSkip \in Nat /\ MaxStored \in Nat \ {0}
    /\ MaxMessages \in Nat /\ MaxPairs \in Nat \ {0} /\ MaxNoise \in Nat

VARIABLES
    inPlace,   \* a session manager works on its own copy of the state; the
               \* mobile bridge returns a new state, and none if it fails
    ratchet,   \* RatchetState of each device
    sentMessages,    \* messages sent
    delivered, \* history: messages the recipient was given at least once
    read,      \* history: messages it has read
    readAgain, \* history: ... more than once
    refused,   \* history: messages refused though nothing explains it
    noise,     \* number of repeated and damaged deliveries
    spoiled    \* history: a state was changed by a message it cannot read

ratchetVars == <<inPlace, ratchet, sentMessages, delivered, read, readAgain, refused,
                 noise, spoiled>>

Device == {Initiator, Responder}
Other(u) == IF u = Initiator THEN Responder ELSE Initiator

NoKey == <<"none", 0>>
-----------------------------------------------------------------------------
(* X3DH: what each side derives the first root key from.                   *)

DH(a, b) == {a, b}

\* What the responder has published: generate_key_bundle, the one-time pre-key
\* being used up or not.
KeyBundle(otk) ==
    {"identity", "signed pre-key"} \cup IF otk THEN {"one-time pre-key"} ELSE {}

\* x3dh_initiate, from the bundle with or without a one-time pre-key.
InitiateRoot(otk) ==
    <<DH("my identity", "signed pre-key"), DH("ephemeral", "identity"),
      DH("ephemeral", "signed pre-key")>>
        \o IF "one-time pre-key" \in KeyBundle(otk)
           THEN <<DH("ephemeral", "one-time pre-key")>> ELSE <<>>

\* x3dh_respond
RespondRoot(otk) ==
    <<DH("signed pre-key", "my identity"), DH("identity", "ephemeral"),
      DH("signed pre-key", "ephemeral")>>
        \o IF "one-time pre-key" \in KeyBundle(otk)
           THEN <<DH("one-time pre-key", "ephemeral")>> ELSE <<>>
-----------------------------------------------------------------------------
(* RatchetState *)

Chain(root, sender) == [root |-> root, by |-> sender]

\* kdf_root_key: the root with one more Diffie-Hellman result.
NextRoot(root, dh) == Append(root, dh)

\* init_sending_chain and init_receiving_chain: a chain each way from the root.
InitChains(u, root) ==
    [root |-> root, send |-> Chain(root, u), recv |-> Chain(root, Other(u)),
     sent |-> 0, received |-> 0, prev |-> 0, key |-> <<u, 1>>, remote |-> NoKey,
     stored |-> <<>>, dropped |-> {}] \* (history) stored keys that made room

FreshKey(s) == <<s.key[1], s.key[2] + 1>>

\* A fault: nothing makes room.
KeptAll(stored) == stored

\* SkippedKeyStore::insert, over and over: the oldest make room.
Oldest(stored) == IF Len(stored) > MaxStored THEN Len(stored) - MaxStored ELSE 0
Kept(stored)   == SubSeq(stored, Oldest(stored) + 1, Len(stored))

\* Where the store has a key for a message, and the first such place.
Found(stored, m) == {i \in DOMAIN stored : stored[i].key = m.key /\ stored[i].n = m.n}
First(stored, m) == CHOOSE i \in Found(stored, m) : \A j \in Found(stored, m) : i =< j

\* A fault: the key stays in the store.
NotRemoved(stored, m) == stored

\* SkippedKeyStore::remove
Removed(stored, m) ==
    [i \in 1..Len(stored) - 1 |-> stored[IF i < First(stored, m) THEN i ELSE i + 1]]

\* What skipping up to `until` adds to the store.
Skipped(s, key, until) ==
    [i \in 1..(until - s.received) |->
        [key |-> key, n |-> s.received + i - 1, chain |-> s.recv]]

\* skip_message_keys, when the gap is not too large
SkipKeys(s, key, until) ==
    LET stored == s.stored \o Skipped(s, key, until)
    IN IF until =< s.received THEN s
       ELSE [s EXCEPT !.stored = Kept(stored), !.received = until,
                      !.dropped = @ \cup {stored[i] : i \in 1..Oldest(stored)}]

TooFar(s, until) == until - s.received > MaxSkip

\* A fault: the keys the old chain still owes are not kept.
CloseNothing(s, m) == s

\* The keys of the old chain up to the last message sent on it.
CloseChain(s, m) == IF s.remote = NoKey THEN s ELSE SkipKeys(s, s.remote, m.prev)

\* perform_dh_ratchet
RatchetStep(s, m) ==
    LET u     == s.key[1]
        root1 == NextRoot(s.root, DH(s.key, m.key))
        root2 == NextRoot(root1, DH(FreshKey(s), m.key))
    IN [CloseChain(s, m) EXCEPT
           !.prev = s.sent, !.sent = 0, !.received = 0,
           !.recv = Chain(root1, Other(u)), !.send = Chain(root2, u),
           !.root = root2, !.key = FreshKey(s), !.remote = m.key]

\* prepare_initial_response_ratchet
FirstResponse(s, m) ==
    LET root == NextRoot(s.root, DH(FreshKey(s), m.key))
    IN [s EXCEPT !.prev = s.sent, !.sent = 0, !.key = FreshKey(s), !.remote = m.key,
                 !.root = root, !.send = Chain(root, s.key[1])]

Outcome(s, result) == [state |-> s, result |-> result]

\* Authenticated decryption: the same key, and not a bit changed.
Opens(chain, m, intact) == IF intact /\ chain = m.chain THEN "read" ELSE "failed"

\* decrypt_with_current_chain
DecryptCurrent(s, m, intact) ==
    IF m.n < s.received THEN Outcome(s, "expired")
    ELSE IF TooFar(s, m.n) THEN Outcome(s, "too far")
    ELSE Outcome([SkipKeys(s, m.key, m.n) EXCEPT !.received = m.n + 1],
                 Opens(s.recv, m, intact))

\* A message with a key that is not the current one starts a ratchet step, as
\* does the first one to a device that has sent before it.
NeedsStep(s, m) == IF s.remote = NoKey THEN s.sent > 0 ELSE s.remote # m.key

\* ratchet_decrypt
Decrypt(s, m, intact) ==
    IF Found(s.stored, m) # {}
    THEN Outcome([s EXCEPT !.stored = Removed(@, m)],
                 Opens(s.stored[First(s.stored, m)].chain, m, intact))
    ELSE IF NeedsStep(s, m)
    THEN IF m.n > MaxSkip \/ (s.remote # NoKey /\ TooFar(s, m.prev))
         THEN Outcome(s, "too far")
         ELSE DecryptCurrent(RatchetStep(s, m), m, intact)
    ELSE LET d == DecryptCurrent(s, m, intact)
         IN IF d.result = "read" /\ s.remote = NoKey
            THEN Outcome(FirstResponse(d.state, m), "read") ELSE d
-----------------------------------------------------------------------------
\* After the key agreement, with a one-time key or without.
Agreed(otk) ==
    [u \in Device |-> InitChains(u, IF u = Initiator THEN InitiateRoot(otk) ELSE RespondRoot(otk))]

RatchetInit ==
    /\ inPlace \in BOOLEAN
    /\ ratchet \in {Agreed(otk) : otk \in BOOLEAN}
    /\ sentMessages = {} /\ delivered = {} /\ read = {} /\ readAgain = {} /\ refused = {}
    /\ noise = 0
    /\ spoiled = FALSE

NextCounter(s) == s.sent + 1

\* The header of a message, and what encrypts it.
Message(id, s) == [id |-> id, by |-> s.key[1], key |-> s.key, n |-> s.sent,
                   prev |-> s.prev, chain |-> s.send]

\* ratchet_encrypt
RatchetEncrypt(u) ==
    /\ Cardinality(sentMessages) < MaxMessages
    /\ sentMessages' = sentMessages \cup {Message(Cardinality(sentMessages), ratchet[u])}
    /\ ratchet' = [ratchet EXCEPT ![u].sent = NextCounter(ratchet[u])]
    /\ UNCHANGED <<inPlace, delivered, read, readAgain, refused, noise, spoiled>>

\* Both sides have sent before either has read: each has left the chain the
\* message of the other is on.
Crossing(s, m) == s.remote = NoKey /\ s.sent > 0 /\ m.chain.root = s.root

\* The key of the message made room for others.
Dropped(s, m) == \E e \in s.dropped : e.key = m.key /\ e.n = m.n

\* A message of an earlier chain that was there already or has lost its key.
Late(s, m) ==
    /\ s.remote # NoKey /\ m.key[2] < s.remote[2]
    /\ Found(s.stored, m) = {}
    /\ m \in delivered \/ Dropped(s, m)

\* ratchet_decrypt by the recipient of a message: new to it, or repeated, or
\* damaged on the way.
RatchetDecrypt(m, intact) ==
    LET u   == Other(m.by)
        s   == ratchet[u]
        d   == Decrypt(s, m, intact)
        new == intact /\ m \notin delivered
        odd == Crossing(s, m) \/ Dropped(s, m)
    IN /\ new \/ noise < MaxNoise
       /\ noise' = IF new THEN noise ELSE noise + 1
       /\ d.state.key[2] =< MaxPairs
       /\ ratchet' = [ratchet EXCEPT ![u] = IF inPlace \/ d.result = "read" THEN d.state ELSE s]
       /\ delivered' = delivered \cup {o \in {m} : intact /\ d.result # "too far"}
       /\ read' = read \cup {o \in {m} : d.result = "read"}
       /\ readAgain' = readAgain \cup {o \in read \cap {m} : d.result = "read"}
       /\ refused' = refused \cup {o \in {m} : new /\ ~odd /\ d.result \in {"failed", "expired"}}
       /\ spoiled' = (\/ spoiled
                      \/ /\ inPlace /\ d.result = "failed"
                         /\ ~intact \/ Crossing(s, m) \/ Late(s, m))
       /\ UNCHANGED <<inPlace, sentMessages>>

RatchetNext ==
    \/ \E u \in Device : RatchetEncrypt(u)
    \/ \E m \in sentMessages, intact \in BOOLEAN : RatchetDecrypt(m, intact)

RatchetSpec == RatchetInit /\ [][RatchetNext]_ratchetVars
-----------------------------------------------------------------------------
\* The names under which a store has keys.
KeyNames(stored) == {<<stored[i].key, stored[i].n>> : i \in DOMAIN stored}

\* The store is never larger than it may be, and as long as no state is spoiled
\* it holds no key twice.
RatchetTypeOK ==
    \A u \in Device :
        LET s == ratchet[u]
        IN /\ Len(s.stored) =< MaxStored
           /\ spoiled \/ Cardinality(KeyNames(s.stored)) = Len(s.stored)
           /\ s.key[1] = u /\ s.key[2] \in 1..MaxPairs
           /\ s.sent \in 0..MaxMessages /\ s.received \in 0..MaxMessages + MaxSkip

\* Whatever order messages arrive in, across any number of ratchet steps, every
\* message is read when it arrives first.  Exceptions: it is too far ahead, its
\* key was dropped for others, both sides had sent before either had read, or
\* the state was spoiled by a message it could not read, which happens only to a
\* session manager that works in place.
EveryMessageReadable == spoiled \/ refused = {}

\* No message key encrypts two messages, and none decrypts twice, however often
\* a message is delivered; even if the state is spoiled.
MessageKeyUsedOnce ==
    /\ readAgain = {}
    /\ \A m \in sentMessages, o \in sentMessages : (m.chain = o.chain /\ m.n = o.n) => m = o
=============================================================================
