----------------------------- MODULE SessionHosts -----------------------------
(***************************************************************************)
(* Who keeps the state of an encrypted session, and what protects it.  The *)
(* native session manager keeps it in memory under locks; the one compiled *)
(* to WebAssembly has no threads, and replaces a session it creates again; *)
(* the mobile bridge keeps nothing: every call takes the state and returns *)
(* the next one, which the application stores.  The state of one session   *)
(* is a root, from a new key agreement or a handshake, and how many        *)
(* messages have been encrypted and decrypted with the keys that follow.   *)
(***************************************************************************)
EXTENDS Integers, FiniteSets

CONSTANTS
    Thread,      \* threads of the application
    Handshake,   \* handshakes received for this session
    MaxOutbound, \* bound: key agreements started here
    MaxSent,     \* bound: messages encrypted with the keys of one root
    MaxRead      \* bound: ... and decrypted

ASSUME HostsAssumption == MaxOutbound \in Nat /\ MaxSent \in Nat /\ MaxRead \in Nat

VARIABLES
    host,     \* which of the three
    held,     \* the session, if there is one
    exported, \* states that have been exported
    call,     \* what each thread is doing
    outbound, \* number of key agreements started
    used,     \* history: message keys used
    reused,   \* history: one of them has been used again
    forgotten, \* history: the session was removed, or the process ended
    replaced, \* history: a session took the place of one that was held
    overlap   \* history: a state was stored that another call had outdated

hostVars == <<host, held, exported, call, outbound, used, reused, forgotten, replaced, overlap>>

None == [root |-> 0, sent |-> 0, read |-> 0]
NoCall == [op |-> "none", state |-> None]

New(root) == [root |-> root, sent |-> 0, read |-> 0]
Sent(s)   == [s EXCEPT !.sent = @ + 1]
Read(s)   == [s EXCEPT !.read = @ + 1]

HostsInit ==
    /\ host \in {"native", "web", "mobile"}
    /\ held = None /\ exported = {} /\ outbound = 0
    /\ call = [t \in Thread |-> NoCall]
    /\ used = {} /\ reused = FALSE
    /\ forgotten = FALSE /\ replaced = FALSE /\ overlap = FALSE

\* A message key is used once more.
Use(key) ==
    /\ used' = used \cup {key}
    /\ reused' = (reused \/ key \in used)

\* The next message key of the sending chain, and of the receiving one.
UseToEncrypt(s) == s.sent < MaxSent /\ Use(<<s.root, "send", s.sent>>)
UseToDecrypt(s) == s.read < MaxRead /\ Use(<<s.root, "read", s.read>>)

Calls(t, op, s) ==
    /\ call[t] = NoCall
    /\ call' = [call EXCEPT ![t] = [op |-> op, state |-> s]]

Returns(t) == call' = [call EXCEPT ![t] = NoCall]
-----------------------------------------------------------------------------
(* The native manager: a map of sessions under a read-write lock, and its  *)
(* C interface.                                                            *)

\* session_manager_create_*_session fail if the session is there, ...
NativeHasNone == host = "native" /\ held = None

\* ... session_manager_encrypt, decrypt and export_session if it is not: they
\* return null and keep the error for the thread to ask for.
NativeHas == host = "native" /\ held # None

\* create_outbound_session, to the write lock: nothing is there, and a key
\* agreement is made.
NativeOutbound(t) ==
    /\ NativeHasNone /\ outbound < MaxOutbound
    /\ outbound' = outbound + 1
    /\ Calls(t, "insert", New(outbound + 1))
    /\ UNCHANGED <<host, held, exported, used, reused, forgotten, replaced, overlap>>

\* create_inbound_session: the root follows from the handshake.
NativeInbound(t, h) ==
    /\ NativeHasNone
    /\ Calls(t, "insert", New(h))
    /\ UNCHANGED <<host, held, exported, outbound, used, reused, forgotten, replaced, overlap>>

\* restore_session
NativeRestore(t, s) ==
    /\ NativeHasNone
    /\ Calls(t, "insert", s)
    /\ UNCHANGED <<host, held, exported, outbound, used, reused, forgotten, replaced, overlap>>

\* A fault: what was there at the first look is trusted.
Trusting == TRUE

\* Under the write lock the map is looked at again.
StillNone == held = None

\* ... and the session inserted, or refused.
NativeInsert(t) ==
    /\ call[t].op = "insert"
    /\ held' = IF StillNone THEN call[t].state ELSE held
    /\ Returns(t)
    /\ UNCHANGED <<host, exported, outbound, used, reused, forgotten, replaced, overlap>>

\* encrypt, under the mutex of the session
NativeEncrypt ==
    /\ NativeHas
    /\ UseToEncrypt(held)
    /\ held' = Sent(held)
    /\ UNCHANGED <<host, exported, call, outbound, forgotten, replaced, overlap>>

\* decrypt, likewise
NativeDecrypt ==
    /\ NativeHas
    /\ UseToDecrypt(held)
    /\ held' = Read(held)
    /\ UNCHANGED <<host, exported, call, outbound, forgotten, replaced, overlap>>

\* export_session
NativeExport ==
    /\ NativeHas
    /\ exported' = exported \cup {held}
    /\ UNCHANGED <<host, held, call, outbound, used, reused, forgotten, replaced, overlap>>

\* remove_session
NativeRemove ==
    /\ NativeHas
    /\ held' = None /\ forgotten' = TRUE
    /\ UNCHANGED <<host, exported, call, outbound, used, reused, replaced, overlap>>

\* session_manager_free, or the process ends: exports are all that is left.
NativeFree ==
    /\ host = "native"
    /\ held' = None /\ forgotten' = TRUE
    /\ call' = [t \in Thread |-> NoCall]
    /\ UNCHANGED <<host, exported, outbound, used, reused, replaced, overlap>>
-----------------------------------------------------------------------------
(* The manager in the browser: one thread, no second look.                 *)

WebOutbound ==
    /\ host = "web" /\ outbound < MaxOutbound
    /\ outbound' = outbound + 1
    /\ held' = New(outbound + 1)
    /\ replaced' = (replaced \/ held # None)
    /\ UNCHANGED <<host, exported, call, used, reused, forgotten, overlap>>

WebInbound(h) ==
    /\ host = "web"
    /\ held' = New(h)
    /\ replaced' = (replaced \/ held # None)
    /\ UNCHANGED <<host, exported, call, outbound, used, reused, forgotten, overlap>>

\* A fault: a session that is there is no obstacle.
Always == TRUE

MayRestore == held = None

WebRestore(s) ==
    /\ host = "web" /\ MayRestore
    /\ held' = s
    /\ UNCHANGED <<host, exported, call, outbound, used, reused, forgotten, replaced, overlap>>

WebEncrypt ==
    /\ host = "web" /\ held # None
    /\ UseToEncrypt(held)
    /\ held' = Sent(held)
    /\ UNCHANGED <<host, exported, call, outbound, forgotten, replaced, overlap>>

WebDecrypt ==
    /\ host = "web" /\ held # None
    /\ UseToDecrypt(held)
    /\ held' = Read(held)
    /\ UNCHANGED <<host, exported, call, outbound, forgotten, replaced, overlap>>

WebExport ==
    /\ host = "web" /\ held # None
    /\ exported' = exported \cup {held}
    /\ UNCHANGED <<host, held, call, outbound, used, reused, forgotten, replaced, overlap>>

WebRemove ==
    /\ host = "web" /\ held # None
    /\ held' = None /\ forgotten' = TRUE
    /\ UNCHANGED <<host, exported, call, outbound, used, reused, replaced, overlap>>
-----------------------------------------------------------------------------
(* The mobile bridge: what the application stores is `held`.               *)

\* create_outbound_session and create_inbound_session return a first state,
\* which the application stores if it has none.
MobileOutbound ==
    /\ host = "mobile" /\ held = None /\ outbound < MaxOutbound
    /\ outbound' = outbound + 1
    /\ held' = New(outbound + 1)
    /\ UNCHANGED <<host, exported, call, used, reused, forgotten, replaced, overlap>>

MobileInbound(h) ==
    /\ host = "mobile" /\ held = None
    /\ held' = New(h)
    /\ UNCHANGED <<host, exported, call, outbound, used, reused, forgotten, replaced, overlap>>

\* encrypt_message or decrypt_message with the state that is stored
MobileCall(t, op) ==
    /\ host = "mobile" /\ held # None
    /\ Calls(t, op, held)
    /\ UNCHANGED <<host, held, exported, outbound, used, reused, forgotten, replaced, overlap>>

\* It returns the message and the next state, which is stored.
MobileEncrypt(t) ==
    /\ call[t].op = "encrypt"
    /\ UseToEncrypt(call[t].state)
    /\ held' = Sent(call[t].state)
    /\ overlap' = (overlap \/ held # call[t].state)
    /\ Returns(t)
    /\ UNCHANGED <<host, exported, outbound, forgotten, replaced>>

\* ... the text of the message and the next state.
MobileDecrypt(t) ==
    /\ call[t].op = "decrypt"
    /\ UseToDecrypt(call[t].state)
    /\ held' = Read(call[t].state)
    /\ overlap' = (overlap \/ held # call[t].state)
    /\ Returns(t)
    /\ UNCHANGED <<host, exported, outbound, forgotten, replaced>>

\* export_session_envelope: the state, bound to users, devices and session
MobileExport ==
    /\ host = "mobile" /\ held # None
    /\ exported' = exported \cup {held}
    /\ UNCHANGED <<host, held, call, outbound, used, reused, forgotten, replaced, overlap>>

\* restore_session_envelope, on a device that has forgotten what it had stored
MobileRestore(s) ==
    /\ host = "mobile"
    /\ held' = s /\ forgotten' = TRUE
    /\ UNCHANGED <<host, exported, call, outbound, used, reused, replaced, overlap>>

HostsNext ==
    \/ \E t \in Thread :
          \/ NativeOutbound(t) \/ NativeInsert(t) \/ MobileEncrypt(t) \/ MobileDecrypt(t)
          \/ \E op \in {"encrypt", "decrypt"} : MobileCall(t, op)
          \/ \E h \in Handshake : NativeInbound(t, h)
          \/ \E s \in exported : NativeRestore(t, s)
    \/ \E h \in Handshake : WebInbound(h) \/ MobileInbound(h)
    \/ \E s \in exported : WebRestore(s) \/ MobileRestore(s)
    \/ NativeEncrypt \/ NativeDecrypt \/ NativeExport \/ NativeRemove \/ NativeFree
    \/ WebOutbound \/ WebEncrypt \/ WebDecrypt \/ WebExport \/ WebRemove
    \/ MobileOutbound \/ MobileExport

HostsSpec == HostsInit /\ [][HostsNext]_hostVars
-----------------------------------------------------------------------------
HostState == [root : Handshake \cup 0..MaxOutbound, sent : 0..MaxSent, read : 0..MaxRead]

\* States are what they can be, and an export is of a session.
HostsTypeOK ==
    /\ held \in HostState
    /\ exported \subseteq HostState \ {None}
    /\ \A t \in Thread : call[t].state \in HostState

\* A message key encrypts or decrypts twice only if the session had been forgotten and an older
\* state, or the same handshake, brought it back; if the manager in the browser
\* had replaced it; or if two calls of the mobile application overlapped.  No
\* order of threads does it.
KeyReuseNeedsLoss == ~reused \/ forgotten \/ replaced \/ overlap

\* A session in the native manager is replaced only after it was removed, even
\* if two threads create or restore it at once: both see that nothing is there.
SessionStays ==
    [][host = "native" /\ held # None /\ held' # None => held'.root = held.root]_hostVars
=============================================================================
