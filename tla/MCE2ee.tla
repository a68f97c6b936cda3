------------------------------- MODULE MCE2ee -------------------------------
(* End-to-end encryption: four parts of the server's service, the protocol   *)
(* core and its hosts.  They share no state in the models, so that a         *)
(* behaviour follows one of them.                                            *)
EXTENDS PreKeyClaims, KeyBackups, E2eeSessions, GroupSenderKeys, DoubleRatchet,
        SessionHosts, TLC

VARIABLE focus  \* the part this behaviour is about

vars == <<keysVars, backupVars, negoVars, senderVars, ratchetVars, hostVars, focus>>

\* A part that is not in focus is started in one way only.
Init ==
    /\ KeysInit /\ BackupInit /\ NegoInit /\ GroupKeysInit /\ RatchetInit /\ HostsInit
    /\ focus \in {"pre-keys", "backups", "negotiation", "sender keys", "protocol", "hosts"}
    /\ focus # "protocol" => inPlace /\ ratchet = Agreed(TRUE)
    /\ focus # "hosts" => host = "native"

Next ==
    \/ /\ focus = "pre-keys" /\ KeysNext
       /\ UNCHANGED <<backupVars, negoVars, senderVars, ratchetVars, hostVars, focus>>
    \/ /\ focus = "backups" /\ BackupNext
       /\ UNCHANGED <<keysVars, negoVars, senderVars, ratchetVars, hostVars, focus>>
    \/ /\ focus = "negotiation" /\ NegoNext
       /\ UNCHANGED <<keysVars, backupVars, senderVars, ratchetVars, hostVars, focus>>
    \/ /\ focus = "sender keys" /\ GroupKeysNext
       /\ UNCHANGED <<keysVars, backupVars, negoVars, ratchetVars, hostVars, focus>>
    \/ /\ focus = "protocol" /\ RatchetNext
       /\ UNCHANGED <<keysVars, backupVars, negoVars, senderVars, hostVars, focus>>
    \/ /\ focus = "hosts" /\ HostsNext
       /\ UNCHANGED <<keysVars, backupVars, negoVars, senderVars, ratchetVars, focus>>

Spec == Init /\ [][Next]_vars

\* The requests to the server have the same names in all its parts, so that one
\* permutation renames them everywhere.
Symmetry == Permutations(KeyClient) \cup Permutations(Combination)

TypeOK == KeysTypeOK /\ BackupTypeOK /\ NegoTypeOK /\ GroupKeysTypeOK /\ RatchetTypeOK
            /\ HostsTypeOK
=============================================================================
