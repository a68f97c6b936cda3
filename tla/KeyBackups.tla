------------------------------ MODULE KeyBackups ------------------------------
(***************************************************************************)
(* The encrypted backup of a user's keys.  A device asks for the salt its  *)
(* backup key is derived with, encrypts, and uploads the backup together   *)
(* with that salt; the server has one row for both.  The first request for *)
(* a salt looks for the row and makes one, in two statements.              *)
(***************************************************************************)
EXTENDS Integers, FiniteSets

CONSTANTS
    Backer,  \* devices of the user
    MaxSalts \* bound: salts made

ASSUME BackupAssumption == MaxSalts \in Nat

VARIABLES
    stored,  \* the row of e2ee_key_backups
    salts,   \* number of salts made
    salt,    \* the salt each device has been given
    asking,  \* the salt each get_salt in progress has made, if it has
    overlapped \* history: two devices were making a salt at the same time

backupVars == <<stored, salts, salt, asking, overlapped>>

\* No row, and a row without a backup.
NoBackup   == [text |-> 0, salt |-> 0]
IsEmpty(b) == b.text = 0

BackupInit ==
    /\ stored = NoBackup
    /\ salts = 0
    /\ salt = [d \in Backer |-> 0]
    /\ asking = [d \in Backer |-> 0]
    /\ overlapped = FALSE

\* get_salt, first statement: the salt of the row is the answer.
ReadSalt(d) ==
    /\ asking[d] = 0
    /\ stored.salt # 0
    /\ salt' = [salt EXCEPT ![d] = stored.salt]
    /\ UNCHANGED <<stored, salts, asking, overlapped>>

\* A fault: a row without a backup does not count.
NoBackupYet == IsEmpty(stored)

NoSaltYet == stored = NoBackup

\* ... or there is no row, and a salt is made,
MakeSalt(d) ==
    /\ asking[d] = 0
    /\ NoSaltYet
    /\ salts < MaxSalts
    /\ salts' = salts + 1
    /\ asking' = [asking EXCEPT ![d] = salts + 1]
    /\ overlapped' = (overlapped \/ \E o \in Backer : asking[o] # 0)
    /\ UNCHANGED <<stored, salt>>

\* ... which the second statement puts into the row, whatever is there by now.
StoreSalt(d) ==
    /\ asking[d] # 0
    /\ stored' = [stored EXCEPT !.salt = asking[d]]
    /\ salt' = [salt EXCEPT ![d] = asking[d]]
    /\ asking' = [asking EXCEPT ![d] = 0]
    /\ UNCHANGED <<salts, overlapped>>

\* The second statement fails, or the server stops.
SaltFails(d) ==
    /\ asking[d] # 0
    /\ asking' = [asking EXCEPT ![d] = 0]
    /\ UNCHANGED <<stored, salts, salt, overlapped>>

\* The backup, encrypted with the key of a salt, replaces both columns.
WithItsSalt(s) == [text |-> s, salt |-> s]

\* upload_backup
UploadBackup(d) ==
    /\ salt[d] # 0
    /\ stored' = WithItsSalt(salt[d])
    /\ UNCHANGED <<salts, salt, asking, overlapped>>

\* get_backup: a device that has lost everything is given the row, and goes on
\* with its salt.
RestoreBackup(d) ==
    /\ stored # NoBackup
    /\ salt' = [salt EXCEPT ![d] = stored.salt]
    /\ UNCHANGED <<stored, salts, asking, overlapped>>

BackupNext ==
    \E d \in Backer :
        \/ ReadSalt(d) \/ MakeSalt(d) \/ StoreSalt(d) \/ SaltFails(d)
        \/ UploadBackup(d) \/ RestoreBackup(d)

BackupSpec == BackupInit /\ [][BackupNext]_backupVars
-----------------------------------------------------------------------------
\* Salts are those made, and a row has one.
BackupTypeOK ==
    /\ stored.text \in 0..salts /\ stored.salt \in 0..salts
    /\ stored.salt = 0 => IsEmpty(stored)
    /\ \A d \in Backer : salt[d] \in 0..salts /\ asking[d] \in 0..salts

\* A stored backup can be opened with the salt next to it, whatever the order of
\* requests and uploads of several devices; unless two first requests for a salt
\* overlapped: then the later one replaces a salt that a device may have used for
\* a backup already.
BackupOpens == IsEmpty(stored) \/ stored.text = stored.salt \/ overlapped
=============================================================================
