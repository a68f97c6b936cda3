---------------------------- MODULE UserAccounts ----------------------------
(***************************************************************************)
(* What the api-server keeps of one user outside the messages: the row of  *)
(* the account, verification codes, settings, avatar files and one push    *)
(* device.  A handler is a few statements on MySQL and Redis, each for     *)
(* itself except the transactions of delete_account and of the push device.*)
(***************************************************************************)
EXTENDS Integers, FiniteSets

CONSTANTS
    Request,    \* requests that may overlap
    Word,       \* passwords, phone numbers, file names and push tokens
    MaxCalls,   \* bound: requests begun
    MaxVersion  \* bound: versions of the push token

ASSUME AccountsAssumption ==
    {MaxCalls, MaxVersion} \subseteq Nat /\ "none" \notin Word

VARIABLES
    account,   \* the row of users
    codes,     \* targets with a code in Redis
    settings,  \* the row of user_settings
    shown,     \* user_settings: in Redis, which is written and never read
    files,     \* files under uploads/avatars
    device,    \* the row of user_push_devices, version 0 if there is none
    told,      \* history: versions and tokens that registrations have answered
    work,      \* the handler of each request
    calls

rowVars      == <<account, codes, files>>
settingsVars == <<settings, shown>>
deviceVars   == <<device, told>>
accountVars  == <<rowVars, settingsVars, deviceVars, work, calls>>

None == "none"
Idle == [pc |-> "idle"]
NoRow == [exists |-> FALSE, privacy |-> None, message |-> None, push |-> None]
Defaults == [NoRow EXCEPT !.exists = TRUE, !.privacy = "default", !.message = "default"]

AccountsInit ==
    /\ account = [status |-> None, password |-> None, phone |-> None, avatar |-> None,
                  stamp |-> None]
    /\ codes = {} /\ files = {}
    /\ settings = NoRow /\ shown = NoRow
    /\ device = [version |-> 0, token |-> None, disabled |-> FALSE]
    /\ told = {}
    /\ work = [r \in Request |-> Idle]
    /\ calls = 0
-----------------------------------------------------------------------------
Doing(r, pc) == work[r].pc = pc
Begin(r, step) ==
    /\ Doing(r, "idle") /\ calls < MaxCalls
    /\ calls' = calls + 1
    /\ work' = [work EXCEPT ![r] = step]
Continue(r, step) == work' = [work EXCEPT ![r] = step] /\ UNCHANGED calls
Finish(r) == Continue(r, Idle)

Active == account.status = "active"

\* Every request but register carries a token, which is not taken back when the
\* account is deleted.
Authenticated == account.status # None

\* A handler gives up: a statement fails, or the client is gone.
Fails(r) ==
    /\ ~Doing(r, "idle")
    /\ Finish(r)
    /\ UNCHANGED <<rowVars, settingsVars, deviceVars>>

\* register: no such user name, so far; the unique key decides.
Register(r, w) ==
    /\ account.status = None
    /\ Begin(r, [pc |-> "insert", word |-> w])
    /\ UNCHANGED <<rowVars, settingsVars, deviceVars>>

InsertUser(r) ==
    /\ Doing(r, "insert")
    /\ account' = IF account.status = None
                  THEN [account EXCEPT !.status = "active", !.password = work[r].word]
                  ELSE account
    /\ Finish(r)
    /\ UNCHANGED <<codes, files, settingsVars, deviceVars>>

\* login, change_password and delete_account load the user, active ones only, and
\* compare the password; what follows does not look at the row again.
Verified(r, w, pc) ==
    /\ Active /\ account.password = w
    /\ Begin(r, [pc |-> pc])
    /\ UNCHANGED <<rowVars, settingsVars, deviceVars>>

StampLogin(r) ==
    /\ Doing(r, "login")
    /\ account' = [account EXCEPT !.stamp = "login"]
    /\ Finish(r)
    /\ UNCHANGED <<codes, files, settingsVars, deviceVars>>

WritePassword(r, w) ==
    /\ Doing(r, "password")
    /\ account' = [account EXCEPT !.password = w]
    /\ Finish(r)
    /\ UNCHANGED <<codes, files, settingsVars, deviceVars>>

\* delete_account: one transaction (friends and memberships too), then Redis.
DeleteUser(r) ==
    /\ Doing(r, "delete")
    /\ account' = [account EXCEPT !.status = "deleted", !.stamp = "deleted"]
    /\ Continue(r, [pc |-> "forget settings"])
    /\ UNCHANGED <<codes, files, settingsVars, deviceVars>>

ForgetSettings(r) ==
    /\ Doing(r, "forget settings")
    /\ shown' = NoRow
    /\ Finish(r)
    /\ UNCHANGED <<rowVars, settings, deviceVars>>

\* update_profile: one statement, for any of the fields.
UpdateProfile(w) ==
    /\ Active /\ calls < MaxCalls /\ calls' = calls + 1
    /\ account' = [account EXCEPT !.phone = w]
    /\ UNCHANGED <<codes, files, settingsVars, deviceVars, work>>

\* send_phone_code and send_email_code, bind_phone and bind_email.
SendCode(w) ==
    /\ Authenticated
    /\ codes' = codes \cup {w}
    /\ UNCHANGED <<account, files, settingsVars, deviceVars, work, calls>>

CodeExpires(w) ==
    /\ codes' = codes \ {w}
    /\ UNCHANGED <<account, files, settingsVars, deviceVars, work, calls>>

ReadCode(r, w) ==
    /\ w \in codes
    /\ Begin(r, [pc |-> "consume", word |-> w])
    /\ UNCHANGED <<rowVars, settingsVars, deviceVars>>

ConsumeCode(r) ==
    /\ Doing(r, "consume")
    /\ codes' = codes \ {work[r].word}
    /\ Continue(r, [work[r] EXCEPT !.pc = "bind"])
    /\ UNCHANGED <<account, files, settingsVars, deviceVars>>

Bind(r) ==
    /\ Doing(r, "bind")
    /\ account' = IF Active THEN [account EXCEPT !.phone = work[r].word] ELSE account
    /\ Finish(r)
    /\ UNCHANGED <<codes, files, settingsVars, deviceVars>>

\* A fault: the old file is removed, as it would be if its URL were its path.
ReplaceAvatar(r, w) ==
    /\ Authenticated
    /\ files' = (files \cup {w}) \ {account.avatar}
    /\ Begin(r, [pc |-> "avatar", word |-> w])
    /\ UNCHANGED <<account, codes, settingsVars, deviceVars>>

\* upload_avatar: the file is written under a name made of the user and the second;
\* the old one stays, because its URL is no path of a file; then the row.
WriteAvatar(r, w) ==
    /\ Authenticated
    /\ files' = files \cup {w}
    /\ Begin(r, [pc |-> "avatar", word |-> w])
    /\ UNCHANGED <<account, codes, settingsVars, deviceVars>>

PointAtAvatar(r) ==
    /\ Doing(r, "avatar")
    /\ account' = [account EXCEPT !.avatar = work[r].word]
    /\ Finish(r)
    /\ UNCHANGED <<codes, files, settingsVars, deviceVars>>
-----------------------------------------------------------------------------
\* settings(): no row, so far, and the defaults are written over whatever is there
\* by now; the push settings of the row stay.
ReadNoSettings(r) ==
    /\ Authenticated
    /\ ~settings.exists
    /\ Begin(r, [pc |-> "defaults"])
    /\ UNCHANGED <<rowVars, settingsVars, deviceVars>>

WriteDefaults(r) ==
    /\ Doing(r, "defaults")
    /\ settings' = [Defaults EXCEPT !.push = settings.push]
    /\ Finish(r)
    /\ UNCHANGED <<rowVars, shown, deviceVars>>

\* update_settings(kind): the whole document is read, merged and written back.
MergeSettings(r, kind) ==
    /\ Authenticated
    /\ LET base == IF settings.exists THEN settings ELSE Defaults IN
       Begin(r, [pc |-> "save", document |-> [base EXCEPT ![kind] = "saved"]])
    /\ UNCHANGED <<rowVars, settingsVars, deviceVars>>

SaveSettings(r) ==
    /\ Doing(r, "save")
    /\ settings' = [work[r].document EXCEPT !.push = settings.push]
    /\ Continue(r, [work[r] EXCEPT !.pc = "show"])
    /\ UNCHANGED <<rowVars, shown, deviceVars>>

ShowSettings(r) ==
    /\ Doing(r, "show")
    /\ shown' = work[r].document
    /\ Finish(r)
    /\ UNCHANGED <<rowVars, settings, deviceVars>>

\* update_settings of the push handlers: a new row has an empty document.
SavePushSettings ==
    /\ Authenticated
    /\ calls < MaxCalls /\ calls' = calls + 1
    /\ settings' = [settings EXCEPT !.exists = TRUE, !.push = "saved"]
    /\ UNCHANGED <<rowVars, shown, deviceVars, work>>
-----------------------------------------------------------------------------
InDevice == {r \in Request : Doing(r, "device")}

\* upsert_device and update_device_token agree on the version.
NextTokenVersion(w) ==
    IF device.token = w THEN device.version ELSE device.version + 1

\* A fault: the row is read without a lock.
ReadDeviceRow(r, w) ==
    /\ Authenticated
    /\ NextTokenVersion(w) =< MaxVersion
    /\ Begin(r, [pc |-> "device", word |-> w, version |-> NextTokenVersion(w)])
    /\ UNCHANGED <<rowVars, settingsVars, deviceVars>>

\* load_push_device_for_update: a row is locked by one transaction at a time, the
\* gap where there is none by any number.
LockDevice(r, w) ==
    /\ device.version > 0 => InDevice = {}
    /\ Authenticated
    /\ NextTokenVersion(w) =< MaxVersion
    /\ Begin(r, [pc |-> "device", word |-> w, version |-> NextTokenVersion(w)])
    /\ UNCHANGED <<rowVars, settingsVars, deviceVars>>

\* The write and the commit.  An insert waits for who else has locked the gap; if
\* these insert too they are deadlocked, and all but one of them give up (Fails).
WriteDevice(r) ==
    /\ Doing(r, "device")
    /\ device.version = 0 => InDevice = {r}
    /\ device' = [version |-> work[r].version, token |-> work[r].word, disabled |-> FALSE]
    /\ told' = told \cup {<<work[r].version, work[r].word>>}
    /\ Finish(r)
    /\ UNCHANGED <<rowVars, settingsVars>>

\* unregister_device, with a token or without.
Unregister(w) ==
    /\ device.version > 0 /\ InDevice = {}
    /\ w = None \/ device.token = w
    /\ device' = [device EXCEPT !.disabled = TRUE]
    /\ UNCHANGED <<rowVars, settingsVars, told, work, calls>>

AccountsNext ==
    \/ \E r \in Request :
          \/ Fails(r) \/ InsertUser(r) \/ StampLogin(r) \/ DeleteUser(r) \/ ForgetSettings(r)
          \/ ConsumeCode(r) \/ Bind(r) \/ PointAtAvatar(r)
          \/ ReadNoSettings(r) \/ WriteDefaults(r) \/ SaveSettings(r) \/ ShowSettings(r)
          \/ WriteDevice(r)
          \/ \E kind \in {"privacy", "message"} : MergeSettings(r, kind)
          \/ \E w \in Word :
                \/ \E pc \in {"login", "password", "delete"} : Verified(r, w, pc)
                \/ Register(r, w) \/ WritePassword(r, w) \/ ReadCode(r, w)
                \/ WriteAvatar(r, w) \/ LockDevice(r, w)
    \/ \E w \in Word : UpdateProfile(w) \/ SendCode(w) \/ CodeExpires(w)
    \/ SavePushSettings
    \/ \E w \in Word \cup {None} : Unregister(w)

AccountsSpec == AccountsInit /\ [][AccountsNext]_accountVars
-----------------------------------------------------------------------------
\* An account has a password, an avatar is a file, a device has told its version.
AccountsTypeOK ==
    /\ account.status \in {None, "active", "deleted"}
    /\ account.status # None => account.password \in Word
    /\ account.phone \in Word \cup {None}
    /\ account.avatar \in files \cup {None}
    /\ codes \subseteq Word
    /\ ~settings.exists => settings = NoRow
    /\ device.version \in 0..MaxVersion
    /\ told \subseteq (1..MaxVersion) \X Word
    /\ calls \in 0..MaxCalls

\* A version that a registration has answered stands for one push token, and the
\* greatest one answered is that of the row, for all registrations, rotations and
\* failures that overlap, the first ones included.
TokenVersionNamesToken ==
    /\ \A p, q \in told : p[1] = q[1] => p[2] = q[2]
    /\ \A p \in told : p[1] =< device.version
    /\ device.version > 0 => <<device.version, device.token>> \in told
=============================================================================
