------------------------------- MODULE WebDav -------------------------------
(***************************************************************************)
(* WebDavClient (core/backup.rs) and the WebDAV operations of               *)
(* feat/backup.rs: one client per kind of operation is built from the saved  *)
(* account, cached, and thrown away when the account changes or the server   *)
(* refuses it.  Building one waits for the server, and the user may save     *)
(* another account meanwhile.  The temporary files of the commands, which    *)
(* the failing ones leave behind, are left out.                              *)
(***************************************************************************)
EXTENDS Naturals

CONSTANTS
    Callers,         \* commands in flight
    MaxSaves         \* bound: the accounts the user saves one after the other

NoAccount == 0

VARIABLES
    account,         \* the account of the settings: its number in the order of saving
    saving,          \* save_webdav_config has applied an account and is writing the file
    config,          \* WebDavClient.config
    clients,         \* WebDavClient.clients: the account of each cached client
    at, op, used,    \* each command: where it is, its operation, the account of the client it builds
    asked,           \* the account a restore has read when it began
    tries,           \* the attempts an upload has left
    lingering        \* other accounts that survived the last change or reset (see the property)

webdav == <<account, saving, config, clients, at, op, used, asked, tries, lingering>>

\* Operation: each kind has a client of its own, for its own timeout.
Operations == {"upload", "download", "list", "delete"}

Init ==
    /\ account = NoAccount /\ saving = FALSE /\ config = NoAccount
    /\ clients = [o \in Operations |-> NoAccount]
    /\ at = [c \in Callers |-> "idle"] /\ op = [c \in Callers |-> "list"]
    /\ used = [c \in Callers |-> NoAccount] /\ asked = [c \in Callers |-> NoAccount]
    /\ tries = [c \in Callers |-> 0]
    /\ lingering = {}

Goto(c, l) == at' = [at EXCEPT ![c] = l]

\* The accounts of the clients that are being built.
Building == {used[c] : c \in {b \in Callers : at[b] = "building"}}

\* reset: the account and every client are forgotten, but not a client that is being built.
Reset ==
    /\ config' = NoAccount /\ clients' = [o \in Operations |-> NoAccount]
    /\ lingering' = Building \ {account}

\* The settings have changed to this account and nothing is reset.
NoReset(new) ==
    /\ lingering' = (lingering \cup {config} \cup {clients[o] : o \in Operations} \cup Building)
                        \ {NoAccount, new}
    /\ UNCHANGED <<config, clients>>

\* save_webdav_config: the account is applied, and every client reads it from now on.
SaveWebdavConfig ==
    /\ ~saving /\ saving' = TRUE
    /\ account < MaxSaves /\ account' = account + 1
    /\ UNCHANGED <<config, clients, at, op, used, asked, tries, lingering>>

\* The file is written and the clients are reset; a file that cannot be written ends the command before that.
FinishSave ==
    /\ saving /\ saving' = FALSE
    /\ Reset \/ NoReset(account)
    /\ UNCHANGED <<account, at, op, used, asked, tries>>

\* create_backup_and_upload_webdav, restore_webdav_backup, list_ and delete_webdav_backup begin.
CreateBackupAndUpload(c) == op' = [op EXCEPT ![c] = "upload"]
RestoreWebdavBackup(c) == op' = [op EXCEPT ![c] = "download"]
ListWebdavBackup(c) == op' = [op EXCEPT ![c] = "list"]
DeleteWebdavBackup(c) == op' = [op EXCEPT ![c] = "delete"]

Begin(c) ==
    /\ at[c] = "idle"
    /\ \/ CreateBackupAndUpload(c) \/ RestoreWebdavBackup(c)
       \/ ListWebdavBackup(c) \/ DeleteWebdavBackup(c)
    /\ Goto(c, "begun")
    /\ asked' = [asked EXCEPT ![c] = IF op'[c] = "download" THEN account ELSE NoAccount]
    /\ UNCHANGED <<account, saving, config, clients, used, tries, lingering>>

\* WebDavConfig: the account in use is the one read first, until a reset.
WebDavConfig == IF config = NoAccount THEN account ELSE config

(* get_client: a cached client is used as it is; otherwise one is built, for *)
(* which there must be an account, and the server is asked for the directory.*)
GetClient(c) ==
    /\ at[c] = "begun"
    /\ \/ /\ clients[op[c]] # NoAccount
          /\ Goto(c, "request") /\ UNCHANGED <<config, used>>
       \/ /\ clients[op[c]] = NoAccount /\ WebDavConfig = NoAccount
          /\ Goto(c, "failed") /\ UNCHANGED <<config, used>>
       \/ /\ clients[op[c]] = NoAccount /\ WebDavConfig # NoAccount
          /\ config' = WebDavConfig
          /\ used' = [used EXCEPT ![c] = WebDavConfig]
          /\ Goto(c, "building")
    /\ tries' = [tries EXCEPT ![c] = IF op[c] = "upload" THEN 2 ELSE 1]
    /\ UNCHANGED <<account, saving, clients, op, asked, lingering>>

(* The client cannot be made; or mkcol: the directory is there or was made,  *)
(* or the client is refused and everything is reset.                         *)
Mkcol(c) ==
    /\ at[c] = "building"
    /\ \/ /\ clients' = [clients EXCEPT ![op[c]] = used[c]] /\ Goto(c, "request")
          /\ UNCHANGED <<config, lingering>>
       \/ Reset /\ Goto(c, "failed")
       \/ Goto(c, "failed") /\ UNCHANGED <<config, clients, lingering>>
    /\ used' = [used EXCEPT ![c] = NoAccount]
    /\ UNCHANGED <<account, saving, op, asked, tries>>

\* upload: a failed or timed out put is tried once more.
Upload(c) ==
    /\ at[c] = "request" /\ op[c] = "upload"
    /\ \/ Goto(c, "done") /\ UNCHANGED tries
       \/ /\ tries' = [tries EXCEPT ![c] = @ - 1]
          /\ Goto(c, IF tries[c] > 1 THEN "request" ELSE "failed")
    /\ UNCHANGED <<account, saving, config, clients, op, used, asked, lingering>>

\* download: the archive is written into the application's directory.
Download(c) ==
    /\ at[c] = "request" /\ op[c] = "download"
    /\ Goto(c, "done") \/ Goto(c, "failed")
    /\ UNCHANGED <<account, saving, config, clients, op, used, asked, tries, lingering>>

List(c) ==
    /\ at[c] = "request" /\ op[c] = "list"
    /\ Goto(c, "done") \/ Goto(c, "failed")
    /\ UNCHANGED <<account, saving, config, clients, op, used, asked, tries, lingering>>

Delete(c) ==
    /\ at[c] = "request" /\ op[c] = "delete"
    /\ Goto(c, "done") \/ Goto(c, "failed")
    /\ UNCHANGED <<account, saving, config, clients, op, used, asked, tries, lingering>>

\* An upload that failed forgets the clients.
FinishUpload(c) ==
    /\ op[c] = "upload"
    /\ IF at[c] = "failed" THEN Reset ELSE UNCHANGED <<config, clients, lingering>>
    /\ UNCHANGED account

(* restore_webdav_backup, with its archive: when that can be unpacked and    *)
(* the restored settings can be taken over, they get the account that was    *)
(* read when the command began.                                              *)
FinishRestore(c) ==
    /\ op[c] = "download" /\ at[c] = "done"
    /\ \/ account' = asked[c] /\ NoReset(asked[c])
       \/ UNCHANGED <<account, config, clients, lingering>>

FinishOther(c) ==
    /\ op[c] \in {"list", "delete"} \/ (op[c] = "download" /\ at[c] = "failed")
    /\ UNCHANGED <<account, config, clients, lingering>>

Finish(c) ==
    /\ at[c] \in {"done", "failed"}
    /\ FinishUpload(c) \/ FinishRestore(c) \/ FinishOther(c)
    /\ Goto(c, "idle") /\ op' = [op EXCEPT ![c] = "list"]
    /\ tries' = [tries EXCEPT ![c] = 0] /\ asked' = [asked EXCEPT ![c] = NoAccount]
    /\ UNCHANGED <<saving, used>>
-----------------------------------------------------------------------------
Next ==
    \/ SaveWebdavConfig \/ FinishSave
    \/ \E c \in Callers : \/ Begin(c) \/ GetClient(c) \/ Mkcol(c)
                          \/ Upload(c) \/ Download(c) \/ List(c) \/ Delete(c) \/ Finish(c)

Spec == Init /\ [][Next]_webdav
-----------------------------------------------------------------------------
(* A cached client, and the account the next one is built from, are the      *)
(* account of the settings, unless that is being saved.  Others linger only  *)
(* from a change of the settings without a reset (a file that could not be   *)
(* saved, a restore that brought back the account it had read), or because   *)
(* the client was being built at the last reset.                             *)
ClientsAreCurrent ==
    ~saving =>
        /\ config \in {NoAccount, account} \cup lingering
        /\ \A o \in Operations : clients[o] \in {NoAccount, account} \cup lingering
=============================================================================
