--------------------------- MODULE CloudSessions ----------------------------
(***************************************************************************)
(* The credentials of one user: the server's table of them (hosted.py:     *)
(* login, refresh, revoke) and the two files of a machine on which         *)
(* `sourcepack cloud login` and `logout` run (cloud.py).  A refresh reads  *)
(* the credential in one transaction and writes in the next one; a login   *)
(* writes file after file, each truncated, written and made private; a     *)
(* logout removes the file whatever the server said.  Time does not pass.  *)
(***************************************************************************)
EXTENDS Naturals, FiniteSets

CONSTANTS
    Clients,        \* processes that run `sourcepack cloud`
    Refreshers,     \* server threads that answer auth/refresh
    MaxIssued       \* credentials in all (a bound)

SessionAssumption == MaxIssued \in Nat

VARIABLES
    issued,         \* how many rows the table has: they are 1..issued
    root,           \* the row of the login that each descends from
    ended,          \* the rows with a revoked_at
    pending,        \* the row that each refresher has read, or 0
    config, file,   \* cloud.json and credentials.json
    inodes,         \* files there ever were under the name credentials.json
    step, carried,  \* a client: where it is, the credential it has,
    opened, answer, \* the file it writes, its status
    outcome,        \* history: what its last logout said, and of which credential
    stored,         \* history: the credential of the last login that was not logged out
    raced,          \* history: rows refreshed after they had been revoked
    disturbed       \* history: clients overlapped or died

server      == <<issued, root, ended, pending, raced>>
disk        == <<config, file, inodes, stored>>
clients     == <<step, carried, opened, answer, outcome, disturbed>>
sessionVars == <<server, disk, clients>>

Rows     == 1..issued
Live     == Rows \ ended
Absent   == [id |-> 0, mode |-> "none", inode |-> 0]
Statuses == {"server_revocation_success", "local_logout_success",
             "local_logout_remote_revocation_unconfirmed"}
Unsaid   == [said |-> "nothing", of |-> 0]

SessionInit ==
    /\ issued = 0 /\ root = [i \in 1..MaxIssued |-> 0] /\ ended = {}
    /\ pending = [t \in Refreshers |-> 0]
    /\ config = [form |-> "absent", mode |-> "none"] /\ file = Absent /\ inodes = 0
    /\ step = [c \in Clients |-> "idle"] /\ carried = [c \in Clients |-> 0]
    /\ opened = [c \in Clients |-> 0] /\ answer = [c \in Clients |-> "nothing"]
    /\ outcome = [c \in Clients |-> Unsaid]
    /\ stored = 0 /\ raced = {} /\ disturbed = FALSE

Proceed(c, label) == step' = [step EXCEPT ![c] = label]

\* The command ends, and what it held is gone.
End(c) ==
    /\ Proceed(c, "idle") /\ carried' = [carried EXCEPT ![c] = 0]
    /\ opened' = [opened EXCEPT ![c] = 0] /\ answer' = [answer EXCEPT ![c] = "nothing"]

-----------------------------------------------------------------------------
(* The server *)

\* issue_tokens: a new row, of the login itself or of the refreshed one.
Issue(login) ==
    /\ issued < MaxIssued /\ issued' = issued + 1
    /\ root' = [root EXCEPT ![issued + 1] = IF login = 0 THEN issued + 1 ELSE login]

\* refresh: the row is looked up, and no transaction is begun by that.
RefreshRead(t) ==
    /\ pending[t] = 0
    /\ \E i \in Live : pending' = [pending EXCEPT ![t] = i]
    /\ UNCHANGED <<issued, root, ended, raced, disk, clients>>

\* Mutant: the refreshed credential stays valid.
RefreshWrite_Kept(t) ==
    /\ pending[t] # 0 /\ Issue(root[pending[t]])
    /\ raced' = raced \cup ({pending[t]} \cap ended)
    /\ pending' = [pending EXCEPT ![t] = 0]
    /\ UNCHANGED <<ended, disk, clients>>

\* The row is updated by its id, whatever became of it since, and another one
\* is issued.
RefreshWrite(t) ==
    /\ pending[t] # 0 /\ Issue(root[pending[t]])
    /\ ended' = ended \cup {pending[t]}
    /\ raced' = raced \cup ({pending[t]} \cap ended)
    /\ pending' = [pending EXCEPT ![t] = 0]
    /\ UNCHANGED <<disk, clients>>

-----------------------------------------------------------------------------
(* sourcepack cloud login *)

\* Another command runs while this one starts.
Overlaps(c) == disturbed' = (disturbed \/ \E d \in Clients \ {c} : step[d] # "idle")

\* A configuration cut short ends the command here.
Login(c) ==
    /\ step[c] = "idle" /\ config.form # "empty"
    /\ Proceed(c, "login") /\ Overlaps(c)
    /\ UNCHANGED <<server, disk, carried, opened, answer, outcome>>

\* The request, its answer or both may be lost.
Authenticate(c) ==
    /\ step[c] = "login"
    /\ \/ /\ Issue(0)
          /\ \/ /\ Proceed(c, "open config") /\ carried' = [carried EXCEPT ![c] = issued + 1]
                /\ UNCHANGED <<opened, answer>>
             \/ End(c)
       \/ End(c) /\ UNCHANGED <<issued, root>>
    /\ UNCHANGED <<ended, pending, raced, disk, outcome, disturbed>>

\* CloudConfig.save: a file that others may read is not overwritten, and the
\* login ends with its credential in no file.
OpenConfig(c) ==
    /\ step[c] = "open config"
    /\ IF config.mode = "shared"
       THEN End(c) /\ UNCHANGED config
       ELSE /\ Proceed(c, "write config") /\ UNCHANGED <<carried, opened, answer>>
            /\ config' = [form |-> "empty",
                          mode |-> IF config.form = "absent" THEN "shared" ELSE config.mode]
    /\ UNCHANGED <<server, file, inodes, stored, outcome, disturbed>>

WriteConfig(c) ==
    /\ step[c] = "write config" /\ Proceed(c, "close config")
    /\ config' = [config EXCEPT !.form = "whole"]
    /\ UNCHANGED <<server, file, inodes, stored, carried, opened, answer, outcome, disturbed>>

CloseConfig(c) ==
    /\ step[c] = "close config" /\ Proceed(c, "open file")
    /\ config' = [config EXCEPT !.mode = "private"]
    /\ UNCHANGED <<server, file, inodes, stored, carried, opened, answer, outcome, disturbed>>

\* save_credentials
OpenFile(c) ==
    /\ step[c] = "open file" /\ Proceed(c, "write file")
    /\ IF file = Absent
       THEN /\ inodes' = inodes + 1
            /\ file' = [id |-> 0, mode |-> "shared", inode |-> inodes + 1]
       ELSE file' = [file EXCEPT !.id = 0] /\ UNCHANGED inodes
    /\ opened' = [opened EXCEPT ![c] = file'.inode]
    /\ UNCHANGED <<server, config, stored, carried, answer, outcome, disturbed>>

\* A file that was removed meanwhile takes what is written with it.
WriteFile(c) ==
    /\ step[c] = "write file" /\ Proceed(c, "close file")
    /\ file' = IF file.inode = opened[c] THEN [file EXCEPT !.id = carried[c]] ELSE file
    /\ UNCHANGED <<server, config, inodes, stored, carried, opened, answer, outcome, disturbed>>

CloseFile(c) ==
    /\ step[c] = "close file" /\ End(c)
    /\ IF file = Absent
       THEN UNCHANGED <<file, stored>>
       ELSE file' = [file EXCEPT !.mode = "private"] /\ stored' = carried[c]
    /\ UNCHANGED <<server, config, inodes, outcome, disturbed>>

-----------------------------------------------------------------------------
(* sourcepack cloud logout *)

\* load_credentials: a file that others may read, or that is cut short, is none.
Loaded == IF file.mode = "private" THEN file.id ELSE 0

Logout(c) ==
    /\ step[c] = "idle"
    /\ carried' = [carried EXCEPT ![c] = Loaded]
    /\ answer' = [answer EXCEPT ![c] = "local_logout_success"]
    /\ outcome' = [outcome EXCEPT ![c] = Unsaid]
    /\ Proceed(c, IF Loaded = 0 THEN "clear" ELSE "read config") /\ Overlaps(c)
    /\ UNCHANGED <<server, disk, opened>>

Says(c, status) == answer' = [answer EXCEPT ![c] = status]
Unconfirmed == "local_logout_remote_revocation_unconfirmed"

ReadConfig(c) ==
    /\ step[c] = "read config"
    /\ IF config.form = "whole"
       THEN Proceed(c, "revoke") /\ UNCHANGED answer
       ELSE Proceed(c, "clear") /\ Says(c, Unconfirmed)
    /\ UNCHANGED <<server, disk, carried, opened, outcome, disturbed>>

\* Store.revoke under the write lock; the request or its answer may be lost.
Revoke(c) ==
    /\ step[c] = "revoke" /\ Proceed(c, "clear")
    /\ \/ /\ ended' = ended \cup {carried[c]}
          /\ \/ Says(c, IF carried[c] \in ended THEN "local_logout_success"
                                               ELSE "server_revocation_success")
             \/ Says(c, Unconfirmed)
       \/ Says(c, Unconfirmed) /\ UNCHANGED ended
    /\ UNCHANGED <<issued, root, pending, raced, disk, carried, opened, outcome, disturbed>>

\* clear_credentials
Clear(c) ==
    /\ step[c] = "clear" /\ End(c)
    /\ file' = Absent /\ stored' = 0
    /\ outcome' = [outcome EXCEPT ![c] =
                    [said |-> answer[c], of |-> IF carried[c] = 0 THEN stored ELSE carried[c]]]
    /\ UNCHANGED <<server, config, inodes, disturbed>>

Die(c) ==
    /\ step[c] # "idle" /\ End(c) /\ disturbed' = TRUE
    /\ UNCHANGED <<server, disk, outcome>>

SessionNext ==
    \/ \E t \in Refreshers : RefreshRead(t) \/ RefreshWrite(t)
    \/ \E c \in Clients :
         \/ Login(c) \/ Authenticate(c) \/ OpenConfig(c) \/ WriteConfig(c) \/ CloseConfig(c)
         \/ OpenFile(c) \/ WriteFile(c) \/ CloseFile(c)
         \/ Logout(c) \/ ReadConfig(c) \/ Revoke(c) \/ Clear(c) \/ Die(c)

SessionSpec == SessionInit /\ [][SessionNext]_sessionVars

-----------------------------------------------------------------------------
Steps == {"idle", "login", "open config", "write config", "close config", "open file",
           "write file", "close file", "read config", "revoke", "clear"}

ServerTyped ==
    /\ issued \in 0..MaxIssued /\ root \in [1..MaxIssued -> 0..MaxIssued]
    /\ ended \subseteq Rows /\ raced \subseteq ended
    /\ pending \in [Refreshers -> 0..issued]

DiskTyped ==
    /\ config \in [form : {"absent", "empty", "whole"}, mode : {"none", "shared", "private"}]
    /\ file \in [id : 0..issued, mode : {"none", "shared", "private"}, inode : Nat]
    /\ inodes \in Nat /\ stored \in 0..issued

ClientsTyped ==
    /\ step \in [Clients -> Steps] /\ carried \in [Clients -> 0..issued]
    /\ opened \in [Clients -> Nat] /\ answer \in [Clients -> Statuses \cup {"nothing"}]
    /\ outcome \in [Clients -> [said : Statuses \cup {"nothing"}, of : 0..issued]]
    /\ disturbed \in BOOLEAN

SessionTypeOK == ServerTyped /\ DiskTyped /\ ClientsTyped

Lineage(i) == {j \in Rows : root[j] = root[i]}

\* What descends from one login is one valid credential at most, however often
\* it is refreshed, unless a refresh overlapped another one or a revocation.
OneLivePerLogin ==
    \A i \in Rows : Lineage(i) \cap raced = {} => \A j, k \in Lineage(i) \cap Live : j = k

\* A logout that says the credential is revoked leaves nothing valid of its
\* login; one that says it was local only found nothing valid, unless
\* commands overlapped or died.
LogoutIsTrue ==
    \A c \in Clients :
        LET o == outcome[c] IN
        /\ o.said = "server_revocation_success" =>
              o.of \in ended /\ (Lineage(o.of) \cap raced = {} => Lineage(o.of) \cap Live = {})
        /\ o.said = "local_logout_success" /\ ~disturbed => o.of \in ended \cup {0}

\* Sessions end where they are said to end, and do not multiply.
SessionsEnd == OneLivePerLogin /\ LogoutIsTrue
=============================================================================
