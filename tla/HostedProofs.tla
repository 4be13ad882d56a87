--------------------------- MODULE HostedProofs -----------------------------
(***************************************************************************)
(* Theorems about the hosted control plane and its clients: roles, rows of *)
(* answers and the audit log of HostedGovernance, for any users, ids,      *)
(* calls and threads; the credentials of CloudSessions, for any clients,   *)
(* server threads and rows: what descends from a login, and what a logout  *)
(* has said of it.                                                         *)
(***************************************************************************)
EXTENDS HostedGovernance, CloudSessions, TLAPS

\* What Next is made of, with every parameter named.
LEMMA NextCases ==
  ASSUME GovernanceNext
  PROVE  \/ \E c \in Calls : Create(c)
         \/ \E u, who \in Users : RemoveMember(u, who)
         \/ \E u, who \in Users, new \in Given : ChangeRole(u, who, new)
         \/ \E t \in Threads, u \in Users, change \in Changes : Permit(t, u, change)
         \/ \E t \in Threads : SetRepositoryStatus(t) \/ RevokeService(t) \/ RemoveAssignment(t)
BY DEF GovernanceNext

-----------------------------------------------------------------------------
(* HostedGovernance: types *)

\* What a transaction around a create does to the tables of answers.
LEMMA CommitTyped ==
  ASSUME GovernanceTypeOK, NEW c \in Calls, NEW id \in Resources \cup Tokens, Commit(c, id)
  PROVE  idem' \cup answers' \subseteq [call : Calls, id : Resources \cup Tokens]
<1>1. [call |-> c, id |-> id] \in [call : Calls, id : Resources \cup Tokens]
  OBVIOUS
<1> QED
  BY <1>1 DEF Commit, GovernanceTypeOK

\* What a thread may be permitted to do.
LEMMA ThreadTyped ==
  ASSUME GovernanceTypeOK, NEW t \in Threads
  PROVE  /\ thread[t].op \in {"active", "inactive"} => thread[t].repository \in Repositories
         /\ thread[t].op = "revoke" => thread[t].service \in Services
         /\ thread[t].op = "unassign" => thread[t].pair \in Assignments
BY DEF GovernanceTypeOK, Changes, Idle

LEMMA CreateTyped == ASSUME GovernanceTypeOK, NEW c \in Calls, Create(c) PROVE GovernanceTypeOK'
<1> USE DEF GovernanceTypeOK, Log
<1>1. CASE Replay(c)
  BY <1>1 DEF Replay, tables
<1>2. CASE CreateRepository(c)
  <2>1. PICK r \in Repositories : Commit(c, r) /\ repository' = [repository EXCEPT ![r] = "active"]
                           /\ Log(r, "repository_registered")
    BY <1>2 DEF CreateRepository
  <2>2. r \in Resources
    BY DEF Resources
  <2> QED
    BY <1>2, <2>1, <2>2, CommitTyped DEF CreateRepository, Commit, Actions
<1>3. CASE AddMember(c)
  <2>1. c.body.who \in Users /\ c.body.role \in Roles /\ c.body.who \in Resources
    BY <1>3, GovernanceAssumption DEF AddMember, Resources
  <2> QED
    BY <1>3, <2>1, CommitTyped DEF AddMember, Commit, Actions
<1>4. CASE CreateService(c)
  <2>1. PICK s \in Services : Commit(c, s) /\ service' = [service EXCEPT ![s] = "active"]
                              /\ Log(s, "service_created")
    BY <1>4 DEF CreateService
  <2>2. s \in Resources
    BY DEF Resources
  <2> QED
    BY <1>4, <2>1, <2>2, CommitTyped DEF CreateService, Commit, Actions
<1>5. CASE CreateToken(c)
  <2>1. PICK t \in Tokens : Commit(c, t) /\ token' = [token EXCEPT ![t] = c.of]
    BY <1>5 DEF CreateToken
  <2>2. c.of \in Services
    BY <1>5, GovernanceAssumption DEF CreateToken
  <2> QED
    BY <1>5, <2>1, <2>2, CommitTyped DEF CreateToken, Commit
<1>6. CASE Assign(c)
  <2>1. <<c.of, c.body>> \in Assignments
    BY <1>6, GovernanceAssumption DEF Assign, Assignments
  <2>2. <<c.of, c.body>> \in Resources
    BY <2>1 DEF Resources
  <2> QED
    BY <1>6, <2>1, <2>2, CommitTyped DEF Assign, Commit, Actions
<1> QED
  BY <1>1, <1>2, <1>3, <1>4, <1>5, <1>6 DEF Create

LEMMA NextTyped == GovernanceTypeOK /\ [GovernanceNext]_governanceVars => GovernanceTypeOK'
<1> SUFFICES ASSUME GovernanceTypeOK, [GovernanceNext]_governanceVars PROVE GovernanceTypeOK'
  OBVIOUS
<1>1. ASSUME NEW c \in Calls, Create(c) PROVE GovernanceTypeOK'
  BY <1>1, CreateTyped
<1>2. ASSUME NEW u \in Users, NEW who \in Users, RemoveMember(u, who) PROVE GovernanceTypeOK'
  BY <1>2 DEF RemoveMember, Log, GovernanceTypeOK, Resources, Actions
<1>3. ASSUME NEW u \in Users, NEW who \in Users, NEW new \in Given, ChangeRole(u, who, new)
      PROVE  GovernanceTypeOK'
  BY <1>3, GovernanceAssumption DEF ChangeRole, Log, GovernanceTypeOK, Resources, Actions
<1>4. ASSUME NEW t \in Threads, NEW u \in Users, NEW change \in Changes, Permit(t, u, change)
      PROVE  GovernanceTypeOK'
  BY <1>4 DEF Permit, GovernanceTypeOK, tables
<1>5. ASSUME NEW t \in Threads, SetRepositoryStatus(t) PROVE GovernanceTypeOK'
  BY <1>5, ThreadTyped DEF SetRepositoryStatus, Log, GovernanceTypeOK, Resources, Actions, Idle
<1>6. ASSUME NEW t \in Threads, RevokeService(t) PROVE GovernanceTypeOK'
  BY <1>6, ThreadTyped DEF RevokeService, Log, GovernanceTypeOK, Resources, Actions, Idle
<1>7. ASSUME NEW t \in Threads, RemoveAssignment(t) PROVE GovernanceTypeOK'
  BY <1>7, ThreadTyped DEF RemoveAssignment, Log, GovernanceTypeOK, Resources, Actions, Idle
<1>8. CASE UNCHANGED governanceVars
  BY <1>8 DEF governanceVars, tables, GovernanceTypeOK
<1> QED
  BY <1>1, <1>2, <1>3, <1>4, <1>5, <1>6, <1>7, <1>8, NextCases

\* Every table and every thread keeps to its set.
THEOREM RolesTyped == GovernanceSpec => []GovernanceTypeOK
<1>1. GovernanceInit => GovernanceTypeOK
  BY GovernanceAssumption DEF GovernanceInit, GovernanceTypeOK, Roles, Actions
<1> QED
  BY <1>1, NextTyped, PTL DEF GovernanceSpec

-----------------------------------------------------------------------------
(* The last owner *)

\* Whoever demotes or removes an owner saw another one under the write lock,
\* and that one is untouched by the change.
LEMMA NextOwner == GovernanceTypeOK /\ OwnerRemains /\ [GovernanceNext]_governanceVars => OwnerRemains'
<1> SUFFICES ASSUME GovernanceTypeOK, OwnerRemains, [GovernanceNext]_governanceVars PROVE OwnerRemains'
  OBVIOUS
<1>1. PICK owner \in Users : role[owner] = "owner"
  BY DEF OwnerRemains
<1> USE DEF GovernanceTypeOK, OwnerRemains
<1>2. ASSUME NEW c \in Calls, Create(c) PROVE OwnerRemains'
  <2>1. CASE AddMember(c)
    <3>1. c.body.who # owner
      BY <1>1, <2>1 DEF AddMember
    <3> QED
      BY <1>1, <2>1, <3>1 DEF AddMember
  <2>2. CASE ~AddMember(c)
    BY <1>1, <1>2, <2>2 DEF Create, Replay, CreateRepository, CreateService,
       CreateToken, Assign, tables
  <2> QED
    BY <2>1, <2>2
<1>3. ASSUME NEW u \in Users, NEW who \in Users, RemoveMember(u, who) PROVE OwnerRemains'
  <2>1. PICK other \in Users : role[other] = "owner" /\ other # who
    BY <1>1, <1>3 DEF RemoveMember, FinalOwner
  <2> QED
    BY <1>3, <2>1 DEF RemoveMember
<1>4. ASSUME NEW u \in Users, NEW who \in Users, NEW new \in Given, ChangeRole(u, who, new)
      PROVE  OwnerRemains'
  <2>1. CASE new = "owner"
    BY <1>4, <2>1 DEF ChangeRole
  <2>2. CASE new # "owner"
    <3>1. PICK other \in Users : role[other] = "owner" /\ other # who
      BY <1>1, <1>4, <2>2 DEF ChangeRole, FinalOwner
    <3> QED
      BY <1>4, <3>1 DEF ChangeRole
  <2> QED
    BY <2>1, <2>2
<1>5. ASSUME NEW t \in Threads,
             \/ \E u \in Users, change \in Changes : Permit(t, u, change)
             \/ SetRepositoryStatus(t) \/ RevokeService(t) \/ RemoveAssignment(t)
      PROVE  OwnerRemains'
  BY <1>1, <1>5 DEF Permit, SetRepositoryStatus, RevokeService, RemoveAssignment, tables
<1>6. CASE UNCHANGED governanceVars
  BY <1>1, <1>6 DEF governanceVars, tables
<1> HIDE DEF GovernanceTypeOK, OwnerRemains
<1> QED
  BY <1>2, <1>3, <1>4, <1>5, <1>6, NextCases

\* The organization has an owner forever, whatever its owners do to each other
\* at the same time.
THEOREM OwnerForever == GovernanceSpec => []OwnerRemains
<1>1. GovernanceInit => OwnerRemains
  BY GovernanceAssumption DEF GovernanceInit, OwnerRemains
<1> QED
  BY <1>1, NextOwner, RolesTyped, PTL DEF GovernanceSpec

-----------------------------------------------------------------------------
(* Tokens and services *)

\* No token outlives the revocation of its service.
THEOREM SilentForever == GovernanceSpec => []RevokedServiceIsSilent
<1>1. GovernanceInit => RevokedServiceIsSilent
  BY DEF GovernanceInit, RevokedServiceIsSilent
<1>2. GovernanceTypeOK /\ RevokedServiceIsSilent /\ [GovernanceNext]_governanceVars => RevokedServiceIsSilent'
  <2> SUFFICES ASSUME GovernanceTypeOK, RevokedServiceIsSilent, [GovernanceNext]_governanceVars
               PROVE  RevokedServiceIsSilent'
    OBVIOUS
  <2> USE DEF GovernanceTypeOK, RevokedServiceIsSilent
  <2>1. ASSUME NEW c \in Calls, CreateService(c) PROVE RevokedServiceIsSilent'
    BY <2>1 DEF CreateService
  <2>2. ASSUME NEW c \in Calls, CreateToken(c) PROVE RevokedServiceIsSilent'
    BY <2>2, GovernanceAssumption DEF CreateToken
  <2>3. ASSUME NEW c \in Calls, Replay(c) \/ CreateRepository(c) \/ AddMember(c) \/ Assign(c)
        PROVE  RevokedServiceIsSilent'
    BY <2>3 DEF Replay, CreateRepository, AddMember, Assign, tables
  <2>4. ASSUME NEW u \in Users, NEW who \in Users,
               RemoveMember(u, who) \/ \E new \in Given : ChangeRole(u, who, new)
        PROVE  RevokedServiceIsSilent'
    BY <2>4 DEF RemoveMember, ChangeRole
  <2>5. ASSUME NEW t \in Threads, RevokeService(t) PROVE RevokedServiceIsSilent'
    <3>1. thread[t].service \in Services
      BY <2>5, ThreadTyped DEF RevokeService
    <3> QED
      BY <2>5, <3>1 DEF RevokeService
  <2>6. ASSUME NEW t \in Threads,
               \/ \E u \in Users, change \in Changes : Permit(t, u, change)
               \/ SetRepositoryStatus(t) \/ RemoveAssignment(t)
        PROVE  RevokedServiceIsSilent'
    BY <2>6 DEF Permit, SetRepositoryStatus, RemoveAssignment, tables
  <2>7. CASE UNCHANGED governanceVars
    BY <2>7 DEF governanceVars, tables
  <2> HIDE DEF GovernanceTypeOK, RevokedServiceIsSilent
  <2> QED
    BY <2>1, <2>2, <2>3, <2>4, <2>5, <2>6, <2>7, NextCases DEF Create
<1> QED
  BY <1>1, <1>2, RolesTyped, PTL DEF GovernanceSpec

-----------------------------------------------------------------------------
(* Answers *)

\* The idempotency table has one row for an actor, a route and a key, and
\* clients were told nothing that is not in it.
RowInv == answers \subseteq idem /\ \A x, y \in idem : SameRow(x.call, y.call) => x = y

\* Under one key, a client is told of one thing only.
THEOREM ToldOnce == GovernanceSpec => []AnsweredOnce
<1>1. GovernanceInit => RowInv
  BY DEF GovernanceInit, RowInv
<1>2. ASSUME RowInv, NEW c, NEW id, Commit(c, id) PROVE RowInv'
  BY <1>2 DEF RowInv, Commit, SameRow
<1>3. RowInv /\ [GovernanceNext]_governanceVars => RowInv'
  <2> SUFFICES ASSUME RowInv, [GovernanceNext]_governanceVars PROVE RowInv'
    OBVIOUS
  <2>1. ASSUME NEW c \in Calls, Create(c) PROVE RowInv'
    <3>1. CASE Replay(c)
      BY <3>1 DEF RowInv, Replay
    <3>2. CASE ~Replay(c)
      <4>1. \E id : Commit(c, id)
        BY <2>1, <3>2 DEF Create, CreateRepository, AddMember, CreateService,
           CreateToken, Assign
      <4> QED
        BY <4>1, <1>2
    <3> QED
      BY <3>1, <3>2
  <2>2. CASE UNCHANGED <<idem, answers>>
    BY <2>2 DEF RowInv
  <2>3. ~(\E c \in Calls : Create(c)) => UNCHANGED <<idem, answers>>
    BY NextCases DEF RemoveMember, ChangeRole, Permit, SetRepositoryStatus,
       RevokeService, RemoveAssignment, governanceVars
  <2> QED
    BY <2>1, <2>2, <2>3
<1>4. RowInv => AnsweredOnce
  BY DEF RowInv, AnsweredOnce
<1> QED
  BY <1>1, <1>3, <1>4, PTL DEF GovernanceSpec

-----------------------------------------------------------------------------
(* The audit history *)

\* Ids of one kind are not ids of another, so an event is of one resource only.
LEMMA KindsDiffer ==
  /\ \A u \in Users : u \notin Repositories /\ u \notin Services /\ u \notin Assignments
  /\ \A r \in Repositories : r \notin Services /\ r \notin Assignments
  /\ \A s \in Services : s \notin Assignments
BY GovernanceAssumption

LEMMA CreateLogged ==
  ASSUME GovernanceTypeOK, AuditTellsState, NEW c \in Calls, Create(c) PROVE AuditTellsState'
<1> USE DEF GovernanceTypeOK, AuditTellsState, Log, Resources
<1>1. CASE Replay(c)
  BY <1>1 DEF Replay, tables
<1>2. CASE CreateRepository(c)
  <2>1. PICK r \in Repositories : repository' = [repository EXCEPT ![r] = "active"]
                           /\ Log(r, "repository_registered")
    BY <1>2 DEF CreateRepository
  <2> QED
    BY <1>2, <2>1, KindsDiffer DEF CreateRepository
<1>3. CASE AddMember(c)
  <2>1. c.body.who \in Users /\ c.body.role \in Roles
    BY <1>3, GovernanceAssumption DEF AddMember
  <2> QED
    BY <1>3, <2>1, KindsDiffer DEF AddMember, Roles
<1>4. CASE CreateService(c)
  <2>1. PICK s \in Services : service' = [service EXCEPT ![s] = "active"]
                              /\ Log(s, "service_created")
    BY <1>4 DEF CreateService
  <2> QED
    BY <1>4, <2>1, KindsDiffer DEF CreateService
<1>5. CASE CreateToken(c)
  BY <1>5 DEF CreateToken
<1>6. CASE Assign(c)
  <2>1. <<c.of, c.body>> \in Assignments
    BY <1>6, GovernanceAssumption DEF Assign, Assignments
  <2> QED
    BY <1>6, <2>1, KindsDiffer DEF Assign
<1> QED
  BY <1>1, <1>2, <1>3, <1>4, <1>5, <1>6 DEF Create

\* The last event of every resource is the one that made its status.
THEOREM AuditForever == GovernanceSpec => []AuditTellsState
<1>1. GovernanceInit => AuditTellsState
  BY GovernanceAssumption DEF GovernanceInit, AuditTellsState, Resources
<1>2. GovernanceTypeOK /\ AuditTellsState /\ [GovernanceNext]_governanceVars => AuditTellsState'
  <2> SUFFICES ASSUME GovernanceTypeOK, AuditTellsState, [GovernanceNext]_governanceVars PROVE AuditTellsState'
    OBVIOUS
  <2>1. ASSUME NEW c \in Calls, Create(c) PROVE AuditTellsState'
    BY <2>1, CreateLogged
  <2> USE DEF GovernanceTypeOK, AuditTellsState, Log, Resources
  <2>2. ASSUME NEW u \in Users, NEW who \in Users, RemoveMember(u, who)
        PROVE  AuditTellsState'
    BY <2>2, KindsDiffer DEF RemoveMember
  <2>3. ASSUME NEW u \in Users, NEW who \in Users, NEW new \in Given, ChangeRole(u, who, new)
        PROVE  AuditTellsState'
    BY <2>3, KindsDiffer, GovernanceAssumption DEF ChangeRole, Roles
  <2>4. ASSUME NEW t \in Threads, NEW u \in Users, NEW change \in Changes, Permit(t, u, change)
        PROVE  AuditTellsState'
    BY <2>4 DEF Permit, tables
  <2>5. ASSUME NEW t \in Threads, SetRepositoryStatus(t) PROVE AuditTellsState'
    BY <2>5, ThreadTyped, KindsDiffer DEF SetRepositoryStatus
  <2>6. ASSUME NEW t \in Threads, RevokeService(t) PROVE AuditTellsState'
    BY <2>6, ThreadTyped, KindsDiffer DEF RevokeService
  <2>7. ASSUME NEW t \in Threads, RemoveAssignment(t) PROVE AuditTellsState'
    BY <2>7, ThreadTyped, KindsDiffer DEF RemoveAssignment
  <2>8. CASE UNCHANGED governanceVars
    BY <2>8 DEF governanceVars, tables
  <2> HIDE DEF GovernanceTypeOK, AuditTellsState
  <2> QED
    BY <2>1, <2>2, <2>3, <2>4, <2>5, <2>6, <2>7, <2>8, NextCases
<1> QED
  BY <1>1, <1>2, RolesTyped, PTL DEF GovernanceSpec

-----------------------------------------------------------------------------
(* CloudSessions *)

\* Every row descends from a row.
RootsOK == \A i \in Rows : root[i] \in Rows

\* Nothing of the login of row i is valid any more, and nothing will be.
Dead(i) == Lineage(i) \cap raced = {} => Lineage(i) \cap Live = {}
Ended(i) == i \in ended /\ Dead(i)

\* What a client holds, and what it would say, at each of its steps.
Logins  == {"open config", "write config", "close config", "open file", "write file", "close file"}
Logouts == {"read config", "revoke", "clear"}

StepOK(c) ==
    /\ step[c] \in Logins \cup {"read config", "revoke"} => carried[c] # 0
    /\ step[c] \notin Logouts => answer[c] = "nothing"
    /\ answer[c] = "server_revocation_success" => Ended(carried[c])
    /\ step[c] = "clear" /\ answer[c] = "local_logout_success" => carried[c] \in ended \cup {0}

\* What was said stays true.
SaidOK(c) ==
    /\ outcome[c].said = "server_revocation_success" => Ended(outcome[c].of)
    /\ outcome[c].said = "local_logout_success" /\ ~disturbed => outcome[c].of \in ended \cup {0}

StepsOK == \A c \in Clients : StepOK(c)
AllSaid == \A c \in Clients : SaidOK(c)

\* The file holds the credential of the last login, or there is neither.
Settled ==
    \/ file = Absent /\ stored = 0
    \/ file.mode = "private" /\ file.id = stored /\ stored # 0

\* The file in the hands of the client that writes it, and of one that saw none.
Writing(c) ==
    /\ step[c] = "write file" => file.inode = opened[c] /\ file.mode # "none"
    /\ step[c] = "close file" => file.id = carried[c] /\ file.mode # "none"
    /\ step[c] = "clear" /\ carried[c] = 0 => stored = 0

\* One command after the other, the file is settled but for the one that writes it.
FileOK ==
    ~disturbed =>
       /\ \A c, d \in Clients : step[c] # "idle" /\ step[d] # "idle" => c = d
       /\ (\A c \in Clients : step[c] \notin {"write file", "close file"}) => Settled
       /\ \A c \in Clients : Writing(c)

IInv == SessionTypeOK /\ RootsOK /\ OneLivePerLogin /\ StepsOK /\ AllSaid /\ FileOK

-----------------------------------------------------------------------------
(* Types *)

LEMMA InitTyped == ASSUME SessionAssumption, SessionInit PROVE SessionTypeOK
<1>1. ServerTyped
  BY DEF SessionAssumption, SessionInit, ServerTyped, Rows
<1>2. DiskTyped
  BY DEF SessionInit, DiskTyped, Absent
<1>3. ClientsTyped
  <2>1. Unsaid \in [said : Statuses \cup {"nothing"}, of : 0..issued] /\ 0 \in 0..issued
    BY DEF SessionInit, Unsaid
  <2> QED
    BY <2>1 DEF SessionInit, ClientsTyped, Steps
<1> QED
  BY <1>1, <1>2, <1>3 DEF SessionTypeOK

\* How many credentials there are, before and after a step.
LEMMA Counted ==
  ASSUME SessionAssumption, SessionTypeOK
  PROVE  issued \in Nat /\ MaxIssued \in Nat /\ 0 \in 0..issued /\ 0..issued \subseteq 0..issued + 1
BY DEF SessionAssumption, SessionTypeOK, ServerTyped

LEMMA Holding ==
  ASSUME SessionAssumption, SessionTypeOK, NEW c \in Clients, carried[c] # 0 PROVE carried[c] \in Rows
<1>1. carried[c] \in 0..issued
  BY DEF SessionTypeOK, ClientsTyped
<1> QED
  BY <1>1, Counted DEF Rows

\* A client that ends holds nothing.
LEMMA EndTyped ==
  ASSUME ClientsTyped, NEW c \in Clients, End(c), NEW n \in Nat, carried \in [Clients -> 0..n]
  PROVE  /\ step' \in [Clients -> Steps] /\ carried' \in [Clients -> 0..n]
         /\ opened' \in [Clients -> Nat] /\ answer' \in [Clients -> Statuses \cup {"nothing"}]
<1>1. step' \in [Clients -> Steps]
  BY DEF ClientsTyped, End, Proceed, Steps
<1>2. carried' \in [Clients -> 0..n]
  BY DEF End
<1>3. opened' \in [Clients -> Nat]
  BY DEF ClientsTyped, End
<1>4. answer' \in [Clients -> Statuses \cup {"nothing"}]
  BY DEF ClientsTyped, End
<1> QED
  BY <1>1, <1>2, <1>3, <1>4

\* The server's part of a step that adds no credential, or one.
LEMMA IssueTyped ==
  ASSUME SessionAssumption, SessionTypeOK, NEW login \in 0..issued, Issue(login)
  PROVE  /\ issued' \in 0..MaxIssued /\ root' \in [1..MaxIssued -> 0..MaxIssued]
         /\ issued' = issued + 1 /\ 0..issued \subseteq 0..issued' /\ Rows \subseteq Rows'
         /\ issued + 1 \in 0..issued' /\ issued + 1 \in 1..MaxIssued
BY DEF SessionAssumption, SessionTypeOK, ServerTyped, Issue, Rows

\* What the step of a client leaves typed when it adds no credential.
LEMMA SameServer ==
  ASSUME SessionAssumption, SessionTypeOK, UNCHANGED <<issued, root, raced>>,
         ended \subseteq ended', ended' \subseteq Rows, UNCHANGED pending
  PROVE  ServerTyped'
BY DEF SessionTypeOK, ServerTyped, Rows

LEMMA RefreshTyped ==
  ASSUME SessionAssumption, SessionTypeOK, RootsOK,
         NEW t \in Refreshers, RefreshRead(t) \/ RefreshWrite(t)
  PROVE  SessionTypeOK'
<1>1. CASE RefreshRead(t)
  <2>1. ServerTyped'
    BY <1>1, Counted DEF RefreshRead, SessionTypeOK, ServerTyped, Rows, Live
  <2>2. DiskTyped' /\ ClientsTyped'
    BY <1>1 DEF RefreshRead, SessionTypeOK, DiskTyped, ClientsTyped, disk, clients
  <2> QED
    BY <2>1, <2>2 DEF SessionTypeOK
<1>2. CASE RefreshWrite(t)
  <2>1. pending[t] \in Rows /\ root[pending[t]] \in 0..issued /\ Issue(root[pending[t]])
    BY <1>2, Counted DEF RefreshWrite, SessionTypeOK, ServerTyped, Rows, RootsOK
  <2>2. /\ issued' \in 0..MaxIssued /\ root' \in [1..MaxIssued -> 0..MaxIssued]
        /\ issued' = issued + 1 /\ 0..issued \subseteq 0..issued' /\ Rows \subseteq Rows'
    BY <2>1, IssueTyped
  <2>3. ended' \subseteq Rows' /\ raced' \subseteq ended'
    BY <1>2, <2>1, <2>2 DEF RefreshWrite, SessionTypeOK, ServerTyped
  <2>4. pending' \in [Refreshers -> 0..issued']
    BY <1>2, <2>2, Counted DEF RefreshWrite, SessionTypeOK, ServerTyped
  <2>5. ServerTyped'
    BY <2>2, <2>3, <2>4 DEF ServerTyped
  <2>6. DiskTyped'
    BY <1>2, <2>2 DEF RefreshWrite, SessionTypeOK, DiskTyped, disk
  <2>7. ClientsTyped'
    BY <1>2, <2>2 DEF RefreshWrite, SessionTypeOK, ClientsTyped, clients
  <2> QED
    BY <2>5, <2>6, <2>7 DEF SessionTypeOK
<1> QED
  BY <1>1, <1>2

LEMMA LoginTyped ==
  ASSUME SessionAssumption, SessionTypeOK, NEW c \in Clients, Login(c) \/ Authenticate(c)
  PROVE  SessionTypeOK'
<1>1. CASE Login(c)
  <2>1. ServerTyped' /\ DiskTyped'
    BY <1>1 DEF Login, SessionTypeOK, ServerTyped, DiskTyped, Rows, server, disk
  <2>2. ClientsTyped'
    BY <1>1 DEF Login, SessionTypeOK, ClientsTyped, Proceed, Overlaps, Steps, server
  <2> QED
    BY <2>1, <2>2 DEF SessionTypeOK
<1>2. CASE Authenticate(c)
  <2>1. CASE Issue(0)
    <3>1. 0 \in 0..issued
      BY Counted
    <3>2. /\ issued' \in 0..MaxIssued /\ root' \in [1..MaxIssued -> 0..MaxIssued]
          /\ issued' = issued + 1 /\ 0..issued \subseteq 0..issued' /\ Rows \subseteq Rows'
          /\ issued + 1 \in 0..issued'
      BY <2>1, <3>1, IssueTyped
    <3>3. ServerTyped'
      BY <1>2, <3>2 DEF Authenticate, SessionTypeOK, ServerTyped
    <3>4. DiskTyped'
      BY <1>2, <3>2 DEF Authenticate, SessionTypeOK, DiskTyped, disk
    <3>5. outcome' \in [Clients -> [said : Statuses \cup {"nothing"}, of : 0..issued']]
      BY <1>2, <3>2 DEF Authenticate, SessionTypeOK, ClientsTyped
    <3>6. carried \in [Clients -> 0..issued'] /\ issued' \in Nat
      BY <3>2, Counted DEF SessionTypeOK, ClientsTyped
    <3>7. /\ step' \in [Clients -> Steps] /\ carried' \in [Clients -> 0..issued']
          /\ opened' \in [Clients -> Nat] /\ answer' \in [Clients -> Statuses \cup {"nothing"}]
      <4>1. CASE End(c)
        BY <4>1, <3>6, EndTyped DEF SessionTypeOK
      <4>2. CASE ~End(c)
        <5>1. /\ step' = [step EXCEPT ![c] = "open config"]
              /\ carried' = [carried EXCEPT ![c] = issued + 1] /\ UNCHANGED <<opened, answer>>
          BY <1>2, <4>2 DEF Authenticate, Proceed
        <5> QED
          BY <5>1, <3>2, <3>6 DEF SessionTypeOK, ClientsTyped, Steps
      <4> QED
        BY <4>1, <4>2
    <3> QED
      BY <1>2, <3>3, <3>4, <3>5, <3>7 DEF Authenticate, SessionTypeOK, ClientsTyped
  <2>2. CASE End(c) /\ UNCHANGED <<issued, root>>
    <3>1. ServerTyped' /\ DiskTyped'
      BY <1>2, <2>2 DEF Authenticate, SessionTypeOK, ServerTyped, DiskTyped, Rows, disk
    <3>2. ClientsTyped'
      BY <1>2, <2>2, EndTyped, Counted DEF Authenticate, SessionTypeOK, ClientsTyped
    <3> QED
      BY <3>1, <3>2 DEF SessionTypeOK
  <2> QED
    BY <1>2, <2>1, <2>2 DEF Authenticate
<1> QED
  BY <1>1, <1>2

\* The steps that write the configuration and the credentials.
LEMMA WriteTyped ==
  ASSUME SessionAssumption, SessionTypeOK, NEW c \in Clients,
         \/ OpenConfig(c) \/ WriteConfig(c) \/ CloseConfig(c)
         \/ OpenFile(c) \/ WriteFile(c) \/ CloseFile(c)
  PROVE  SessionTypeOK'
<1>1. UNCHANGED server /\ UNCHANGED <<outcome, disturbed>>
  BY DEF OpenConfig, WriteConfig, CloseConfig, OpenFile, WriteFile, CloseFile
<1>2. ServerTyped'
  BY <1>1 DEF SessionTypeOK, ServerTyped, server, Rows
<1>3. issued' = issued /\ outcome' \in [Clients -> [said : Statuses \cup {"nothing"}, of : 0..issued]]
      /\ disturbed' \in BOOLEAN
  BY <1>1 DEF SessionTypeOK, ClientsTyped, server
<1>4. CASE OpenConfig(c)
  <2>1. DiskTyped'
    <3>1. config' = config \/ config' = [form |-> "empty",
                                          mode |-> IF config.form = "absent" THEN "shared"
                                                                             ELSE config.mode]
      BY <1>4 DEF OpenConfig
    <3>2. config' \in [form : {"absent", "empty", "whole"}, mode : {"none", "shared", "private"}]
      BY <3>1 DEF SessionTypeOK, DiskTyped
    <3> QED
      BY <1>3, <1>4, <3>2 DEF OpenConfig, SessionTypeOK, DiskTyped
  <2>2. CASE config.mode = "shared"
    BY <1>2, <1>3, <1>4, <2>1, <2>2, EndTyped, Counted DEF OpenConfig, SessionTypeOK, ClientsTyped
  <2>3. CASE config.mode # "shared"
    BY <1>2, <1>3, <1>4, <2>1, <2>3 DEF OpenConfig, SessionTypeOK, ClientsTyped, Proceed, Steps
  <2> QED
    BY <2>2, <2>3
<1>5. CASE WriteConfig(c) \/ CloseConfig(c)
  <2>1. DiskTyped'
    BY <1>3, <1>5 DEF WriteConfig, CloseConfig, SessionTypeOK, DiskTyped
  <2> QED
    BY <1>2, <1>3, <1>5, <2>1 DEF WriteConfig, CloseConfig, SessionTypeOK, ClientsTyped, Proceed, Steps
<1>6. CASE OpenFile(c)
  <2>1. DiskTyped' /\ file'.inode \in Nat
    <3>1. inodes' \in Nat
      <4>1. inodes' = inodes \/ inodes' = inodes + 1
        BY <1>6 DEF OpenFile
      <4>2. inodes \in Nat
        BY DEF SessionTypeOK, DiskTyped
      <4> QED
        BY <4>1, <4>2
    <3>2. CASE file = Absent
      <4>1. file' = [id |-> 0, mode |-> "shared", inode |-> inodes + 1]
        BY <1>6, <3>2 DEF OpenFile
      <4> QED
        BY <1>3, <1>6, <3>1, <4>1, Counted DEF OpenFile, SessionTypeOK, DiskTyped
    <3>3. CASE file # Absent
      <4>1. file' = [file EXCEPT !.id = 0]
        BY <1>6, <3>3 DEF OpenFile
      <4> QED
        BY <1>3, <1>6, <3>1, <4>1, Counted DEF OpenFile, SessionTypeOK, DiskTyped
    <3> QED
      BY <3>2, <3>3
  <2> QED
    BY <1>2, <1>3, <1>6, <2>1 DEF OpenFile, SessionTypeOK, ClientsTyped, Proceed, Steps
<1>7. CASE WriteFile(c)
  <2>1. DiskTyped'
    BY <1>3, <1>7 DEF WriteFile, SessionTypeOK, DiskTyped, ClientsTyped
  <2> QED
    BY <1>2, <1>3, <1>7, <2>1 DEF WriteFile, SessionTypeOK, ClientsTyped, Proceed, Steps
<1>8. CASE CloseFile(c)
  <2>1. DiskTyped'
    <3>1. file' = file \/ file' = [file EXCEPT !.mode = "private"]
      BY <1>8 DEF CloseFile
    <3>2. stored' = stored \/ stored' = carried[c]
      BY <1>8 DEF CloseFile
    <3>3. stored' \in 0..issued
      BY <3>2 DEF SessionTypeOK, DiskTyped, ClientsTyped
    <3>4. file' \in [id : 0..issued, mode : {"none", "shared", "private"}, inode : Nat]
      BY <3>1 DEF SessionTypeOK, DiskTyped
    <3> QED
      BY <1>3, <1>8, <3>3, <3>4 DEF CloseFile, SessionTypeOK, DiskTyped
  <2> QED
    BY <1>2, <1>3, <1>8, <2>1, EndTyped, Counted DEF CloseFile, SessionTypeOK, ClientsTyped
<1> QED
  BY <1>4, <1>5, <1>6, <1>7, <1>8

LEMMA LogoutTyped ==
  ASSUME SessionAssumption, SessionTypeOK, StepsOK, NEW c \in Clients,
         Logout(c) \/ ReadConfig(c) \/ Revoke(c) \/ Clear(c) \/ Die(c)
  PROVE  SessionTypeOK'
<1>1. issued' = issued /\ UNCHANGED <<root, pending, raced>> /\ 0 \in 0..issued
  BY Counted DEF Logout, ReadConfig, Revoke, Clear, Die, server
<1>2. CASE Logout(c)
  <2>1. ServerTyped' /\ DiskTyped'
    BY <1>2 DEF Logout, SessionTypeOK, ServerTyped, DiskTyped, server, disk, Rows
  <2>2. Loaded \in 0..issued
    BY <1>1 DEF Loaded, SessionTypeOK, DiskTyped
  <2>3. outcome' \in [Clients -> [said : Statuses \cup {"nothing"}, of : 0..issued]]
    BY <1>1, <1>2 DEF Logout, SessionTypeOK, ClientsTyped, Unsaid
  <2>4. answer' \in [Clients -> Statuses \cup {"nothing"}]
    BY <1>2 DEF Logout, SessionTypeOK, ClientsTyped, Statuses
  <2> QED
    BY <1>1, <1>2, <2>1, <2>2, <2>3, <2>4 DEF Logout, Proceed, Overlaps, SessionTypeOK, ClientsTyped, Steps
<1>3. CASE ReadConfig(c)
  <2>1. ServerTyped' /\ DiskTyped'
    BY <1>3 DEF ReadConfig, SessionTypeOK, ServerTyped, DiskTyped, server, disk, Rows
  <2> QED
    BY <1>1, <1>3, <2>1 DEF ReadConfig, Proceed, Says, Unconfirmed, SessionTypeOK, ClientsTyped, Steps, Statuses
<1>4. CASE Revoke(c)
  <2>1. ended \subseteq ended' /\ ended' \subseteq Rows
    BY <1>1, <1>4, Holding DEF Revoke, StepsOK, StepOK, SessionTypeOK, ServerTyped
  <2>2. ServerTyped'
    BY <1>1, <2>1, SameServer
  <2>3. DiskTyped'
    BY <1>1, <1>4 DEF Revoke, SessionTypeOK, DiskTyped, disk
  <2>4. answer' \in [Clients -> Statuses \cup {"nothing"}]
    BY <1>4 DEF Revoke, Says, Unconfirmed, SessionTypeOK, ClientsTyped, Statuses
  <2> QED
    BY <1>1, <1>4, <2>2, <2>3, <2>4 DEF Revoke, Proceed, SessionTypeOK, ClientsTyped, Steps
<1>5. CASE Clear(c)
  <2>1. ServerTyped' /\ DiskTyped'
    BY <1>1, <1>5 DEF Clear, SessionTypeOK, ServerTyped, DiskTyped, server, Absent, Rows
  <2>2. outcome' \in [Clients -> [said : Statuses \cup {"nothing"}, of : 0..issued]]
    BY <1>1, <1>5 DEF Clear, SessionTypeOK, ClientsTyped, DiskTyped
  <2> QED
    BY <1>1, <1>5, <2>1, <2>2, EndTyped, Counted DEF Clear, SessionTypeOK, ClientsTyped
<1>6. CASE Die(c)
  <2>1. ServerTyped' /\ DiskTyped'
    BY <1>6 DEF Die, SessionTypeOK, ServerTyped, DiskTyped, server, disk, Rows
  <2> QED
    BY <1>1, <1>6, <2>1, EndTyped, Counted DEF Die, SessionTypeOK, ClientsTyped
<1> QED
  BY <1>2, <1>3, <1>4, <1>5, <1>6

LEMMA StepTyped ==
  ASSUME SessionAssumption, SessionTypeOK, RootsOK, StepsOK, [SessionNext]_sessionVars PROVE SessionTypeOK'
<1>1. CASE UNCHANGED sessionVars
  BY <1>1 DEF sessionVars, server, disk, clients, SessionTypeOK, ServerTyped, DiskTyped, ClientsTyped, Rows
<1> QED
  BY <1>1, RefreshTyped, LoginTyped, WriteTyped, LogoutTyped DEF SessionNext

-----------------------------------------------------------------------------
(* The table of credentials *)

\* A step adds a login, writes a refresh, revokes or leaves the table alone.
NewLogin == Issue(0) /\ UNCHANGED <<ended, raced>>
Revokes  == UNCHANGED <<issued, root, raced>> /\ ended \subseteq ended' /\ ended' \subseteq Rows

LEMMA TableSteps ==
  ASSUME SessionAssumption, SessionTypeOK, StepsOK, [SessionNext]_sessionVars
  PROVE  NewLogin \/ Revokes \/ \E t \in Refreshers : RefreshWrite(t)
<1>1. ended \subseteq Rows
  BY DEF SessionTypeOK, ServerTyped
<1>2. ASSUME NEW c \in Clients, Authenticate(c) PROVE NewLogin \/ Revokes
  BY <1>1, <1>2 DEF Authenticate, NewLogin, Revokes
<1>3. ASSUME NEW c \in Clients, Revoke(c) PROVE Revokes
  BY <1>1, <1>3, Holding DEF Revoke, Revokes, StepsOK, StepOK
<1>4. CASE UNCHANGED server
  BY <1>1, <1>4 DEF server, Revokes
<1>5. CASE UNCHANGED sessionVars
  BY <1>4, <1>5 DEF sessionVars
<1>6. ASSUME NEW t \in Refreshers, RefreshRead(t) PROVE Revokes
  BY <1>1, <1>6 DEF RefreshRead, Revokes
<1>7. ASSUME NEW c \in Clients,
             \/ Login(c) \/ OpenConfig(c) \/ WriteConfig(c) \/ CloseConfig(c) \/ OpenFile(c)
             \/ WriteFile(c) \/ CloseFile(c) \/ Logout(c) \/ ReadConfig(c) \/ Clear(c) \/ Die(c)
      PROVE  UNCHANGED server
  BY <1>7 DEF Login, OpenConfig, WriteConfig, CloseConfig, OpenFile, WriteFile, CloseFile,
              Logout, ReadConfig, Clear, Die
<1> QED
  BY <1>2, <1>3, <1>4, <1>5, <1>6, <1>7 DEF SessionNext

\* What a step makes of the line of a row: it gains the new row or nothing.
LEMMA LineGrows ==
  ASSUME SessionAssumption, SessionTypeOK, RootsOK, NEW login \in 0..issued, Issue(login),
         login = 0 \/ login \in Rows
  PROVE  /\ Rows' = Rows \cup {issued + 1} /\ issued + 1 \notin Rows
         /\ \A i \in Rows : root'[i] = root[i]
         /\ root'[issued + 1] = IF login = 0 THEN issued + 1 ELSE login
         /\ RootsOK'
         /\ \A i \in Rows : Lineage(i)' = IF root[i] = login THEN Lineage(i) \cup {issued + 1} ELSE Lineage(i)
<1>1. issued \in Nat /\ issued + 1 \in 1..MaxIssued /\ issued' = issued + 1
  BY Counted, IssueTyped
<1>2. Rows' = Rows \cup {issued + 1} /\ issued + 1 \notin Rows
  BY <1>1 DEF Rows
<1>3. /\ \A i \in Rows : root'[i] = root[i]
      /\ root'[issued + 1] = IF login = 0 THEN issued + 1 ELSE login
  BY <1>1, <1>2 DEF Issue, SessionTypeOK, ServerTyped, Rows
<1>4. RootsOK'
  BY <1>2, <1>3 DEF RootsOK
<1>5. ASSUME NEW i \in Rows
      PROVE  Lineage(i)' = IF root[i] = login THEN Lineage(i) \cup {issued + 1} ELSE Lineage(i)
  <2>1. root[i] \in Rows /\ root[i] # issued + 1 /\ root[i] # 0
    BY <1>1, <1>2 DEF RootsOK, Rows
  <2> QED
    BY <1>2, <1>3, <2>1 DEF Lineage
<1> QED
  BY <1>2, <1>3, <1>4, <1>5

\* The table keeps its promises: one valid credential per login, and a login
\* that has ended has ended for good.
LEMMA TableKept ==
  ASSUME SessionAssumption, SessionTypeOK, RootsOK, OneLivePerLogin, StepsOK, [SessionNext]_sessionVars
  PROVE  /\ RootsOK' /\ OneLivePerLogin'
         /\ ended \subseteq ended'
         /\ \A i \in Rows : Ended(i) => Ended(i)'
<1>1. ended \subseteq Rows /\ raced \subseteq ended
  BY DEF SessionTypeOK, ServerTyped
<1>2. CASE NewLogin
  <2> PICK n : n = issued + 1
    OBVIOUS
  <2>1. /\ Rows' = Rows \cup {n} /\ n \notin Rows
        /\ root'[n] = n /\ RootsOK'
        /\ \A i \in Rows : root'[i] = root[i] /\ root[i] \in Rows /\ Lineage(i)' = Lineage(i)
    <3>1. 0 \in 0..issued /\ Issue(0) /\ \A i \in Rows : root[i] \in Rows /\ root[i] # 0
      BY <1>2, Counted DEF NewLogin, RootsOK, Rows
    <3> QED
      BY <3>1, LineGrows
  <2>2. Lineage(n)' = {n}
    BY <2>1 DEF Lineage
  <2>3. UNCHANGED <<ended, raced>>
    BY <1>2 DEF NewLogin
  <2>4. \A i \in Rows : Lineage(i) \subseteq Rows
    BY DEF Lineage
  <2>5. \A i \in Rows : Lineage(i)' \cap Live' = Lineage(i) \cap Live
    BY <2>1, <2>3, <2>4 DEF Live
  <2>6. OneLivePerLogin'
    BY <2>1, <2>2, <2>3, <2>5 DEF OneLivePerLogin
  <2>7. \A i \in Rows : Ended(i) => Ended(i)'
    BY <2>1, <2>3, <2>5 DEF Ended, Dead
  <2> QED
    BY <2>1, <2>3, <2>6, <2>7
<1>3. CASE Revokes
  <2>1. UNCHANGED <<issued, root, raced>> /\ ended \subseteq ended'
    BY <1>3 DEF Revokes
  <2>2. Rows' = Rows /\ \A i \in Rows : Lineage(i)' = Lineage(i)
    BY <2>1 DEF Rows, Lineage
  <2>3. Live' \subseteq Live
    BY <2>1, <2>2 DEF Live
  <2>4. RootsOK' /\ OneLivePerLogin'
    BY <2>1, <2>2, <2>3 DEF RootsOK, OneLivePerLogin
  <2>5. \A i \in Rows : Ended(i) => Ended(i)'
    BY <2>1, <2>2, <2>3 DEF Ended, Dead
  <2> QED
    BY <2>1, <2>4, <2>5
<1>4. ASSUME NEW t \in Refreshers, RefreshWrite(t)
      PROVE  /\ RootsOK' /\ OneLivePerLogin'
             /\ ended \subseteq ended'
             /\ \A i \in Rows : Ended(i) => Ended(i)'
  <2> PICK p, n : p = pending[t] /\ n = issued + 1
    OBVIOUS
  <2>1. p \in Rows /\ root[p] \in Rows /\ root[p] \in 0..issued /\ root[p] # 0 /\ Issue(root[p])
    BY <1>4, Counted DEF RefreshWrite, SessionTypeOK, ServerTyped, Rows, RootsOK
  <2>2. /\ Rows' = Rows \cup {n} /\ n \notin Rows
        /\ root'[n] = root[p] /\ RootsOK'
        /\ \A i \in Rows : root'[i] = root[i]
        /\ \A i \in Rows : Lineage(i)' = IF root[i] = root[p] THEN Lineage(i) \cup {n} ELSE Lineage(i)
    BY <2>1, LineGrows
  <2>3. ended' = ended \cup {p} /\ raced' = raced \cup ({p} \cap ended)
    BY <1>4 DEF RefreshWrite
  <2>4. Lineage(n)' = Lineage(p) \cup {n}
    BY <2>1, <2>2 DEF Lineage
  <2>5. Live' = (Live \ {p}) \cup {n}
    BY <1>1, <2>1, <2>2, <2>3 DEF Live
  <2>6. \A i \in Rows : Lineage(i) \subseteq Rows /\ (root[i] = root[p] => Lineage(i) = Lineage(p) /\ p \in Lineage(i))
    BY <2>1 DEF Lineage
  <2>7. ASSUME NEW i \in Rows, root[i] # root[p]
        PROVE  /\ Lineage(i)' = Lineage(i) /\ Lineage(i)' \cap raced' = Lineage(i) \cap raced
               /\ Lineage(i)' \cap Live' = Lineage(i) \cap Live
    <3>1. p \notin Lineage(i) /\ n \notin Lineage(i) /\ Lineage(i)' = Lineage(i)
      BY <2>1, <2>2, <2>7 DEF Lineage
    <3> QED
      BY <2>3, <2>5, <3>1
  <2>8. ASSUME (Lineage(p) \cup {n}) \cap raced' = {}
        PROVE  p \notin ended /\ Lineage(p) \cap raced = {} /\ (Lineage(p) \cup {n}) \cap Live' = {n}
    <3>1. p \in Lineage(p)
      BY <2>1, <2>6
    <3>2. p \notin ended /\ Lineage(p) \cap raced = {}
      BY <2>3, <2>8, <3>1
    <3>3. \A j, k \in Lineage(p) \cap Live : j = k
      BY <2>1, <3>2 DEF OneLivePerLogin
    <3>4. p \in Lineage(p) \cap Live
      BY <2>1, <3>1, <3>2 DEF Live
    <3>5. \A j \in Lineage(p) \cap Live : j = p
      BY <3>3, <3>4
    <3> QED
      BY <2>5, <3>2, <3>5
  <2>9. OneLivePerLogin'
    <3> SUFFICES ASSUME NEW i \in Rows', Lineage(i)' \cap raced' = {},
                        NEW j \in Lineage(i)' \cap Live', NEW k \in Lineage(i)' \cap Live'
                 PROVE  j = k
      BY DEF OneLivePerLogin
    <3>1. CASE i \in Rows /\ root[i] # root[p]
      BY <2>7, <3>1 DEF OneLivePerLogin
    <3>2. CASE i = n \/ (i \in Rows /\ root[i] = root[p])
      <4>1. Lineage(i)' = Lineage(p) \cup {n}
        BY <2>2, <2>4, <2>6, <3>2
      <4> QED
        BY <2>8, <4>1
    <3> QED
      BY <2>2, <3>1, <3>2
  <2>10. ASSUME NEW i \in Rows, Ended(i) PROVE Ended(i)'
    <3>1. CASE root[i] # root[p]
      BY <2>3, <2>7, <2>10, <3>1 DEF Ended, Dead
    <3>2. CASE root[i] = root[p]
      <4>1. Lineage(i)' = Lineage(p) \cup {n} /\ Lineage(i) = Lineage(p) /\ p \in Lineage(p)
        BY <2>2, <2>6, <3>2
      <4>2. Lineage(i)' \cap raced' # {}
        <5> SUFFICES ASSUME (Lineage(p) \cup {n}) \cap raced' = {} PROVE FALSE
          BY <4>1
        <5>1. p \notin ended /\ Lineage(p) \cap raced = {}
          BY <2>8
        <5>2. Lineage(p) \cap Live = {}
          BY <2>10, <4>1, <5>1 DEF Ended, Dead
        <5> QED
          BY <2>1, <4>1, <5>1, <5>2 DEF Live
      <4> QED
        BY <2>3, <2>10, <4>2 DEF Ended, Dead
    <3> QED
      BY <3>1, <3>2
  <2> QED
    BY <2>2, <2>3, <2>9, <2>10
<1> QED
  BY <1>2, <1>3, <1>4, TableSteps

\* Revoking a valid credential ends its login.
LEMMA RevokingEnds ==
  ASSUME SessionTypeOK, RootsOK, OneLivePerLogin, NEW i \in Live,
         UNCHANGED <<issued, root, raced>>, ended' = ended \cup {i}
  PROVE  Ended(i)'
<1>1. Rows' = Rows /\ Lineage(i)' = Lineage(i) /\ i \in Rows /\ i \in Lineage(i)
  BY DEF Rows, Lineage, Live
<1>2. Lineage(i) \cap raced = {} => \A j \in Lineage(i) \cap Live : j = i
  BY <1>1 DEF OneLivePerLogin
<1>3. Live' = Live \ {i}
  BY <1>1 DEF Live
<1> QED
  BY <1>1, <1>2, <1>3 DEF Ended, Dead

-----------------------------------------------------------------------------
(* The clients *)

\* The other clients' steps and answers stay as they are.
LEMMA OthersKept ==
  ASSUME SessionAssumption, SessionTypeOK, RootsOK, OneLivePerLogin, StepsOK, [SessionNext]_sessionVars, NEW d \in Clients,
         step'[d] = step[d], carried'[d] = carried[d], answer'[d] = answer[d]
  PROVE  StepOK(d)'
<1>1. ended \subseteq ended' /\ ended \subseteq Rows /\ \A i \in Rows : Ended(i) => Ended(i)'
  BY TableKept DEF SessionTypeOK, ServerTyped
<1>2. PICK h : h = carried[d]
  OBVIOUS
<1>3. Ended(h) => Ended(h)'
  BY <1>1 DEF Ended
<1>4. answer'[d] = "server_revocation_success" => Ended(carried[d])'
  <2>1. answer[d] = "server_revocation_success" => Ended(h)
    BY <1>2 DEF StepsOK, StepOK
  <2>2. Ended(h)' => Ended(carried[d])'
    BY <1>2 DEF Ended, Dead, Lineage, Rows, Live
  <2> QED
    BY <1>3, <2>1, <2>2
<1> QED
  BY <1>1, <1>4 DEF StepsOK, StepOK

LEMMA EndingOK ==
  ASSUME SessionTypeOK, NEW c \in Clients, End(c)
  PROVE  StepOK(c)' /\ step'[c] = "idle"
BY DEF SessionTypeOK, ClientsTyped, End, Proceed, StepOK, Logins, Logouts

\* Only the client that takes the step changes.
LEMMA OneMoves ==
  ASSUME SessionTypeOK, [SessionNext]_sessionVars
  PROVE  \/ UNCHANGED <<step, carried, answer>>
         \/ \E c \in Clients :
              /\ \/ Login(c) \/ Authenticate(c) \/ OpenConfig(c) \/ WriteConfig(c) \/ CloseConfig(c)
                 \/ OpenFile(c) \/ WriteFile(c) \/ CloseFile(c)
                 \/ Logout(c) \/ ReadConfig(c) \/ Revoke(c) \/ Clear(c) \/ Die(c)
              /\ \A d \in Clients \ {c} : /\ step'[d] = step[d] /\ carried'[d] = carried[d]
                                          /\ answer'[d] = answer[d] /\ outcome'[d] = outcome[d]
<1>1. CASE UNCHANGED sessionVars
  BY <1>1 DEF sessionVars, clients
<1>2. ASSUME NEW t \in Refreshers, RefreshRead(t) \/ RefreshWrite(t)
      PROVE  UNCHANGED <<step, carried, answer>>
  BY <1>2 DEF RefreshRead, RefreshWrite, clients
<1>3. ASSUME NEW c \in Clients,
             \/ Login(c) \/ Authenticate(c) \/ OpenConfig(c) \/ WriteConfig(c) \/ CloseConfig(c)
             \/ OpenFile(c) \/ WriteFile(c) \/ CloseFile(c)
      PROVE  \A d \in Clients \ {c} : /\ step'[d] = step[d] /\ carried'[d] = carried[d]
                                      /\ answer'[d] = answer[d] /\ outcome'[d] = outcome[d]
  BY <1>3 DEF SessionTypeOK, ClientsTyped, Login, Authenticate, OpenConfig, WriteConfig, CloseConfig,
              OpenFile, WriteFile, CloseFile, End, Proceed
<1>4. ASSUME NEW c \in Clients, Logout(c) \/ ReadConfig(c) \/ Revoke(c) \/ Clear(c) \/ Die(c)
      PROVE  \A d \in Clients \ {c} : /\ step'[d] = step[d] /\ carried'[d] = carried[d]
                                      /\ answer'[d] = answer[d] /\ outcome'[d] = outcome[d]
  BY <1>4 DEF SessionTypeOK, ClientsTyped, Logout, ReadConfig, Revoke, Clear, Die, End, Proceed, Says
<1> QED
  BY <1>1, <1>2, <1>3, <1>4 DEF SessionNext

LEMMA StepsKept ==
  ASSUME SessionAssumption, SessionTypeOK, RootsOK, OneLivePerLogin, StepsOK, [SessionNext]_sessionVars
  PROVE  StepsOK'
<1>1. CASE UNCHANGED <<step, carried, answer>>
  <2>1. \A d \in Clients : StepOK(d)'
    BY <1>1, OthersKept
  <2> QED
    BY <2>1 DEF StepsOK
<1>2. ASSUME NEW c \in Clients,
             \/ Login(c) \/ Authenticate(c) \/ OpenConfig(c) \/ WriteConfig(c) \/ CloseConfig(c)
             \/ OpenFile(c) \/ WriteFile(c) \/ CloseFile(c)
             \/ Logout(c) \/ ReadConfig(c) \/ Revoke(c) \/ Clear(c) \/ Die(c)
      PROVE  StepOK(c)'
  <2> USE DEF Proceed, Logins, Logouts
  <2>0. StepOK(c) /\ step \in [Clients -> Steps] /\ carried \in [Clients -> 0..issued]
        /\ answer \in [Clients -> Statuses \cup {"nothing"}] /\ issued \in Nat
    BY Counted DEF StepsOK, SessionTypeOK, ClientsTyped
  <2>1. CASE Login(c)
    BY <2>0, <2>1 DEF Login, StepOK
  <2>2. CASE End(c)
    BY <2>2, EndingOK
  <2>3. CASE Authenticate(c) /\ ~End(c)
    <3>1. /\ step' = [step EXCEPT ![c] = "open config"] /\ carried' = [carried EXCEPT ![c] = issued + 1]
          /\ UNCHANGED answer /\ step[c] = "login"
      BY <2>3 DEF Authenticate
    <3>2. step'[c] = "open config" /\ carried'[c] = issued + 1 /\ answer'[c] = "nothing"
      BY <2>0, <3>1 DEF StepOK
    <3>3. issued + 1 # 0
      BY <2>0
    <3>4. carried'[c] # 0
      BY <3>2, <3>3
    <3> QED
      BY <3>2, <3>4 DEF StepOK
  <2>4. CASE (OpenConfig(c) \/ WriteConfig(c) \/ CloseConfig(c) \/ OpenFile(c) \/ WriteFile(c)) /\ ~End(c)
    <3>1. /\ step[c] \in Logins /\ step'[c] \in Logins
          /\ UNCHANGED <<carried, answer>>
      BY <2>0, <2>4 DEF OpenConfig, WriteConfig, CloseConfig, OpenFile, WriteFile
    <3>2. carried'[c] # 0 /\ answer'[c] = "nothing"
      BY <2>0, <3>1 DEF StepOK
    <3> QED
      BY <3>1, <3>2 DEF StepOK
  <2>5. CASE Logout(c)
    BY <2>0, <2>5 DEF Logout, StepOK
  <2>6. CASE ReadConfig(c)
    <3>1. CASE step'[c] = "revoke" /\ UNCHANGED answer
      <4>1. carried[c] # 0 /\ UNCHANGED <<carried, ended, raced, issued, root>>
        BY <2>0, <2>6 DEF ReadConfig, StepOK, server
      <4>2. Ended(carried[c])' <=> Ended(carried[c])
        BY <4>1 DEF Ended, Dead, Lineage, Live, Rows
      <4> QED
        BY <2>0, <3>1, <4>1, <4>2 DEF StepOK
    <3>2. CASE step'[c] = "clear" /\ answer'[c] = Unconfirmed
      BY <3>2 DEF StepOK, Unconfirmed
    <3> QED
      BY <2>0, <2>6, <3>1, <3>2 DEF ReadConfig, Says
  <2>7. CASE Revoke(c)
    <3>1. /\ step'[c] = "clear" /\ UNCHANGED <<carried, issued, root, raced>> /\ carried[c] # 0
          /\ \/ answer'[c] = Unconfirmed
             \/ carried[c] \in ended /\ answer'[c] = "local_logout_success"
             \/ /\ carried[c] \notin ended /\ answer'[c] = "server_revocation_success"
                /\ ended' = ended \cup {carried[c]}
      BY <2>0, <2>7 DEF Revoke, Says, StepOK
    <3>2. PICK h : h = carried[c]
      OBVIOUS
    <3>3. h \in Rows
      BY <3>1, <3>2, Holding
    <3>4. ended \subseteq ended'
      BY TableKept
    <3>5. CASE answer'[c] = "server_revocation_success"
      <4>1. h \in Live /\ ended' = ended \cup {h}
        BY <3>1, <3>2, <3>3, <3>5 DEF Live, Unconfirmed
      <4>2. Ended(h)'
        BY <3>1, <4>1, RevokingEnds
      <4>3. Ended(carried[c])'
        BY <3>1, <3>2, <4>2 DEF Ended, Dead, Lineage, Live, Rows
      <4> QED
        BY <3>1, <3>5, <4>3 DEF StepOK
    <3>6. CASE answer'[c] # "server_revocation_success"
      BY <3>1, <3>4, <3>6 DEF StepOK, Unconfirmed
    <3> QED
      BY <3>5, <3>6
  <2> QED
    BY <1>2, <2>1, <2>2, <2>3, <2>4, <2>5, <2>6, <2>7 DEF CloseFile, Clear, Die
<1>3. ASSUME NEW c \in Clients, StepOK(c)',
             \A d \in Clients \ {c} : /\ step'[d] = step[d] /\ carried'[d] = carried[d]
                                      /\ answer'[d] = answer[d] /\ outcome'[d] = outcome[d]
      PROVE  StepsOK'
  <2>1. \A d \in Clients \ {c} : StepOK(d)'
    BY <1>3, OthersKept
  <2> QED
    BY <1>3, <2>1 DEF StepsOK
<1> QED
  BY <1>1, <1>2, <1>3, OneMoves

LEMMA SaidKept ==
  ASSUME SessionAssumption, SessionTypeOK, RootsOK, OneLivePerLogin, StepsOK, AllSaid, FileOK, [SessionNext]_sessionVars
  PROVE  AllSaid'
<1>1. ended \subseteq ended' /\ ended \subseteq Rows /\ \A i \in Rows : Ended(i) => Ended(i)'
  BY TableKept DEF SessionTypeOK, ServerTyped
<1>2. ~disturbed' => ~disturbed
  <2>1. ASSUME NEW t \in Refreshers, RefreshRead(t) \/ RefreshWrite(t) PROVE disturbed' = disturbed
    BY <2>1 DEF RefreshRead, RefreshWrite, clients
  <2>2. ASSUME NEW c \in Clients,
               \/ Login(c) \/ Authenticate(c) \/ OpenConfig(c) \/ WriteConfig(c) \/ CloseConfig(c)
               \/ OpenFile(c) \/ WriteFile(c) \/ CloseFile(c)
               \/ Logout(c) \/ ReadConfig(c) \/ Revoke(c) \/ Clear(c) \/ Die(c)
        PROVE  disturbed' = disturbed \/ disturbed'
               \/ disturbed' = (disturbed \/ \E d \in Clients \ {c} : step[d] # "idle")
    BY <2>2 DEF Login, Authenticate, OpenConfig, WriteConfig, CloseConfig, OpenFile, WriteFile,
                CloseFile, Logout, ReadConfig, Revoke, Clear, Die, Overlaps
  <2>3. CASE UNCHANGED sessionVars
    BY <2>3 DEF sessionVars, clients
  <2> QED
    BY <2>1, <2>2, <2>3 DEF SessionNext
<1>3. ASSUME NEW d \in Clients, outcome'[d] = outcome[d] PROVE SaidOK(d)'
  <2>1. PICK o : o = outcome[d].of
    OBVIOUS
  <2>2. Ended(o) => Ended(o)'
    BY <1>1 DEF Ended
  <2>3. Ended(o)' <=> Ended(outcome[d].of)'
    BY <1>3, <2>1 DEF Ended, Dead, Lineage, Rows, Live
  <2>4. outcome'[d].said = "server_revocation_success" => Ended(outcome[d].of)'
    BY <1>3, <2>1, <2>2, <2>3 DEF AllSaid, SaidOK
  <2> QED
    BY <1>1, <1>2, <1>3, <2>4 DEF AllSaid, SaidOK
<1>4. CASE UNCHANGED outcome
  BY <1>3, <1>4 DEF AllSaid
<1>5. ASSUME NEW c \in Clients, Logout(c) PROVE AllSaid'
  <2>1. outcome' = [outcome EXCEPT ![c] = Unsaid]
    BY <1>5 DEF Logout
  <2>2. \A d \in Clients \ {c} : outcome'[d] = outcome[d]
    BY <2>1 DEF SessionTypeOK, ClientsTyped
  <2>3. outcome'[c].said = "nothing"
    BY <2>1 DEF SessionTypeOK, ClientsTyped, Unsaid
  <2>4. SaidOK(c)'
    BY <2>3 DEF SaidOK
  <2> QED
    BY <1>3, <2>2, <2>4 DEF AllSaid
<1>6. ASSUME NEW c \in Clients, Clear(c) PROVE AllSaid'
  <2>1. /\ outcome' = [outcome EXCEPT ![c] =
                        [said |-> answer[c], of |-> IF carried[c] = 0 THEN stored ELSE carried[c]]]
        /\ step[c] = "clear" /\ UNCHANGED server /\ disturbed' = disturbed
    BY <1>6 DEF Clear
  <2>2. \A d \in Clients \ {c} : outcome'[d] = outcome[d]
    BY <2>1 DEF SessionTypeOK, ClientsTyped
  <2>3. outcome'[c] = [said |-> answer[c], of |-> IF carried[c] = 0 THEN stored ELSE carried[c]]
    BY <2>1 DEF SessionTypeOK, ClientsTyped
  <2>4. StepOK(c) /\ 0 \notin Rows
    BY DEF StepsOK, Rows
  <2>5. outcome'[c].said = "server_revocation_success" => Ended(outcome[c].of)'
    <3> SUFFICES ASSUME answer[c] = "server_revocation_success" PROVE Ended(outcome[c].of)'
      BY <2>3
    <3>1. PICK h : h = carried[c]
      OBVIOUS
    <3>2. Ended(h) /\ h # 0
      BY <1>1, <2>4, <3>1 DEF StepOK, Ended
    <3>3. Ended(h)' /\ outcome'[c].of = h
      BY <1>1, <2>3, <3>1, <3>2 DEF Ended
    <3> QED
      BY <3>3 DEF Ended, Dead, Lineage, Rows, Live
  <2>6. answer[c] = "local_logout_success" /\ ~disturbed => outcome'[c].of \in ended \cup {0}
    <3>1. ~disturbed => Writing(c)
      BY DEF FileOK
    <3>2. CASE carried[c] = 0
      BY <2>1, <2>3, <3>1, <3>2 DEF Writing
    <3>3. CASE carried[c] # 0
      BY <2>1, <2>3, <2>4, <3>3 DEF StepOK
    <3> QED
      BY <3>2, <3>3
  <2>7. SaidOK(c)'
    BY <1>1, <2>1, <2>3, <2>5, <2>6 DEF SaidOK
  <2> QED
    BY <1>3, <2>2, <2>7 DEF AllSaid
<1>7. UNCHANGED outcome \/ \E c \in Clients : Logout(c) \/ Clear(c)
  BY DEF SessionNext, sessionVars, clients, RefreshRead, RefreshWrite, Login, Authenticate, OpenConfig, WriteConfig,
         CloseConfig, OpenFile, WriteFile, CloseFile, ReadConfig, Revoke, Die
<1> QED
  BY <1>4, <1>5, <1>6, <1>7

-----------------------------------------------------------------------------
(* The file *)

\* Where one client is on the move, the file is as it says or settled.
LEMMA AloneIsEnough ==
  ASSUME NEW c \in Clients, \A d \in Clients \ {c} : step'[d] = "idle", Writing(c)',
         step'[c] \notin {"write file", "close file"} => Settled'
  PROVE  FileOK'
<1>1. \A d \in Clients \ {c} : Writing(d)'
  BY DEF Writing
<1> QED
  BY <1>1 DEF FileOK

LEMMA FileKept ==
  ASSUME SessionAssumption, SessionTypeOK, StepsOK, FileOK, [SessionNext]_sessionVars
  PROVE  FileOK'
<1>1. CASE UNCHANGED <<step, carried, opened, file, stored, disturbed>>
  BY <1>1 DEF FileOK, Settled, Writing
<1>2. ASSUME NEW c \in Clients,
             \/ Login(c) \/ Authenticate(c) \/ OpenConfig(c) \/ WriteConfig(c) \/ CloseConfig(c)
             \/ OpenFile(c) \/ WriteFile(c) \/ CloseFile(c)
             \/ Logout(c) \/ ReadConfig(c) \/ Revoke(c) \/ Clear(c) \/ Die(c),
             ~disturbed'
      PROVE  FileOK'
  <2>0. /\ step \in [Clients -> Steps] /\ carried \in [Clients -> 0..issued] /\ issued \in Nat
        /\ opened \in [Clients -> Nat] /\ StepOK(c)
        /\ file \in [id : 0..issued, mode : {"none", "shared", "private"}, inode : Nat]
    BY Counted DEF SessionTypeOK, ClientsTyped, DiskTyped, StepsOK
  <2>1. /\ ~disturbed
        /\ \A d \in Clients \ {c} : step[d] = "idle"
    <3>1. CASE Login(c) \/ Logout(c)
      BY <1>2, <3>1 DEF Login, Logout, Overlaps
    <3>2. CASE ~(Login(c) \/ Logout(c))
      <4>1. step[c] # "idle" /\ (disturbed' = disturbed \/ disturbed' = TRUE)
        BY <1>2, <3>2 DEF Authenticate, OpenConfig, WriteConfig, CloseConfig, OpenFile, WriteFile,
                          CloseFile, ReadConfig, Revoke, Clear, Die
      <4>2. ~disturbed
        BY <1>2, <4>1
      <4> QED
        BY <4>1, <4>2 DEF FileOK
    <3> QED
      BY <3>1, <3>2
  <2>2. \A d \in Clients \ {c} : step'[d] = "idle"
    <3>1. \A d \in Clients \ {c} : step'[d] = step[d]
      BY <1>2, <2>0 DEF Login, Authenticate, OpenConfig, WriteConfig, CloseConfig, OpenFile, WriteFile,
                CloseFile, Logout, ReadConfig, Revoke, Clear, Die, End, Proceed
    <3> QED
      BY <2>1, <3>1
  <2>3. step[c] \notin {"write file", "close file"} => Settled
    BY <2>1 DEF FileOK
  <2>4. Writing(c)
    BY <2>1 DEF FileOK
  <2>5. CASE Login(c) \/ Authenticate(c) \/ OpenConfig(c) \/ WriteConfig(c) \/ CloseConfig(c)
    <3>1. UNCHANGED <<file, stored>> /\ step[c] \notin {"write file", "close file"}
          /\ step'[c] \notin {"write file", "close file", "clear"}
      BY <2>0, <2>5 DEF Login, Authenticate, OpenConfig, WriteConfig, CloseConfig, End, Proceed, disk
    <3>2. Settled' /\ Writing(c)'
      BY <2>3, <3>1 DEF Settled, Writing
    <3> QED
      BY <2>2, <3>2, AloneIsEnough
  <2>6. CASE OpenFile(c)
    <3>1. /\ step'[c] = "write file" /\ opened'[c] = file'.inode /\ Settled
      BY <2>0, <2>3, <2>6 DEF OpenFile, Proceed
    <3>2. file'.mode # "none"
      <4>1. CASE file = Absent
        <5>1. file' = [id |-> 0, mode |-> "shared", inode |-> inodes + 1]
          BY <2>6, <4>1 DEF OpenFile
        <5> QED
          BY <5>1
      <4>2. CASE file # Absent
        <5>1. file' = [file EXCEPT !.id = 0] /\ file.mode = "private"
          BY <2>6, <3>1, <4>2 DEF OpenFile, Settled
        <5> QED
          BY <2>0, <5>1
      <4> QED
        BY <4>1, <4>2
    <3>3. Writing(c)'
      BY <3>1, <3>2 DEF Writing
    <3> QED
      BY <2>2, <3>1, <3>3, AloneIsEnough
  <2>7. CASE WriteFile(c)
    <3>1. /\ step'[c] = "close file" /\ file' = [file EXCEPT !.id = carried[c]] /\ carried' = carried
          /\ file.mode # "none"
      BY <2>0, <2>4, <2>7 DEF WriteFile, Proceed, Writing
    <3>2. Writing(c)'
      BY <2>0, <3>1 DEF Writing
    <3> QED
      BY <2>2, <3>1, <3>2, AloneIsEnough
  <2>8. CASE CloseFile(c)
    <3>1. step[c] = "close file" /\ file.id = carried[c] /\ file.mode # "none" /\ carried[c] # 0
      BY <2>0, <2>4, <2>8 DEF CloseFile, Writing, StepOK, Logins
    <3>2. file # Absent
      <4>1. Absent.mode = "none"
        BY DEF Absent
      <4> QED
        BY <3>1, <4>1
    <3>3. file' = [file EXCEPT !.mode = "private"] /\ stored' = carried[c] /\ step'[c] = "idle"
      BY <2>0, <2>8, <3>2 DEF CloseFile, End, Proceed
    <3>4. Settled' /\ Writing(c)'
      BY <2>0, <3>1, <3>3 DEF Settled, Writing
    <3> QED
      BY <2>2, <3>4, AloneIsEnough
  <2>9. CASE Logout(c)
    <3>1. UNCHANGED <<file, stored>> /\ Settled /\ carried'[c] = Loaded
          /\ step'[c] \in {"clear", "read config"}
      BY <2>0, <2>3, <2>9 DEF Logout, Proceed, disk
    <3>2. Loaded = 0 => stored = 0
      BY <3>1 DEF Loaded, Settled, Absent
    <3>3. Settled' /\ Writing(c)'
      BY <3>1, <3>2 DEF Settled, Writing
    <3> QED
      BY <2>2, <3>3, AloneIsEnough
  <2>10. CASE ReadConfig(c) \/ Revoke(c)
    <3>1. UNCHANGED <<file, stored, carried>> /\ Settled /\ carried[c] # 0 /\ step'[c] \in {"clear", "revoke"}
      BY <2>0, <2>3, <2>10 DEF ReadConfig, Revoke, Proceed, disk, StepOK
    <3>2. Settled' /\ Writing(c)'
      BY <3>1 DEF Settled, Writing
    <3> QED
      BY <2>2, <3>2, AloneIsEnough
  <2>11. CASE Clear(c)
    <3>1. file' = Absent /\ stored' = 0 /\ step'[c] = "idle"
      BY <2>0, <2>11 DEF Clear, End, Proceed
    <3>2. Settled' /\ Writing(c)'
      BY <3>1 DEF Settled, Writing, Absent
    <3> QED
      BY <2>2, <3>2, AloneIsEnough
  <2>12. CASE Die(c)
    BY <1>2, <2>12 DEF Die
  <2> QED
    BY <1>2, <2>5, <2>6, <2>7, <2>8, <2>9, <2>10, <2>11, <2>12
<1>3. CASE disturbed'
  BY <1>3 DEF FileOK
<1>4. CASE UNCHANGED sessionVars
  BY <1>1, <1>4 DEF sessionVars, disk, clients
<1>5. ASSUME NEW t \in Refreshers, RefreshRead(t) \/ RefreshWrite(t)
      PROVE  UNCHANGED <<step, carried, opened, file, stored, disturbed>>
  BY <1>5 DEF RefreshRead, RefreshWrite, disk, clients
<1> QED
  BY <1>1, <1>2, <1>3, <1>4, <1>5 DEF SessionNext

-----------------------------------------------------------------------------
LEMMA InitIInv == ASSUME SessionAssumption, SessionInit PROVE IInv
<1>1. SessionTypeOK
  BY InitTyped
<1>2. RootsOK /\ OneLivePerLogin
  BY DEF SessionInit, RootsOK, OneLivePerLogin, Rows
<1>3. StepsOK /\ AllSaid
  BY DEF SessionInit, StepsOK, StepOK, AllSaid, SaidOK, Logins, Logouts, Unsaid
<1>4. FileOK
  BY DEF SessionInit, FileOK, Settled, Writing
<1> QED
  BY <1>1, <1>2, <1>3, <1>4 DEF IInv

LEMMA StepIInv == ASSUME SessionAssumption, IInv, [SessionNext]_sessionVars PROVE IInv'
BY StepTyped, TableKept, StepsKept, SaidKept, FileKept DEF IInv

LEMMA Invariance == ASSUME SessionAssumption PROVE SessionSpec => []IInv
<1>1. SessionInit => IInv
  BY InitIInv
<1>2. IInv /\ [SessionNext]_sessionVars => IInv'
  BY StepIInv
<1> QED
  BY <1>1, <1>2, PTL DEF SessionSpec

\* Every variable holds a value of its kind.
THEOREM SessionsTyped == ASSUME SessionAssumption PROVE SessionSpec => []SessionTypeOK
<1>1. IInv => SessionTypeOK
  BY DEF IInv
<1> QED
  BY <1>1, Invariance, PTL

\* SessionsEnd, for any number of commands, threads and credentials: a login
\* has one valid credential at most, and what a logout said of it is true.
THEOREM SessionsDoEnd == ASSUME SessionAssumption PROVE SessionSpec => []SessionsEnd
<1>1. IInv => OneLivePerLogin
  BY DEF IInv
<1>2. IInv => LogoutIsTrue
  <2> SUFFICES ASSUME IInv, NEW c \in Clients
               PROVE  LET o == outcome[c] IN
                      /\ o.said = "server_revocation_success" =>
                            o.of \in ended /\ (Lineage(o.of) \cap raced = {} => Lineage(o.of) \cap Live = {})
                      /\ o.said = "local_logout_success" /\ ~disturbed => o.of \in ended \cup {0}
    BY DEF LogoutIsTrue
  <2>1. SaidOK(c)
    BY DEF IInv, AllSaid
  <2> QED
    BY <2>1 DEF SaidOK, Ended, Dead
<1>3. IInv => SessionsEnd
  BY <1>1, <1>2 DEF SessionsEnd
<1> QED
  BY <1>3, Invariance, PTL
=============================================================================
