-------------------------- MODULE HostedGovernance --------------------------
(***************************************************************************)
(* The optional hosted control plane: memberships, repositories, services  *)
(* with their tokens and assignments of one organization, in one SQLite    *)
(* database.  Every request has a thread and its own connections.  Creates *)
(* and membership changes take the write lock before they read anything,   *)
(* so each is one action; the other changes check the permission on one    *)
(* connection and write on the next, so each is two.  Every change writes  *)
(* its audit event in the same transaction.                                *)
(***************************************************************************)
EXTENDS Naturals, FiniteSets

CONSTANTS
    Users,          \* active users of the server
    Founder,        \* the user the organization was bootstrapped for
    Repositories,   \* repository ids
    Services,       \* service ids
    Tokens,         \* service token ids
    NoService,      \* no id
    Given,          \* the roles anybody is ever given (a bound)
    Calls,          \* the creates that clients send, and send again (a bound)
    Threads         \* request threads that may be between check and write

\* ROLE_PERMISSIONS
Permissions ==
    [owner      |-> {"members:write", "repositories:read", "repositories:write",
                     "services:write", "artifacts:write", "audit:read"},
     maintainer |-> {"repositories:read", "repositories:write", "artifacts:write", "audit:read"},
     reviewer   |-> {"repositories:read", "audit:read"},
     member     |-> {"repositories:read"}]

Roles == {"owner", "maintainer", "reviewer", "member"}
Kinds == {"repository", "service", "member", "token", "assignment"}

Assignments == Services \X Repositories
Resources   == Users \cup Repositories \cup Services \cup Assignments

\* Ids of different kinds differ: usr_, repo_, svc_ and asn_ start them.
ASSUME GovernanceAssumption ==
    /\ Founder \in Users
    /\ Users \cap (Repositories \cup Services \cup Assignments) = {}
    /\ Repositories \cap (Services \cup Assignments) = {}
    /\ Services \cap Assignments = {}
    /\ NoService \notin Services
    /\ Given \subseteq Roles
    /\ \A c \in Calls :
          /\ c.kind \in Kinds /\ c.user \in Users
          /\ c.kind \in {"token", "assignment"} => c.of \in Services
          /\ c.kind = "assignment" => c.body \in Repositories
          /\ c.kind = "member" => c.body.who \in Users /\ c.body.role \in Roles

VARIABLES
    role,        \* memberships: the role of each user, "none" or "removed"
    repository,  \* repositories: status
    service,     \* service_identities: status
    token,       \* service_tokens: the service of each token
    revoked,     \* the tokens with a revoked_at
    assigned,    \* repository_assignments with status active
    idem,        \* idempotency: the creates that committed, and what they made
    event,       \* audit_events: the last event of each resource
    answers,     \* history: what clients were told was created
    thread       \* what each thread was permitted to write

tables == <<role, repository, service, token, revoked, assigned, event>>
governanceVars == <<tables, idem, answers, thread>>

Actions ==
    {"none", "membership_added", "membership_reactivated", "membership_role_changed",
     "membership_removed", "repository_registered", "repository_active",
     "repository_inactive", "service_created", "service_revoked", "service_assigned",
     "service_assignment_removed"}

\* The changes a thread may have been permitted to make.
Changes ==
    [op : {"active", "inactive"}, repository : Repositories] \cup
    [op : {"revoke"}, service : Services] \cup
    [op : {"unassign"}, pair : Assignments]
Idle == [op |-> "none"]

GovernanceTypeOK ==
    /\ role \in [Users -> Roles \cup {"none", "removed"}]
    /\ repository \in [Repositories -> {"none", "active", "inactive"}]
    /\ service \in [Services -> {"none", "active", "revoked"}]
    /\ token \in [Tokens -> Services \cup {NoService}]
    /\ revoked \subseteq Tokens
    /\ assigned \subseteq Assignments
    /\ idem \cup answers \subseteq [call : Calls, id : Resources \cup Tokens]
    /\ event \in [Resources -> Actions]
    /\ thread \in [Threads -> Changes \cup {Idle}]

\* Store.bootstrap: it writes no audit event.
GovernanceInit ==
    /\ role = [u \in Users |-> IF u = Founder THEN "owner" ELSE "none"]
    /\ repository = [r \in Repositories |-> "none"]
    /\ service = [s \in Services |-> "none"]
    /\ token = [t \in Tokens |-> NoService]
    /\ revoked = {} /\ assigned = {}
    /\ idem = {} /\ answers = {}
    /\ event = [x \in Resources |-> "none"]
    /\ thread = [t \in Threads |-> Idle]

-----------------------------------------------------------------------------
Permitted(u, permission) == role[u] \in Roles /\ permission \in Permissions[role[u]]

Log(x, action) == event' = [event EXCEPT ![x] = action]

\* The row of the idempotency table: actor, route and key, whatever the body.
SameRow(c, d) == c.user = d.user /\ c.kind = d.kind /\ c.of = d.of /\ c.key = d.key

\* A client that sends the same create again is told the same; with another
\* body it is told nothing but a conflict.
Replay(c) ==
    \E x \in idem :
        /\ x.call = c
        /\ answers' = answers \cup {x}
        /\ UNCHANGED <<tables, idem, thread>>

\* Mutant: the row is looked up with the body, too.
Commit_ByBody(c, id) ==
    /\ ~ \E x \in idem : x.call = c
    /\ idem' = idem \cup {[call |-> c, id |-> id]}
    /\ answers' = answers \cup {[call |-> c, id |-> id]}
    /\ UNCHANGED thread

\* idempotent_create around one of the mutations below, in one transaction.  A
\* client that loses the answer sends the create again.
Commit(c, id) ==
    /\ ~ \E x \in idem : SameRow(x.call, c)
    /\ idem' = idem \cup {[call |-> c, id |-> id]}
    /\ answers' = answers \cup {[call |-> c, id |-> id]}
    /\ UNCHANGED thread

\* create_repository_in
CreateRepository(c) ==
    /\ c.kind = "repository" /\ Permitted(c.user, "repositories:write")
    /\ \E r \in Repositories :
          /\ repository[r] = "none"
          /\ Commit(c, r)
          /\ repository' = [repository EXCEPT ![r] = "active"]
          /\ Log(r, "repository_registered")
    /\ UNCHANGED <<role, service, token, revoked, assigned>>

\* Mutant: only a new membership is logged.
AddMember_SilentReturn(c) ==
    /\ c.kind = "member" /\ Permitted(c.user, "members:write")
    /\ LET who == c.body.who IN
         /\ role[who] \in {"none", "removed"}
         /\ Commit(c, who)
         /\ role' = [role EXCEPT ![who] = c.body.role]
         /\ IF role[who] = "none" THEN Log(who, "membership_added") ELSE UNCHANGED event
    /\ UNCHANGED <<repository, service, token, revoked, assigned>>

\* add_membership_in: a removed membership is taken up again.
AddMember(c) ==
    /\ c.kind = "member" /\ Permitted(c.user, "members:write")
    /\ LET who == c.body.who IN
         /\ role[who] \in {"none", "removed"}
         /\ Commit(c, who)
         /\ role' = [role EXCEPT ![who] = c.body.role]
         /\ Log(who, IF role[who] = "none" THEN "membership_added"
                     ELSE "membership_reactivated")
    /\ UNCHANGED <<repository, service, token, revoked, assigned>>

\* create_service_in
CreateService(c) ==
    /\ c.kind = "service" /\ Permitted(c.user, "services:write")
    /\ \E s \in Services :
          /\ service[s] = "none"
          /\ Commit(c, s)
          /\ service' = [service EXCEPT ![s] = "active"]
          /\ Log(s, "service_created")
    /\ UNCHANGED <<role, repository, token, revoked, assigned>>

\* Mutant: a token is issued for whatever service the route names.
CreateToken_AnyService(c) ==
    /\ c.kind = "token" /\ Permitted(c.user, "services:write")
    /\ service[c.of] # "none"
    /\ \E t \in Tokens :
          /\ token[t] = NoService
          /\ Commit(c, t)
          /\ token' = [token EXCEPT ![t] = c.of]
    /\ UNCHANGED <<role, repository, service, revoked, assigned, event>>

\* create_service_token: the service must be active in the same transaction.
\* The event is logged for the token, which has no other.
CreateToken(c) ==
    /\ c.kind = "token" /\ Permitted(c.user, "services:write")
    /\ service[c.of] = "active"
    /\ \E t \in Tokens :
          /\ token[t] = NoService
          /\ Commit(c, t)
          /\ token' = [token EXCEPT ![t] = c.of]
    /\ UNCHANGED <<role, repository, service, revoked, assigned, event>>

\* assign_service_in: an earlier assignment of the pair is taken up again.
Assign(c) ==
    /\ c.kind = "assignment" /\ Permitted(c.user, "services:write")
    /\ repository[c.body] = "active" /\ service[c.of] = "active"
    /\ Commit(c, <<c.of, c.body>>)
    /\ assigned' = assigned \cup {<<c.of, c.body>>}
    /\ Log(<<c.of, c.body>>, "service_assigned")
    /\ UNCHANGED <<role, repository, service, token, revoked>>

Create(c) ==
    \/ Replay(c) \/ CreateRepository(c) \/ AddMember(c)
    \/ CreateService(c) \/ CreateToken(c) \/ Assign(c)

-----------------------------------------------------------------------------
(* Membership changes: BEGIN IMMEDIATE, then everything else *)

\* _owner_count: the membership at hand is an owner's, and no other is.
FinalOwner(who) == {u \in Users : role[u] = "owner"} \subseteq {who}

\* change_role
ChangeRole(u, who, new) ==
    /\ Permitted(u, "members:write")
    /\ role[who] \in Roles
    /\ ~(role[who] = "owner" /\ new # "owner" /\ FinalOwner(who))
    /\ role' = [role EXCEPT ![who] = new]
    /\ Log(who, "membership_role_changed")
    /\ UNCHANGED <<repository, service, token, revoked, assigned, idem, answers, thread>>

\* Mutant: only demotions are checked, removals are not.
RemoveMember_Unchecked(u, who) ==
    /\ Permitted(u, "members:write")
    /\ role[who] \in Roles
    /\ role' = [role EXCEPT ![who] = "removed"]
    /\ Log(who, "membership_removed")
    /\ UNCHANGED <<repository, service, token, revoked, assigned, idem, answers, thread>>

\* remove_member
RemoveMember(u, who) ==
    /\ Permitted(u, "members:write")
    /\ role[who] \in Roles
    /\ ~(role[who] = "owner" /\ FinalOwner(who))
    /\ role' = [role EXCEPT ![who] = "removed"]
    /\ Log(who, "membership_removed")
    /\ UNCHANGED <<repository, service, token, revoked, assigned, idem, answers, thread>>

-----------------------------------------------------------------------------
(* Changes that check on one connection and write on the next *)

Permit(t, u, change) ==
    /\ thread[t] = Idle
    /\ Permitted(u, IF change.op \in {"active", "inactive"} THEN "repositories:write"
                    ELSE "services:write")
    /\ thread' = [thread EXCEPT ![t] = change]
    /\ UNCHANGED <<tables, idem, answers>>

\* set_repository_status
SetRepositoryStatus(t) ==
    /\ thread[t].op \in {"active", "inactive"}
    /\ LET r == thread[t].repository IN
         \/ /\ repository[r] # "none"
            /\ repository' = [repository EXCEPT ![r] = thread[t].op]
            /\ Log(r, IF thread[t].op = "active" THEN "repository_active"
                      ELSE "repository_inactive")
         \/ /\ repository[r] = "none"
            /\ UNCHANGED <<repository, event>>
    /\ thread' = [thread EXCEPT ![t] = Idle]
    /\ UNCHANGED <<role, service, token, revoked, assigned, idem, answers>>

\* revoke_service: the service and all its tokens, in one transaction.
RevokeService(t) ==
    /\ thread[t].op = "revoke"
    /\ LET s == thread[t].service IN
         \/ /\ service[s] # "none"
            /\ service' = [service EXCEPT ![s] = "revoked"]
            /\ revoked' = revoked \cup {k \in Tokens : token[k] = s}
            /\ Log(s, "service_revoked")
         \/ /\ service[s] = "none"
            /\ UNCHANGED <<service, revoked, event>>
    /\ thread' = [thread EXCEPT ![t] = Idle]
    /\ UNCHANGED <<role, repository, token, assigned, idem, answers>>

\* remove_assignment
RemoveAssignment(t) ==
    /\ thread[t].op = "unassign"
    /\ \/ /\ thread[t].pair \in assigned
          /\ assigned' = assigned \ {thread[t].pair}
          /\ Log(thread[t].pair, "service_assignment_removed")
       \/ /\ thread[t].pair \notin assigned
          /\ UNCHANGED <<assigned, event>>
    /\ thread' = [thread EXCEPT ![t] = Idle]
    /\ UNCHANGED <<role, repository, service, token, revoked, idem, answers>>

GovernanceNext ==
    \/ \E c \in Calls : Create(c)
    \/ \E u, who \in Users : RemoveMember(u, who) \/ \E new \in Given : ChangeRole(u, who, new)
    \/ \E t \in Threads :
          \/ \E u \in Users, change \in Changes : Permit(t, u, change)
          \/ SetRepositoryStatus(t) \/ RevokeService(t) \/ RemoveAssignment(t)

GovernanceSpec == GovernanceInit /\ [][GovernanceNext]_governanceVars

-----------------------------------------------------------------------------
(* Properties *)

\* The organization never loses its last owner, whoever demotes or removes
\* whom at the same time (final_owner).
OwnerRemains == \E u \in Users : role[u] = "owner"

\* No token outlives the revocation of its service, also when it is issued
\* between the check of the revocation's permission and its write.
RevokedServiceIsSilent ==
    \A k \in Tokens : token[k] # NoService /\ service[token[k]] = "revoked" => k \in revoked

\* A client may send a create as often as it likes: under one key of one route
\* it is told of one thing only, made for one body.
AnsweredOnce ==
    \A x, y \in answers : SameRow(x.call, y.call) => x = y

\* The audit history tells what the tables say: the last event of a membership,
\* repository, service or assignment is the one that made its status.
AuditTellsState ==
    /\ \A u \in Users :
          /\ role[u] = "removed" <=> event[u] = "membership_removed"
          /\ role[u] = "none" => event[u] = "none"
    /\ \A r \in Repositories :
          /\ repository[r] = "none" <=> event[r] = "none"
          /\ repository[r] = "inactive" <=> event[r] = "repository_inactive"
    /\ \A s \in Services :
          /\ service[s] = "none" <=> event[s] = "none"
          /\ service[s] = "revoked" <=> event[s] = "service_revoked"
    /\ \A x \in Assignments : x \in assigned <=> event[x] = "service_assigned"
=============================================================================
