--------------------------- MODULE MCPermissions ---------------------------
(***************************************************************************)
(* Who may do what: the permissions of one machine, the roles and services *)
(* of one hosted organization, and the sessions of one of its users.  They *)
(* share no state, so that one run may explore each in turn: `part` says   *)
(* which.  Sessions are explored with two clients, one refresher and two   *)
(* credentials, and with one client, two refreshers and three credentials. *)
(***************************************************************************)
EXTENDS MCAllowLedger, HostedGovernance, CloudSessions

CONSTANTS u1, u2, r1, r2, s1, k1, n1, n2,   \* HostedGovernance
          x, y, w, v                        \* CloudSessions

VARIABLE part

Call(user, kind, of, body) ==
    [user |-> user, kind |-> kind, of |-> of, key |-> k1, body |-> body]

\* One key serves every route; one client sends it with two bodies.
MCCalls ==
    {Call(u1, "repository", NoService, n1), Call(u1, "repository", NoService, n2),
     Call(u2, "repository", NoService, n1),
     Call(u1, "member", NoService, [who |-> u2, role |-> "owner"]),
     Call(u2, "member", NoService, [who |-> u1, role |-> "maintainer"]),
     Call(u1, "service", NoService, n1),
     Call(u1, "token", s1, n1), Call(u2, "token", s1, n1),
     Call(u1, "assignment", s1, r1)}

ASSUME SessionAssumption

PermissionsInit ==
    /\ part \in {"local", "governance", "clients", "refreshers"}
    /\ Init /\ GovernanceInit /\ SessionInit

PermissionsNext ==
    /\ UNCHANGED part
    /\ \/ part = "local" /\ Next /\ UNCHANGED <<governanceVars, sessionVars>>
       \/ part = "governance" /\ GovernanceNext /\ UNCHANGED <<vars, sessionVars>>
       \/ /\ part = "clients" /\ SessionNext /\ pending'[v] = pending[v] /\ issued' <= 2
          /\ UNCHANGED <<vars, governanceVars>>
       \/ /\ part = "refreshers" /\ SessionNext /\ step'[y] = step[y]
          /\ UNCHANGED <<vars, governanceVars>>

PermissionsSpec ==
    PermissionsInit /\ [][PermissionsNext]_<<part, vars, governanceVars, sessionVars>>
=============================================================================
