------------------------------ MODULE Accounts ------------------------------
(***************************************************************************)
(* Tenants, their users and the users' API keys (agency/api/main.py with   *)
(* agency/security.py).                                                    *)
(*                                                                         *)
(* A request loads a user, and commits later; the session then updates     *)
(* only the columns that differ from what it loaded (SQLAlchemy's unit of  *)
(* work), so two requests about one user may mix their columns.            *)
(***************************************************************************)
EXTENDS Integers

CONSTANTS
    Emails,
    Admins,         \* requests that can be served at a time
    MaxKeys         \* bound of the exploration: keys that are generated

ASSUME AccountsAssumption == MaxKeys \in Nat

VARIABLES
    tenants, orgs,  \* rows of tenants and organizations; a tenant is named by its first key
    users,          \* rows of users
    keys,           \* how many keys were generated
    known,          \* keys that were committed
    admin           \* what each request is doing

accounts == <<tenants, orgs, users, keys, known, admin>>

Free == [pc |-> "idle"]

\* Neither is among the numbers of keys and tenants.
Password   == 0
DefaultOrg == 0

AccountsInit ==
    /\ tenants = {} /\ orgs = {} /\ users = {}
    /\ keys = 0 /\ known = {}
    /\ admin = [a \in Admins |-> Free]

-----------------------------------------------------------------------------
\* Which keys are accepted.

ROLE_PERMISSIONS(role) ==
    CASE role = "admin"    -> {"read", "write", "approve", "admin", "manage_users", "audit"}
      [] role = "producer" -> {"read", "write", "approve"}
      [] role = "client"   -> {"read"}
      [] OTHER             -> {}

ResolveRole(role) == IF role = "viewer" THEN "client" ELSE role

\* The checks of _authenticate, in any order: all of them must pass.
Accepted(k, permission) ==
    \E u \in users :
        /\ u.hash = k
        /\ ~u.revoked /\ u.expires # "past"
        /\ permission \in ROLE_PERMISSIONS(ResolveRole(u.role))

Alive(k) == Accepted(k, "read")

-----------------------------------------------------------------------------
\* create_tenant and register: the tenant is committed first, then the organisation
\* with its user.  Who registers chooses a password, which no request can use as a key,
\* and without a tenant name he joins the default organisation, which has no row.

WithEmail(e) == {u \in users : u.email = e}
Begins(a, held) == admin[a].pc = "idle" /\ admin' = [admin EXCEPT ![a] = held]
RequestEnds(a) == admin' = [admin EXCEPT ![a] = Free]

CheckEmail(a, e) ==
    /\ WithEmail(e) = {}
    /\ \/ /\ keys < MaxKeys /\ keys' = keys + 1
          /\ \E hash \in {keys + 1, Password} :
                Begins(a, [pc |-> "tenant", email |-> e, org |-> keys + 1, hash |-> hash])
       \/ /\ Begins(a, [pc |-> "organization", email |-> e, org |-> DefaultOrg, hash |-> Password])
          /\ UNCHANGED keys
    /\ UNCHANGED <<tenants, orgs, users, known>>

\* Fault: the organisation is committed together with the tenant.
WithTenantOrg(a) == orgs \cup {admin[a].org}

\* Nothing but the tenant is in the first commit.
WithTenant(a) == orgs

CommitTenant(a) ==
    /\ admin[a].pc = "tenant"
    /\ tenants' = tenants \cup {admin[a].org}
    /\ orgs' = WithTenant(a)
    /\ admin' = [admin EXCEPT ![a].pc = "organization"]
    /\ UNCHANGED <<users, keys, known>>

\* users.email is unique: the second commit fails if somebody else took it.
CommitOrganization(a) ==
    /\ admin[a].pc = "organization"
    /\ IF WithEmail(admin[a].email) = {}
       THEN /\ orgs' = orgs \cup ({admin[a].org} \ {DefaultOrg})
            /\ users' = users \cup
                 {[email |-> admin[a].email, org |-> admin[a].org, role |-> "admin",
                   hash |-> admin[a].hash, expires |-> "never", revoked |-> FALSE]}
            /\ known' = known \cup ({admin[a].hash} \ {Password})
       ELSE UNCHANGED <<orgs, users, known>>
    /\ RequestEnds(a)
    /\ UNCHANGED <<tenants, keys>>

-----------------------------------------------------------------------------
\* issue_key and revoke_key, by an admin of organisation o.

LoadForIssue(a, e, o, role, expires) ==
    /\ keys < MaxKeys
    /\ \A u \in WithEmail(e) : u.org = o
    /\ Begins(a, [pc |-> "issuing", email |-> e, org |-> o, role |-> ResolveRole(role),
                  expires |-> expires, key |-> keys + 1, loaded |-> WithEmail(e)])
    /\ keys' = keys + 1
    /\ UNCHANGED <<tenants, orgs, users, known>>

\* Fault: issuing a key for a revoked user brings his old key back instead.
IssuedReviving(u, l, r) ==
    [u EXCEPT !.hash = IF u.revoked THEN @ ELSE r.key, !.role = r.role, !.revoked = FALSE]

\* The row after the update: a column keeps what others committed unless the new value
\* differs from the loaded one.
Issued(u, l, r) ==
    [u EXCEPT !.hash    = r.key,
              !.role    = IF r.role = l.role THEN @ ELSE r.role,
              !.expires = IF r.expires = "never" /\ l.expires = "never" THEN @ ELSE r.expires,
              !.revoked = IF l.revoked THEN FALSE ELSE @]

CommitIssue(a) ==
    LET r == admin[a] IN
    /\ r.pc = "issuing"
    /\ IF r.loaded = {} /\ WithEmail(r.email) # {}
       THEN UNCHANGED <<users, known>>
       ELSE /\ users' = IF r.loaded = {}
                        THEN users \cup {[email |-> r.email, org |-> r.org, role |-> r.role,
                                          hash |-> r.key, expires |-> r.expires, revoked |-> FALSE]}
                        ELSE {IF u.email = r.email
                              THEN Issued(u, CHOOSE l \in r.loaded : TRUE, r) ELSE u : u \in users}
            /\ known' = known \cup {r.key}
    /\ RequestEnds(a)
    /\ UNCHANGED <<tenants, orgs, keys>>

LoadForRevoke(a, e) ==
    /\ WithEmail(e) # {}
    /\ Begins(a, [pc |-> "revoking", email |-> e])
    /\ UNCHANGED <<tenants, orgs, users, keys, known>>

CommitRevoke(a) ==
    /\ admin[a].pc = "revoking"
    /\ users' = {IF u.email = admin[a].email THEN [u EXCEPT !.revoked = TRUE] ELSE u : u \in users}
    /\ RequestEnds(a)
    /\ UNCHANGED <<tenants, orgs, keys, known>>

\* An answer goes out; a crash or a lost connection may end a request before.
AbandonRequest(a) ==
    /\ admin[a].pc # "idle"
    /\ RequestEnds(a)
    /\ UNCHANGED <<tenants, orgs, users, keys, known>>

\* A key reaches the end of its time.
Expire(e) ==
    /\ \E u \in WithEmail(e) : u.expires = "later"
    /\ users' = {IF u.email = e THEN [u EXCEPT !.expires = "past"] ELSE u : u \in users}
    /\ UNCHANGED <<tenants, orgs, keys, known, admin>>

AccountsNext ==
    \/ \E a \in Admins :
        \/ \E e \in Emails :
            \/ CheckEmail(a, e) \/ LoadForRevoke(a, e)
            \/ \E o \in orgs \cup {DefaultOrg}, role \in {"viewer", "guest"}, expires \in {"never", "later"} :
                LoadForIssue(a, e, o, role, expires)
        \/ CommitTenant(a) \/ CommitOrganization(a)
        \/ CommitIssue(a) \/ CommitRevoke(a) \/ AbandonRequest(a)
    \/ \E e \in Emails : Expire(e)

AccountsSpec == AccountsInit /\ [][AccountsNext]_accounts

-----------------------------------------------------------------------------
(* Properties                                                              *)

\* A key that was replaced, revoked or has expired is never accepted again, whatever
\* requests were under way when it died (issue_key, revoke_key, _authenticate).
DeadKeysStayDead ==
    [][\A k \in known : ~Alive(k) => ~Alive(k)']_accounts

\* No organisation is without a user, although the tenant is committed before it and
\* another request may take the email in between (create_tenant, register).
OrgsHaveUsers == \A o \in orgs : \E u \in users : u.org = o

=============================================================================
