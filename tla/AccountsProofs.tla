--------------------------- MODULE AccountsProofs ---------------------------
(***************************************************************************)
(* Proofs about Accounts, for any number of emails, concurrent requests    *)
(* and generated keys.                                                     *)
(***************************************************************************)
EXTENDS Accounts, TLAPS

-----------------------------------------------------------------------------
(* The invariant                                                           *)

Fields == {"email", "org", "role", "hash", "expires", "revoked"}

\* A row keeps its columns, and a request that creates a tenant what it holds.
ColumnsFit ==
    /\ \A u \in users : DOMAIN u = Fields
    /\ DOMAIN admin = Admins
    /\ \A a \in Admins : admin[a].pc = "tenant" => DOMAIN admin[a] = {"pc", "email", "org", "hash"}

\* The keys a request has generated and not committed.
Pending(a) ==
    CASE admin[a].pc \in {"tenant", "organization"} -> {admin[a].hash} \ {Password}
      [] admin[a].pc = "issuing" -> {admin[a].key}
      [] OTHER -> {}

\* They are nobody else's.
PendingIsFresh ==
    /\ keys \in Nat
    /\ known \subseteq 1 .. keys
    /\ \A a \in Admins : Pending(a) \subseteq (1 .. keys) \ known
    /\ \A a, b \in Admins : a # b => Pending(a) \cap Pending(b) = {}

AInv == ColumnsFit /\ PendingIsFresh

-----------------------------------------------------------------------------
(* Rows and requests                                                       *)

LEMMA IssuedRow ==
    ASSUME NEW u, NEW l, NEW r, DOMAIN u = Fields
    PROVE  /\ DOMAIN Issued(u, l, r) = Fields
           /\ Issued(u, l, r).hash = r.key
           /\ Issued(u, l, r).org = u.org
  BY DEF Issued, Fields

LEMMA RevokedRow ==
    ASSUME NEW u, DOMAIN u = Fields
    PROVE  LET v == [u EXCEPT !.revoked = TRUE] IN
           DOMAIN v = Fields /\ v.org = u.org /\ v.revoked = TRUE
  BY DEF Fields

LEMMA ExpiredRow ==
    ASSUME NEW u, DOMAIN u = Fields
    PROVE  LET v == [u EXCEPT !.expires = "past"] IN
           DOMAIN v = Fields /\ v.org = u.org /\ v.expires = "past"
  BY DEF Fields

\* A request that ends or takes up something else leaves the others alone.
LEMMA RequestChanges ==
    ASSUME NEW a \in Admins, NEW held, DOMAIN admin = Admins, admin' = [admin EXCEPT ![a] = held]
    PROVE  /\ DOMAIN admin' = Admins
           /\ admin'[a] = held
           /\ \A b \in Admins \ {a} : admin'[b] = admin[b]
  OBVIOUS

\* Such a request keeps the invariant if what it then holds is its own or new.
LEMMA FreshRequest ==
    ASSUME NEW a \in Admins, NEW held, AInv, admin' = [admin EXCEPT ![a] = held],
           keys' \in Nat, keys <= keys',
           known' \subseteq known \cup Pending(a),
           held.pc = "tenant" => DOMAIN held = {"pc", "email", "org", "hash"},
           Pending(a)' \subseteq (Pending(a) \cup ((keys + 1) .. keys')) \ known',
           \A u \in users' : DOMAIN u = Fields
    PROVE  AInv'
<1> USE DEF AInv
<1>1. /\ DOMAIN admin' = Admins
      /\ admin'[a] = held
      /\ \A b \in Admins \ {a} : admin'[b] = admin[b]
  BY RequestChanges DEF ColumnsFit
<1>2. ColumnsFit'
  BY <1>1 DEF ColumnsFit
<1>3. \A b \in Admins \ {a} : Pending(b)' = Pending(b)
  BY <1>1 DEF Pending
<1>4. \A b \in Admins : Pending(b) \subseteq (1 .. keys) \ known
  BY DEF PendingIsFresh
<1>5. known' \subseteq 1 .. keys'
  BY <1>4 DEF PendingIsFresh
<1>6. \A b \in Admins : Pending(b)' \subseteq (1 .. keys') \ known'
  <2> SUFFICES ASSUME NEW b \in Admins PROVE Pending(b)' \subseteq (1 .. keys') \ known'
    OBVIOUS
  <2>1. CASE b = a
    BY <2>1, <1>4 DEF PendingIsFresh
  <2>2. CASE b # a
    BY <2>2, <1>3, <1>4 DEF PendingIsFresh
  <2> QED
    BY <2>1, <2>2
<1>7. \A b, c \in Admins : b # c => Pending(b)' \cap Pending(c)' = {}
  <2>1. \A b \in Admins \ {a} : Pending(a)' \cap Pending(b) = {}
    BY <1>4 DEF PendingIsFresh
  <2> QED
    BY <2>1, <1>3 DEF PendingIsFresh
<1> QED
  BY <1>2, <1>5, <1>6, <1>7 DEF PendingIsFresh

-----------------------------------------------------------------------------
(* The actions                                                             *)

\* What a row that is new or changed never has: a key that was committed before, in use.
NoOldKey ==
    \A v \in users' : v.hash \in known /\ ~v.revoked /\ v.expires # "past" => v \in users

\* No row leaves its organisation, and a new organisation comes with a row.
RowsStay ==
    /\ \A u \in users : \E v \in users' : v.org = u.org
    /\ \A o \in orgs' \ orgs : \E v \in users' : v.org = o

Good == AInv' /\ NoOldKey /\ RowsStay

\* An action that leaves the rows alone is good when it keeps the invariant.
LEMMA RowsUntouched ==
    ASSUME AInv', UNCHANGED <<users, orgs>>
    PROVE  Good
  BY DEF Good, NoOldKey, RowsStay

LEMMA CheckEmailIsGood ==
    ASSUME NEW a \in Admins, NEW e, AInv, CheckEmail(a, e)
    PROVE  Good
<1> USE DEF AInv, PendingIsFresh
<1>1. PICK held : /\ admin' = [admin EXCEPT ![a] = held]
                  /\ \/ /\ keys' = keys + 1
                        /\ \E hash \in {keys + 1, Password} :
                            held = [pc |-> "tenant", email |-> e, org |-> keys + 1, hash |-> hash]
                     \/ /\ keys' = keys
                        /\ held = [pc |-> "organization", email |-> e, org |-> DefaultOrg, hash |-> Password]
  BY DEF CheckEmail, Begins
<1>2. UNCHANGED <<users, orgs, known>>
  BY DEF CheckEmail
<1>3. admin'[a] = held
  BY <1>1, RequestChanges DEF ColumnsFit
<1>4. Pending(a)' \subseteq ((keys + 1) .. keys') \ known'
  BY <1>1, <1>2, <1>3 DEF Pending, Password
<1>5. AInv'
  <2>1. held.pc = "tenant" => DOMAIN held = {"pc", "email", "org", "hash"}
    BY <1>1
  <2>2. keys' \in Nat /\ keys <= keys'
    BY <1>1
  <2> QED
    BY <1>1, <1>2, <1>4, <2>1, <2>2, FreshRequest DEF ColumnsFit
<1> QED
  BY <1>2, <1>5, RowsUntouched

LEMMA CommitTenantIsGood ==
    ASSUME NEW a \in Admins, AInv, CommitTenant(a)
    PROVE  Good
<1> DEFINE held == [admin[a] EXCEPT !.pc = "organization"]
<1>1. /\ admin' = [admin EXCEPT ![a] = held]
      /\ UNCHANGED <<users, keys, known>> /\ orgs' = orgs
      /\ admin[a].pc = "tenant"
  BY DEF CommitTenant, WithTenant
<1>2. held.pc = "organization" /\ held.hash = admin[a].hash
  BY <1>1 DEF AInv, ColumnsFit
<1>3. Pending(a)' = Pending(a)
  BY <1>1, <1>2, RequestChanges DEF Pending, AInv, ColumnsFit
<1>4. AInv'
  <2> HIDE DEF held
  <2>1. Pending(a)' \subseteq (Pending(a) \cup ((keys + 1) .. keys')) \ known'
    BY <1>1, <1>3 DEF AInv, PendingIsFresh
  <2>2. keys' \in Nat /\ keys <= keys' /\ known' \subseteq known \cup Pending(a)
    BY <1>1 DEF AInv, PendingIsFresh
  <2>3. \A u \in users' : DOMAIN u = Fields
    BY <1>1 DEF AInv, ColumnsFit
  <2>4. held.pc # "tenant"
    BY <1>2
  <2> QED
    BY <1>1, <2>1, <2>2, <2>3, <2>4, FreshRequest
<1> QED
  BY <1>1, <1>4, RowsUntouched

\* A request that ends has nothing pending.
LEMMA EndedRequest ==
    ASSUME NEW a \in Admins, AInv, RequestEnds(a), UNCHANGED keys,
           known' \subseteq known \cup Pending(a),
           \A u \in users' : DOMAIN u = Fields
    PROVE  AInv'
<1>1. Pending(a)' = {}
  BY RequestChanges DEF RequestEnds, Free, Pending, AInv, ColumnsFit
<1>2. Free.pc # "tenant"
  BY DEF Free
<1>3. keys' \in Nat /\ keys <= keys'
  BY DEF AInv, PendingIsFresh
<1>4. admin' = [admin EXCEPT ![a] = Free]
  BY DEF RequestEnds
<1>5. Pending(a)' \subseteq (Pending(a) \cup ((keys + 1) .. keys')) \ known'
  BY <1>1
<1> QED
  BY <1>2, <1>3, <1>4, <1>5, FreshRequest

LEMMA CommitOrganizationIsGood ==
    ASSUME NEW a \in Admins, AInv, CommitOrganization(a)
    PROVE  Good
<1>1. RequestEnds(a) /\ UNCHANGED keys /\ admin[a].pc = "organization"
  BY DEF CommitOrganization
<1>2. CASE UNCHANGED <<orgs, users, known>>
  <2>1. AInv'
    BY <1>1, <1>2, EndedRequest DEF AInv, ColumnsFit
  <2> QED
    BY <1>2, <2>1, RowsUntouched
<1>3. CASE ~UNCHANGED <<orgs, users, known>>
  <2> DEFINE new == [email |-> admin[a].email, org |-> admin[a].org, role |-> "admin",
                     hash |-> admin[a].hash, expires |-> "never", revoked |-> FALSE]
  <2>1. /\ orgs' = orgs \cup ({admin[a].org} \ {DefaultOrg})
        /\ users' = users \cup {new}
        /\ known' = known \cup ({admin[a].hash} \ {Password})
    BY <1>3 DEF CommitOrganization
  <2>2. Pending(a) = {admin[a].hash} \ {Password}
    BY <1>1 DEF Pending
  <2>3. DOMAIN new = Fields /\ new.hash = admin[a].hash /\ new.org = admin[a].org
    BY DEF Fields
  <2>4. new.hash \notin known
    <3>1. CASE admin[a].hash = Password
      BY <3>1, <2>3 DEF AInv, PendingIsFresh, Password
    <3>2. CASE admin[a].hash # Password
      BY <3>2, <2>2, <2>3 DEF AInv, PendingIsFresh
    <3> QED
      BY <3>1, <3>2
  <2> HIDE DEF new
  <2>5. AInv'
    BY <1>1, <2>1, <2>2, <2>3, EndedRequest DEF AInv, ColumnsFit
  <2>6. NoOldKey
    BY <2>1, <2>4 DEF NoOldKey
  <2>7. RowsStay
    BY <2>1, <2>3 DEF RowsStay
  <2> QED
    BY <2>5, <2>6, <2>7 DEF Good
<1> QED
  BY <1>2, <1>3

LEMMA LoadForIssueIsGood ==
    ASSUME NEW a \in Admins, NEW e, NEW o, NEW role, NEW expires, AInv,
           LoadForIssue(a, e, o, role, expires)
    PROVE  Good
<1> DEFINE held == [pc |-> "issuing", email |-> e, org |-> o, role |-> ResolveRole(role),
                    expires |-> expires, key |-> keys + 1, loaded |-> WithEmail(e)]
<1>1. /\ admin' = [admin EXCEPT ![a] = held]
      /\ keys' = keys + 1
      /\ UNCHANGED <<users, orgs, known>>
  BY DEF LoadForIssue, Begins
<1>2. held.pc = "issuing" /\ held.key = keys + 1
  OBVIOUS
<1> HIDE DEF held
<1>3. Pending(a)' = {keys + 1}
  BY <1>1, <1>2, RequestChanges DEF Pending, AInv, ColumnsFit
<1>4. keys' \in Nat /\ keys <= keys' /\ keys + 1 \notin known
  BY <1>1 DEF AInv, PendingIsFresh
<1>5. Pending(a)' \subseteq ((keys + 1) .. keys') \ known'
  BY <1>1, <1>3, <1>4 DEF AInv, PendingIsFresh
<1>6. AInv'
  BY <1>1, <1>2, <1>4, <1>5, FreshRequest DEF AInv, ColumnsFit
<1> QED
  BY <1>1, <1>6, RowsUntouched

LEMMA CommitIssueIsGood ==
    ASSUME NEW a \in Admins, AInv, CommitIssue(a)
    PROVE  Good
<1> DEFINE r   == admin[a]
           l   == CHOOSE l \in r.loaded : TRUE
           new == [email |-> r.email, org |-> r.org, role |-> r.role,
                   hash |-> r.key, expires |-> r.expires, revoked |-> FALSE]
           set(u) == IF u.email = r.email THEN Issued(u, l, r) ELSE u
<1>1. RequestEnds(a) /\ UNCHANGED <<keys, orgs>> /\ r.pc = "issuing"
  BY DEF CommitIssue
<1>2. Pending(a) = {r.key} /\ r.key \notin known
  BY <1>1 DEF Pending, AInv, PendingIsFresh
<1>3. CASE UNCHANGED <<users, known>>
  <2>1. AInv'
    BY <1>1, <1>3, EndedRequest DEF AInv, ColumnsFit
  <2> QED
    BY <1>1, <1>3, <2>1, RowsUntouched
<1>4. CASE ~UNCHANGED <<users, known>>
  <2>1. /\ known' = known \cup {r.key}
        /\ \/ users' = users \cup {new}
           \/ users' = {set(u) : u \in users}
    BY <1>4 DEF CommitIssue
  <2>2. \A u \in users : /\ DOMAIN set(u) = Fields
                         /\ set(u).org = u.org
                         /\ set(u) = u \/ set(u).hash = r.key
    BY IssuedRow DEF AInv, ColumnsFit
  <2>3. DOMAIN new = Fields /\ new.hash = r.key
    BY DEF Fields
  <2> HIDE DEF r, new, set
  <2>4. \A v \in users' : DOMAIN v = Fields
    BY <2>1, <2>2, <2>3 DEF AInv, ColumnsFit
  <2>5. AInv'
    BY <1>1, <1>2, <2>1, <2>4, EndedRequest
  <2>6. NoOldKey
    BY <1>2, <2>1, <2>2, <2>3 DEF NoOldKey
  <2>7. RowsStay
    BY <1>1, <2>1, <2>2 DEF RowsStay
  <2> QED
    BY <2>5, <2>6, <2>7 DEF Good
<1> QED
  BY <1>3, <1>4

LEMMA LoadForRevokeIsGood ==
    ASSUME NEW a \in Admins, NEW e, AInv, LoadForRevoke(a, e)
    PROVE  Good
<1> DEFINE held == [pc |-> "revoking", email |-> e]
<1>1. /\ admin' = [admin EXCEPT ![a] = held]
      /\ UNCHANGED <<users, orgs, keys, known>>
  BY DEF LoadForRevoke, Begins
<1>2. held.pc = "revoking"
  OBVIOUS
<1> HIDE DEF held
<1>3. Pending(a)' = {}
  BY <1>1, <1>2, RequestChanges DEF Pending, AInv, ColumnsFit
<1>4. keys' \in Nat /\ keys <= keys' /\ known' \subseteq known \cup Pending(a)
  BY <1>1 DEF AInv, PendingIsFresh
<1>5. \A u \in users' : DOMAIN u = Fields
  BY <1>1 DEF AInv, ColumnsFit
<1>6. AInv'
  <2>1. Pending(a)' \subseteq (Pending(a) \cup ((keys + 1) .. keys')) \ known'
    BY <1>3
  <2>2. held.pc # "tenant"
    BY <1>2
  <2> QED
    BY <1>1, <1>4, <1>5, <2>1, <2>2, FreshRequest
<1> QED
  BY <1>1, <1>6, RowsUntouched

LEMMA CommitRevokeIsGood ==
    ASSUME NEW a \in Admins, AInv, CommitRevoke(a)
    PROVE  Good
<1> DEFINE set(u) == IF u.email = admin[a].email THEN [u EXCEPT !.revoked = TRUE] ELSE u
<1>1. /\ RequestEnds(a) /\ UNCHANGED <<orgs, keys, known>>
      /\ users' = {set(u) : u \in users}
  BY DEF CommitRevoke
<1>2. \A u \in users : /\ DOMAIN set(u) = Fields
                       /\ set(u).org = u.org
                       /\ set(u) = u \/ set(u).revoked = TRUE
  BY RevokedRow DEF AInv, ColumnsFit
<1> HIDE DEF set
<1>3. AInv'
  BY <1>1, <1>2, EndedRequest
<1>4. NoOldKey
  BY <1>1, <1>2 DEF NoOldKey
<1>5. RowsStay
  BY <1>1, <1>2 DEF RowsStay
<1> QED
  BY <1>3, <1>4, <1>5 DEF Good

LEMMA AbandonRequestIsGood ==
    ASSUME NEW a \in Admins, AInv, AbandonRequest(a)
    PROVE  Good
<1>1. AInv'
  BY EndedRequest DEF AbandonRequest, AInv, ColumnsFit
<1> QED
  BY <1>1, RowsUntouched DEF AbandonRequest

LEMMA ExpireIsGood ==
    ASSUME NEW e, AInv, Expire(e)
    PROVE  Good
<1> DEFINE set(u) == IF u.email = e THEN [u EXCEPT !.expires = "past"] ELSE u
<1>1. /\ UNCHANGED <<orgs, keys, known, admin>>
      /\ users' = {set(u) : u \in users}
  BY DEF Expire
<1>2. \A u \in users : /\ DOMAIN set(u) = Fields
                       /\ set(u).org = u.org
                       /\ set(u) = u \/ set(u).expires = "past"
  BY ExpiredRow DEF AInv, ColumnsFit
<1> HIDE DEF set
<1>3. AInv'
  BY <1>1, <1>2 DEF AInv, ColumnsFit, PendingIsFresh, Pending
<1>4. NoOldKey
  BY <1>1, <1>2 DEF NoOldKey
<1>5. RowsStay
  BY <1>1, <1>2 DEF RowsStay
<1> QED
  BY <1>3, <1>4, <1>5 DEF Good

LEMMA StepIsGood == AInv /\ [AccountsNext]_accounts => Good
<1> SUFFICES ASSUME AInv, [AccountsNext]_accounts PROVE Good
  OBVIOUS
<1>1. CASE UNCHANGED accounts
  <2>1. AInv'
    BY <1>1 DEF accounts, AInv, ColumnsFit, PendingIsFresh, Pending
  <2> QED
    BY <1>1, <2>1, RowsUntouched DEF accounts
<1>2. ASSUME NEW a \in Admins, NEW e \in Emails, CheckEmail(a, e) PROVE Good
  BY <1>2, CheckEmailIsGood
<1>3. ASSUME NEW a \in Admins, NEW e \in Emails, LoadForRevoke(a, e) PROVE Good
  BY <1>3, LoadForRevokeIsGood
<1>4. ASSUME NEW a \in Admins, NEW e \in Emails, NEW o \in orgs \cup {DefaultOrg},
             NEW role \in {"viewer", "guest"}, NEW expires \in {"never", "later"},
             LoadForIssue(a, e, o, role, expires)
      PROVE  Good
  BY <1>4, LoadForIssueIsGood
<1>5. ASSUME NEW a \in Admins,
             CommitTenant(a) \/ CommitOrganization(a) \/ CommitIssue(a) \/ CommitRevoke(a)
             \/ AbandonRequest(a)
      PROVE  Good
  BY <1>5, CommitTenantIsGood, CommitOrganizationIsGood, CommitIssueIsGood, CommitRevokeIsGood,
     AbandonRequestIsGood
<1>6. ASSUME NEW e \in Emails, Expire(e) PROVE Good
  BY <1>6, ExpireIsGood
<1> QED
  BY <1>1, <1>2, <1>3, <1>4, <1>5, <1>6 DEF AccountsNext

-----------------------------------------------------------------------------
(* The theorems                                                            *)

LEMMA StartIsGood == AccountsInit => AInv /\ OrgsHaveUsers
<1> SUFFICES ASSUME AccountsInit PROVE AInv /\ OrgsHaveUsers
  OBVIOUS
<1>1. \A a \in Admins : admin[a] = Free
  BY DEF AccountsInit
<1>2. \A a \in Admins : Pending(a) = {}
  BY <1>1 DEF Pending, Free
<1>3. ColumnsFit
  BY <1>1 DEF AccountsInit, ColumnsFit, Free
<1> QED
  BY <1>2, <1>3 DEF AccountsInit, AInv, PendingIsFresh, OrgsHaveUsers

\* Rows, requests and their keys keep the invariant (api/main.py, auth.py).
THEOREM KeysInvariant == AccountsSpec => []AInv
<1>1. AInv /\ [AccountsNext]_accounts => AInv'
  BY StepIsGood DEF Good
<1> QED
  BY StartIsGood, <1>1, PTL DEF AccountsSpec

\* No organisation is without a user, whatever requests run at once (create_tenant,
\* register, issue_key, revoke_key).
THEOREM OrganisationsHaveUsers == AccountsSpec => []OrgsHaveUsers
<1>1. AInv /\ OrgsHaveUsers /\ [AccountsNext]_accounts => OrgsHaveUsers'
  <2> SUFFICES ASSUME AInv, OrgsHaveUsers, [AccountsNext]_accounts PROVE OrgsHaveUsers'
    OBVIOUS
  <2>1. RowsStay
    BY StepIsGood DEF Good
  <2> QED
    BY <2>1 DEF RowsStay, OrgsHaveUsers
<1> QED
  BY StartIsGood, <1>1, KeysInvariant, PTL DEF AccountsSpec

\* A key that was replaced, revoked or has expired is never accepted again, whatever
\* requests were under way when it died (issue_key, revoke_key, _authenticate).
THEOREM DeadKeysAreDead == AccountsSpec => DeadKeysStayDead
<1> DEFINE Step == [\A k \in known : ~Alive(k) => ~Alive(k)']_accounts
<1>1. AInv /\ [AccountsNext]_accounts => Step
  <2> SUFFICES ASSUME AInv, [AccountsNext]_accounts, NEW k \in known, Alive(k)' PROVE Alive(k)
    BY DEF Step
  <2>1. NoOldKey
    BY StepIsGood DEF Good
  <2> QED
    BY <2>1 DEF NoOldKey, Alive, Accepted
<1> QED
  BY <1>1, KeysInvariant, PTL DEF AccountsSpec, DeadKeysStayDead
=============================================================================
