---------------------------- MODULE Credentials ----------------------------
(* Tenants, their members and their credentials in the control plane, and   *)
(* the verification every data-plane request with a credential goes through.*)
(*                                                                          *)
(* The stores are behind one mutex that is taken and released for every     *)
(* single statement, so a request or a control-plane handler that makes     *)
(* several of them is a sequence of steps here, and everybody else's steps  *)
(* come between them.  Database names are left out: a credential's grants   *)
(* are the operations it grants on the database its requests address.       *)
EXTENDS Integers, FiniteSets

CONSTANTS Tenant,     \* tenant ids; an id is a fresh UUID and is used once
          Default,    \* the tenant of the first deployment
          User,       \* rows of the users table
          Jti,        \* credential ids
          Request,    \* requests in flight
          Ttl,        \* lifetimes asked for
          GivenRole,  \* roles members are given
          Asked,      \* sets of operations credentials are asked to grant
          Skew,       \* the tolerance of step 4
          MaxClock,   \* bound on the clock
          MaxChanges  \* bound on administrative requests

ASSUME DefaultIsATenant == Default \in Tenant
ASSUME ClockIsBounded == MaxClock \in Nat

VARIABLES tenants,     \* rows of tenants
          gone,        \* ids whose deletion has been reported (history)
          members,     \* tenant_users
          suspended,   \* users with suspended_at_ms
          jwts,        \* the signed tokens clients hold
          issuances,   \* credential_issuances
          revocations, \* credential_revocations
          cache,       \* InMemoryRevocationCache
          issuing,     \* issue_credential in progress
          revoking,    \* revoke_credential_handler in progress
          deleting,    \* ControlPlaneDb::delete_tenant in progress
          wiped,       \* tenants whose revocations a deletion removed (history)
          reqs,        \* the requests
          clock,
          changes      \* administrative requests so far

stores == <<tenants, gone, members, suspended, jwts, issuances, revocations, wiped>>
handlers_ == <<issuing, revoking, deleting>>
credentialVars == <<stores, handlers_, cache, reqs, clock, changes>>

Nobody == "nobody"
Idle == [phase |-> "idle"]
Role == {"admin", "write", "read"}
Ops == {"Read", "Write", "Admin"}
Grants == SUBSET {"Read", "Write"} \ {{}}

delegable_ops(role) ==
    CASE role = "admin" -> Ops
      [] role = "write" -> {"Read", "Write"}
      [] role = "read"  -> {"Read"}

Claims == [sub : User, aud : Tenant, nbf : 0..MaxClock, exp : Nat, grants : Grants]

CredentialsTypeOK ==
    /\ tenants \subseteq Tenant /\ gone \subseteq Tenant \ tenants
    /\ wiped \subseteq Tenant
    /\ members \in [Tenant -> [User -> Role \cup {Nobody}]]
    /\ suspended \subseteq User
    /\ DOMAIN jwts \subseteq Jti /\ \A j \in DOMAIN jwts : jwts[j] \in Claims
    /\ issuances \subseteq Jti /\ revocations \subseteq Jti /\ cache \subseteq Jti

\* The first request of a fresh deployment made the default tenant and its
\* caller the tenant's administrator.
ensure_default_tenant ==
    /\ tenants = {Default}
    /\ \E caller \in User :
          members = [t \in Tenant |-> [u \in User |->
                       IF t = Default /\ u = caller THEN "admin" ELSE Nobody]]

CredentialsInit ==
    /\ ensure_default_tenant
    /\ gone = {} /\ wiped = {}
    /\ suspended = {}
    /\ jwts = [j \in {} |-> {}]
    /\ issuances = {} /\ revocations = {} /\ cache = {}
    /\ issuing = Idle /\ revoking = Idle /\ deleting = Idle
    /\ reqs = [r \in Request |-> Idle]
    /\ clock = 0
    /\ changes = 0

----------------------------------------------------------------------------
(* The control plane.                                                       *)

Tick == /\ clock < MaxClock
        /\ clock' = clock + 1
        /\ UNCHANGED <<stores, handlers_, cache, reqs>>

\* The row and the provisioned file; a failed provisioning deletes the row
\* again under the same lock, before anything can refer to it.
create_tenant(t) ==
    /\ deleting = Idle
    /\ t \notin tenants \cup gone
    /\ tenants' = tenants \cup {t}
    /\ UNCHANGED <<gone, members, suspended, jwts, issuances, revocations, wiped,
                   handlers_, cache, reqs, clock>>

\* A member's row references its tenant.
upsert_tenant_member(t, u, role) ==
    /\ t \in tenants
    /\ members[t][u] # role
    /\ members' = [members EXCEPT ![t][u] = role]
    /\ UNCHANGED <<tenants, gone, suspended, jwts, issuances, revocations, wiped,
                   handlers_, cache, reqs, clock>>

remove_tenant_member(t, u) ==
    /\ members[t][u] # Nobody
    /\ members' = [members EXCEPT ![t][u] = Nobody]
    /\ UNCHANGED <<tenants, gone, suspended, jwts, issuances, revocations, wiped,
                   handlers_, cache, reqs, clock>>

suspend_user(u) ==
    /\ u \notin suspended
    /\ suspended' = suspended \cup {u}
    /\ UNCHANGED <<tenants, gone, members, jwts, issuances, revocations, wiped,
                   handlers_, cache, reqs, clock>>

\* Whether the member's role, read now, covers the grants asked for.
enforce_ceiling(t, u, grants) ==
    members[t][u] # Nobody /\ grants \subseteq delegable_ops(members[t][u])

\* The target's membership; a caller issuing for themselves is looked up again.
issue_credential(t, u, grants, self) ==
    /\ issuing = Idle
    /\ enforce_ceiling(t, u, grants)
    /\ issuing' = [phase |-> IF self THEN "caller" ELSE "track",
                   t |-> t, u |-> u, grants |-> grants]
    /\ UNCHANGED <<stores, revoking, deleting, cache, reqs, clock>>

IssueToSelf ==
    /\ issuing.phase = "caller"
    /\ issuing' = IF enforce_ceiling(issuing.t, issuing.u, issuing.grants)
                  THEN [issuing EXCEPT !.phase = "track"] ELSE Idle
    /\ UNCHANGED <<stores, revoking, deleting, cache, reqs, clock>>

Sign(j, ttl) == [sub |-> issuing.u, aud |-> issuing.t, grants |-> issuing.grants,
                 nbf |-> clock, exp |-> clock + ttl]

\* The token is signed first but only leaves with a recorded issuance.
IssueTracked(j, ttl) ==
    /\ issuing.phase = "track"
    /\ j \notin DOMAIN jwts
    /\ \/ /\ jwts' = [k \in DOMAIN jwts \cup {j} |-> IF k = j THEN Sign(j, ttl) ELSE jwts[k]]
          /\ issuances' = issuances \cup {j}
       \/ UNCHANGED <<jwts, issuances>>
    /\ issuing' = Idle
    /\ UNCHANGED <<tenants, gone, members, suspended, revocations, wiped,
                   revoking, deleting, cache, reqs, clock>>

\* The issuance carries the tenant of its token, so the credentials of a
\* tenant are those whose token names it.
IssuedBy(t) == {j \in issuances : jwts[j].aud = t}

FindCredential(t, j) ==
    /\ revoking = Idle
    /\ j \in IssuedBy(t)
    /\ revoking' = [phase |-> "revoke", j |-> j]
    /\ UNCHANGED <<stores, issuing, deleting, cache, reqs, clock>>

revoke_credential ==
    /\ revoking.phase = "revoke"
    /\ revocations' = revocations \cup {revoking.j}
    /\ revoking' = Idle
    /\ UNCHANGED <<tenants, gone, members, suspended, jwts, issuances, wiped,
                   issuing, deleting, cache, reqs, clock>>

\* The statements of a deletion, in order; they are not one transaction.
delete_tenant(t) ==
    /\ deleting = Idle
    /\ t \in tenants
    /\ revocations' = revocations \ IssuedBy(t)
    /\ wiped' = wiped \cup {t}
    /\ deleting' = [phase |-> "issuances", t |-> t]
    /\ UNCHANGED <<tenants, gone, members, suspended, jwts, issuances,
                   issuing, revoking, cache, reqs, clock>>

DeleteIssuances ==
    /\ deleting.phase = "issuances"
    /\ issuances' = issuances \ IssuedBy(deleting.t)
    /\ deleting' = [deleting EXCEPT !.phase = "members"]
    /\ UNCHANGED <<tenants, gone, members, suspended, jwts, revocations, wiped,
                   issuing, revoking, cache, reqs, clock>>

DeleteMembers ==
    /\ deleting.phase = "members"
    /\ members' = [members EXCEPT ![deleting.t] = [u \in User |-> Nobody]]
    /\ deleting' = [deleting EXCEPT !.phase = "row"]
    /\ UNCHANGED <<tenants, gone, suspended, jwts, issuances, revocations, wiped,
                   issuing, revoking, cache, reqs, clock>>

\* A member added since the previous statement keeps the row from going.
DeleteRow ==
    /\ deleting.phase = "row"
    /\ \A u \in User : members[deleting.t][u] = Nobody
    /\ tenants' = tenants \ {deleting.t}
    /\ gone' = gone \cup {deleting.t}
    /\ deleting' = Idle
    /\ UNCHANGED <<members, suspended, jwts, issuances, revocations, wiped,
                   issuing, revoking, cache, reqs, clock>>

\* A statement that fails leaves what the earlier ones did.
DeleteFails ==
    /\ deleting # Idle
    /\ deleting' = Idle
    /\ UNCHANGED <<stores, issuing, revoking, cache, reqs, clock>>

----------------------------------------------------------------------------
(* verify_request_inner.                                                    *)

Refuse(r) == reqs' = [reqs EXCEPT ![r] = Idle]
Proceed(r, phase) == reqs' = [reqs EXCEPT ![r].phase = phase]

\* Steps 1 to 5a: the signature holds for every token the issuer signed; its
\* times are compared with the clock and its id with the cache.  Requests the
\* step refuses leave nothing behind.  `dead` remembers what already stood
\* against the credential when the request began.
verify_request_inner(r, j, t, op) ==
    /\ reqs[r] = Idle
    /\ j \in DOMAIN jwts
    /\ ~ (jwts[j].exp + Skew < clock)
    /\ ~ (jwts[j].nbf > clock + Skew)
    /\ j \notin cache
    /\ reqs' = [reqs EXCEPT ![r] =
                  [phase |-> "revocation", j |-> j, t |-> t, op |-> op, now |-> 0, handler |-> 0,
                   dead |-> (IF j \in revocations THEN {"revoked"} ELSE {})
                            \cup (IF jwts[j].sub \in suspended THEN {"suspended"} ELSE {})
                            \cup (IF t \in gone THEN {"deleted"} ELSE {})]]
    /\ UNCHANGED <<stores, handlers_, cache, clock>>

\* Slip: the cache alone is trusted.
CheckRevocationCached(r) ==
    /\ reqs[r].phase = "revocation"
    /\ IF reqs[r].j \in cache \/ reqs[r].t # jwts[reqs[r].j].aud
       THEN Refuse(r) ELSE Proceed(r, "user")
    /\ UNCHANGED <<stores, handlers_, cache, clock>>

\* Steps 5b and 6: the stored revocations, then the audience.
CheckRevocation(r) ==
    /\ reqs[r].phase = "revocation"
    /\ IF reqs[r].j \in revocations THEN Proceed(r, "remember")
       ELSE IF reqs[r].t # jwts[reqs[r].j].aud THEN Refuse(r)
       ELSE Proceed(r, "user")
    /\ UNCHANGED <<stores, handlers_, cache, clock>>

\* The cache is filled after the store's lock is released.
RememberRevocation(r) ==
    /\ reqs[r].phase = "remember"
    /\ cache' = cache \cup {reqs[r].j}
    /\ Refuse(r)
    /\ UNCHANGED <<stores, handlers_, clock>>

\* Step 7.
CheckUser(r) ==
    /\ reqs[r].phase = "user"
    /\ IF jwts[reqs[r].j].sub \in suspended THEN Refuse(r) ELSE Proceed(r, "member")
    /\ UNCHANGED <<stores, handlers_, cache, clock>>

\* Steps 8 and 9: the membership, then the grants.
CheckMember(r) ==
    /\ reqs[r].phase = "member"
    /\ IF /\ members[reqs[r].t][jwts[reqs[r].j].sub] # Nobody
          /\ reqs[r].op \in jwts[reqs[r].j].grants
       THEN Proceed(r, "verified") ELSE Refuse(r)
    /\ UNCHANGED <<stores, handlers_, cache, clock>>

Verify(r) ==
    \/ \E j \in Jti, t \in Tenant, op \in {"Read", "Write"} : verify_request_inner(r, j, t, op)
    \/ CheckRevocation(r)
    \/ RememberRevocation(r)
    \/ CheckUser(r)
    \/ CheckMember(r)

Begin ==
    \/ \E t \in Tenant : create_tenant(t) \/ delete_tenant(t)
    \/ \E t \in Tenant, u \in User :
          \/ \E role \in GivenRole : upsert_tenant_member(t, u, role)
          \/ remove_tenant_member(t, u)
          \/ \E grants \in Asked, self \in BOOLEAN : issue_credential(t, u, grants, self)
    \/ \E u \in User : suspend_user(u)
    \/ \E t \in Tenant, j \in Jti : FindCredential(t, j)

Continue ==
    \/ IssueToSelf
    \/ \E j \in Jti, ttl \in Ttl : IssueTracked(j, ttl)
    \/ revoke_credential
    \/ DeleteIssuances \/ DeleteMembers \/ DeleteRow \/ DeleteFails

Administer ==
    \/ changes < MaxChanges /\ changes' = changes + 1 /\ Begin
    \/ Continue /\ UNCHANGED changes
============================================================================
