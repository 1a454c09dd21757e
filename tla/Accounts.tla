------------------------------- MODULE Accounts -------------------------------
(***************************************************************************)
(* Accounts: registration, login, the rotation of refresh tokens, logout   *)
(* and the change of a password, one action per method of AuthService and  *)
(* all of them on the session of one request.                              *)
(*                                                                         *)
(* A request that is refused writes at most what its rollback takes back,  *)
(* so it is a request that is abandoned; only the refusal that issues a    *)
(* statement of its own (a token shown twice) has a step here.             *)
(***************************************************************************)
EXTENDS ContentRequest

CONSTANTS Fold,                  \* an email in lower case; its domain is every email
          Secrets,               \* passwords that pass validate_complexity
          ActiveOrganizations,
          Skills                 \* skills of a profile

ASSUME OrganizationsAssumption == "none" \notin ActiveOrganizations

Emails == DOMAIN Fold

AccountRequests == {"register_admin", "register_candidate", "login", "refresh_token",
                    "logout", "change_password", "get_me"}

\* What the request schemas let through; nobody registers as a superadmin.
AdminRegistrations     == [email : Emails, secret : Secrets, org : ActiveOrganizations,
                           role : {"admin", "read_only"}]
CandidateRegistrations == [email : Emails, secret : Secrets, skills : SUBSET Skills]
LoginForms             == [email : Emails, secret : Secrets]

Users(r)        == From("user", View(r))
RecordsOf(u, r) == {x \in From(u.type, View(r)) : x.user = u.id}
TokensOf(u, r)  == {k \in From("token", View(r)) : k.user = u}

\* exists().where(lower(email) = ...)
Registered(r, email) == \E u \in Users(r) : Fold[u.email] = Fold[email]

NewUser(r, type, form) ==
    [id |-> <<"user", r>>, email |-> form.email, name |-> "n", type |-> type, active |-> TRUE,
     secret |-> form.secret, version |-> 1, seen |-> None]
NewAdmin(r, form) ==
    [id |-> <<"admin", r>>, user |-> <<"user", r>>, org |-> form.org, role |-> form.role]
NewCandidate(r, form) ==
    [id |-> <<"candidate", r>>, user |-> <<"user", r>>, skills |-> form.skills, bio |-> "n"]
NewToken(r, u) == [id |-> <<"token", r>>, user |-> u.id, revoked |-> FALSE]

(***************************************************************************)
(* Access tokens: the claims that are signed and the identity made of      *)
(* them.  Nothing is looked up: what was true at the login is believed.    *)
(***************************************************************************)
AccessToken(u, x) ==
    IF u.type = "admin"
    THEN [type |-> "admin", org |-> x.org, role |-> x.role, candidate |-> "none"]
    ELSE [type |-> "candidate", org |-> "none", role |-> "none", candidate |-> x.id[2]]

IdentityOf(claims) ==
    IF claims.type = "admin"
    THEN IF claims.role = "none" THEN Nobody ELSE AdminIdentity(claims.org, claims.role)
    ELSE CandidateIdentity(claims.candidate)

\* The identity a request of u carries; without a valid token it is nobody's,
\* which the operations that need one refuse.
CallerOf(u, r) == {IdentityOf(AccessToken(u, x)) : x \in RecordsOf(u, r)} \ {Nobody}

(***************************************************************************)
(* Registration: the user is flushed for its id, then its record.          *)
(***************************************************************************)
\* Mutant: the user is committed to get its id, before the record is there.
RegisterUserFirst(r, op, user, record) ==
    /\ ~Registered(r, user.email)
    /\ Begin(r, Nobody, op, user, <<user, record>>, <<"insert", "log_and_commit">>)

Register(r, op, user, record) ==
    /\ ~Registered(r, user.email)
    /\ Begin(r, Nobody, op, user, <<user, record>>, <<"insert", "insert", "log_and_commit">>)

RegisterAdmin(r) ==
    \E form \in AdminRegistrations :
        Register(r, "register_admin", NewUser(r, "admin", form), NewAdmin(r, form))

RegisterCandidate(r) ==
    \E form \in CandidateRegistrations :
        Register(r, "register_candidate", NewUser(r, "candidate", form), NewCandidate(r, form))

(***************************************************************************)
(* Login.  The commit flushes users before refresh_tokens.                 *)
(***************************************************************************)
Admissible(u, r) ==
    /\ u.active
    /\ \E x \in RecordsOf(u, r) : u.type = "admin" => x.org \in ActiveOrganizations

Login(r) ==
    \E form \in LoginForms, u \in Users(r) :
        /\ Fold[u.email] = Fold[form.email]
        /\ u.secret = form.secret
        /\ Admissible(u, r)
        /\ Start(r, Nobody, "login", u, <<NewToken(r, u)>>, <<"insert", "log_and_commit">>)
        /\ Issue(r, UpdateRow(u.id, [seen |-> <<r>>]))
        /\ UNCHANGED <<rows, tx>>

(***************************************************************************)
(* Refresh.  The stored token is read without a lock and retired by id;    *)
(* one that was retired before ends all of its user's tokens and raises.   *)
(***************************************************************************)
RevokeAllOf(u, r) == Update(Ids({k \in TokensOf(u, r) : ~k.revoked}), [revoked |-> TRUE])

\* Mutant: the token's row is renewed instead of replaced.
RotateInPlace(r, u, k) ==
    /\ Start(r, Nobody, "refresh_token", k, <<>>, <<"log_and_commit">>)
    /\ Issue(r, UpdateRow(k.id, [revoked |-> FALSE]))
    /\ UNCHANGED <<rows, tx>>

Rotate(r, u, k) ==
    /\ Start(r, Nobody, "refresh_token", k, <<NewToken(r, u)>>, <<"insert", "log_and_commit">>)
    /\ Issue(r, UpdateRow(k.id, [revoked |-> TRUE]))
    /\ UNCHANGED <<rows, tx>>

RefreshToken(r) ==
    \E k \in From("token", View(r)), u \in Users(r) :
        k.user = u.id /\ u.active /\ ~k.revoked /\ Rotate(r, u, k)

RefreshReused(r) ==
    \E k \in From("token", View(r)) :
        /\ k.revoked
        /\ Start(r, Nobody, "refresh_token", k, <<>>, <<"raise">>)
        /\ Issue(r, RevokeAllOf(k.user, r))
        /\ UNCHANGED <<rows, tx>>

\* The raised error rolls back what was just revoked and logged.
Raise(r) ==
    /\ At(r, "raise")
    /\ Fail(r)
    /\ UNCHANGED <<workload, job, shown>>

(***************************************************************************)
(* Logout, change of password, and the profile of the caller.              *)
(***************************************************************************)
Logout(r) ==
    \E k \in From("token", View(r)) :
        IF k.revoked
        THEN Begin(r, Nobody, "logout", k, <<>>, <<"commit">>)
        ELSE /\ Start(r, Nobody, "logout", k, <<>>, <<"log_and_commit">>)
             /\ Issue(r, UpdateRow(k.id, [revoked |-> TRUE]))
             /\ UNCHANGED <<rows, tx>>

\* The bulk UPDATE of the tokens flushes the user first.
ChangePassword(r) ==
    \E u \in Users(r), new \in Secrets : \E by \in CallerOf(u, r) :
        /\ Start(r, by, "change_password", u, <<>>, <<"revoke_all", "log_and_commit">>)
        /\ Issue(r, UpdateRow(u.id, [secret |-> new, version |-> u.version + 1]))
        /\ UNCHANGED <<rows, tx>>

RevokeAll(r) ==
    /\ At(r, "revoke_all")
    /\ Issue(r, RevokeAllOf(job[r].entity.id, r))
    /\ Pass(r)
    /\ UNCHANGED <<rows, tx, workload, shown>>

GetMe(r) ==
    \E u \in Users(r) :
        \E by \in CallerOf(u, r) : Begin(r, by, "get_me", u, <<>>, <<"close">>)

AccountBegin(r) ==
    \/ RegisterAdmin(r) \/ RegisterCandidate(r) \/ Login(r) \/ RefreshToken(r) \/ RefreshReused(r)
    \/ Logout(r) \/ ChangePassword(r) \/ GetMe(r)
=============================================================================
