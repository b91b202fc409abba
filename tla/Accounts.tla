------------------------------- MODULE Accounts -------------------------------
(***************************************************************************)
(* Accounts and sessions (internal/auth, api/auth.go, api/admin_grants.go):*)
(* a Google login finds or creates the user and its identity and mints a   *)
(* session; a session resolves to a user on every request; administrators  *)
(* grant and revoke tiers by email; a user logs out or deletes the account.*)
(* A request is cut wherever another one can get between its statements.   *)
(*                                                                         *)
(* Email addresses are normalised; names, pictures and profile settings    *)
(* are left out.  A person's verified email may change, and an address may *)
(* pass from one person to another.                                        *)
(***************************************************************************)
EXTENDS Integers, FiniteSets

CONSTANTS
    Subs,      \* Google subjects, the people who may sign in
    Emails,    \* their verified addresses
    Floor,     \* [Emails -> Tiers]: the allowlists of the environment (envTier)
    Ids,       \* rows of users that may be inserted
    Sessions,  \* rows of sessions that may be inserted
    Reqs,      \* concurrent requests
    None

Member == 0
Friend == 1
Admin == 2
Tiers == {Member, Friend, Admin}

ASSUME AccountsAssumption ==
    /\ Floor \in [Emails -> Tiers]
    /\ None \notin Ids \cup Emails \cup Sessions \cup Subs

VARIABLES
    user,      \* user[i]: row i of users
    ident,     \* ident[s]: the row of identities with this provider_sub
    grant,     \* grant[e]: the access grant of an address, Member for none
    session,   \* session[k]: row k of sessions
    req        \* req[q]: what request q remembers between its statements

accountVars == <<user, ident, grant, session, req>>

-----------------------------------------------------------------------------
(* Data *)

NoUser == [state |-> "absent", email |-> None, role |-> Member]
NoIdentity == [user |-> None, email |-> None]

\* A session is fresh for bumpThreshold after each slide, then it may be slid.
NoSession == [state |-> "absent", user |-> None]
Usable == {"fresh", "aging"}
Stored(k) == session[k].state \in Usable \cup {"expired"}

NoRequest == [step |-> "idle", sub |-> None, email |-> None, role |-> Member,
              user |-> None, session |-> None, rename |-> FALSE]

Idle(q) == req[q].step = "idle"
Present(i) == user[i].state = "present"
Holder(e) == {i \in Ids : Present(i) /\ user[i].email = e}
SessionsOf(i) == {k \in Sessions : Stored(k) /\ session[k].user = i}

\* roleFor: the higher of the environment's tier and the grant's.
\* Faulty variant: a grant replaces the environment's tier.
RoleForGrant(e) == IF grant[e] # Member THEN grant[e] ELSE Floor[e]
RoleFor(e) == IF Floor[e] >= grant[e] THEN Floor[e] ELSE grant[e]

Goto(q, step) == req' = [req EXCEPT ![q].step = step]
Done(q) == req' = [req EXCEPT ![q] = NoRequest]

-----------------------------------------------------------------------------
(* Signing in: CallbackHandler, upsertUser, createSession *)

\* The claims are verified; the role is computed before the transaction.
LoginRole(q, s, e) ==
    /\ Idle(q)
    /\ req' = [req EXCEPT ![q] = [NoRequest EXCEPT
                  !.step = "found", !.sub = s, !.email = e, !.role = RoleFor(e)]]
    /\ UNCHANGED <<user, ident, grant, session>>

\* The identity is looked up by subject, never by address.  A known user takes
\* the verified address only if it changed and nobody else has it.
LoginFind(q) ==
    LET s == req[q].sub
        e == req[q].email
        i == ident[s].user IN
    /\ req[q].step = "found"
    /\ req' = [req EXCEPT ![q] =
                  IF i = None THEN [@ EXCEPT !.step = "create"]
                  ELSE [@ EXCEPT !.step = "update", !.user = i,
                           !.rename = user[i].email # e /\ Holder(e) \subseteq {i}]]
    /\ UNCHANGED <<user, ident, grant, session>>

\* It fails if the user has gone, or if the address was taken meanwhile.
LoginUpdate(q) ==
    LET s == req[q].sub
        e == req[q].email
        i == req[q].user IN
    /\ req[q].step = "update"
    /\ Present(i) /\ ident[s].user = i
    /\ req[q].rename => Holder(e) \subseteq {i}
    /\ user' = [user EXCEPT ![i].role = req[q].role,
                            ![i].email = IF req[q].rename THEN e ELSE @]
    /\ ident' = [ident EXCEPT ![s].email = e]
    /\ Goto(q, "session")
    /\ UNCHANGED <<grant, session>>

\* A new user and its identity, in one commit.  It fails (ErrEmailInUse) if
\* anyone has the address, or if the subject has signed in meanwhile.
\* Faulty variant: the user that has the address is taken.
LoginCreateLinking(q) ==
    LET s == req[q].sub
        e == req[q].email IN
    /\ req[q].step = "create"
    /\ ident[s].user = None
    /\ \E i \in IF Holder(e) # {} THEN Holder(e) ELSE {j \in Ids : user[j].state = "absent"} :
          /\ user' = [user EXCEPT ![i] = [state |-> "present", email |-> e, role |-> req[q].role]]
          /\ ident' = [ident EXCEPT ![s] = [user |-> i, email |-> e]]
          /\ req' = [req EXCEPT ![q].step = "session", ![q].user = i]
    /\ UNCHANGED <<grant, session>>
LoginCreate(q) ==
    LET s == req[q].sub
        e == req[q].email IN
    /\ req[q].step = "create"
    /\ Holder(e) = {} /\ ident[s].user = None
    /\ \E i \in {j \in Ids : user[j].state = "absent"} :
          /\ user' = [user EXCEPT ![i] = [state |-> "present", email |-> e, role |-> req[q].role]]
          /\ ident' = [ident EXCEPT ![s] = [user |-> i, email |-> e]]
          /\ req' = [req EXCEPT ![q].step = "session", ![q].user = i]
    /\ UNCHANGED <<grant, session>>

\* A statement of its own, refused by the foreign key if the user has gone.
LoginSession(q) ==
    /\ req[q].step = "session"
    /\ Present(req[q].user)
    /\ \E k \in {j \in Sessions : session[j].state = "absent"} :
          session' = [session EXCEPT ![k] = [state |-> "fresh", user |-> req[q].user]]
    /\ Done(q)
    /\ UNCHANGED <<user, ident, grant>>

-----------------------------------------------------------------------------
(* The session on every request: Middleware, Authenticate *)

\* The session and its owner are read at once; the request keeps that owner,
\* with the role it had, to its end.
Authenticate(q, k) ==
    /\ Idle(q)
    /\ Stored(k)
    /\ req' = [req EXCEPT ![q] = [NoRequest EXCEPT
                  !.step = CASE session[k].state = "fresh" -> "in"
                             [] session[k].state = "aging" -> "slide"
                             [] OTHER                      -> "expired",
                  !.session = k, !.user = session[k].user,
                  !.role = user[session[k].user].role]]
    /\ UNCHANGED <<user, ident, grant, session>>

\* UpdateOne finds no row if the session was deleted meanwhile; whatever fails
\* here is logged, and the request goes on.
\* Faulty variant: the row is written back.
SlideUpsert(q) ==
    /\ req[q].step = "slide"
    /\ session' = [session EXCEPT ![req[q].session] = [state |-> "fresh", user |-> req[q].user]]
    /\ Goto(q, "in")
    /\ UNCHANGED <<user, ident, grant>>
Slide(q) ==
    LET k == req[q].session IN
    /\ req[q].step = "slide"
    /\ session' \in {session} \cup
          (IF Stored(k) THEN {[session EXCEPT ![k].state = "fresh"]} ELSE {})
    /\ Goto(q, "in")
    /\ UNCHANGED <<user, ident, grant>>

\* The request goes on as an anonymous one.
DropExpired(q) ==
    LET k == req[q].session IN
    /\ req[q].step = "expired"
    /\ session' = [session EXCEPT ![k].state = "gone"]
    /\ Done(q)
    /\ UNCHANGED <<user, ident, grant>>

\* RevokeSession.
Logout(q) ==
    /\ req[q].step = "in"
    /\ session' = [session EXCEPT ![req[q].session].state = "gone"]
    /\ Done(q)
    /\ UNCHANGED <<user, ident, grant>>

\* RevokeAllForUser.
LogoutAll(q) ==
    /\ req[q].step = "in"
    /\ session' = [k \in Sessions |->
                      IF k \in SessionsOf(req[q].user) THEN [session[k] EXCEPT !.state = "gone"]
                      ELSE session[k]]
    /\ Done(q)
    /\ UNCHANGED <<user, ident, grant>>

-----------------------------------------------------------------------------
(* Grants: requireAdmin looks at the role the request came with *)

\* The grant is written (an upsert, or the delete of one that is there), then
\* the role is recomputed in two statements of their own.
WriteGrant(q, e, tier) ==
    /\ req[q].step = "in" /\ req[q].role = Admin
    /\ tier = Member => grant[e] # Member
    /\ grant' = [grant EXCEPT ![e] = tier]
    /\ req' = [req EXCEPT ![q].step = "recompute", ![q].email = e]
    /\ UNCHANGED <<user, ident, session>>

\* RecomputeUserRole: roleFor.
RecomputeRead(q) ==
    /\ req[q].step = "recompute"
    /\ req' = [req EXCEPT ![q].step = "apply", ![q].role = RoleFor(req[q].email)]
    /\ UNCHANGED <<user, ident, grant, session>>

\* The user with this address, if there is one.
RecomputeApply(q) ==
    /\ req[q].step = "apply"
    /\ user' = [i \in Ids |->
                   IF i \in Holder(req[q].email) THEN [user[i] EXCEPT !.role = req[q].role]
                   ELSE user[i]]
    /\ Done(q)
    /\ UNCHANGED <<ident, grant, session>>

-----------------------------------------------------------------------------
(* delete-account *)

\* IsSoleAdmin: the request's role, and a count; the sole administrator is refused.
CheckSoleAdmin(q) ==
    LET admins == {i \in Ids : Present(i) /\ user[i].role = Admin} IN
    /\ req[q].step = "in"
    /\ req[q].role = Admin => Cardinality(admins) > 1
    /\ Goto(q, "delete")
    /\ UNCHANGED <<user, ident, grant, session>>

\* DeleteUser: sessions, identities and the user, in one commit; it fails if the
\* user has gone.
DeleteUser(q) ==
    LET u == req[q].user IN
    /\ req[q].step = "delete"
    /\ Present(u)
    /\ session' = [k \in Sessions |->
                      IF k \in SessionsOf(u) THEN [session[k] EXCEPT !.state = "gone"]
                      ELSE session[k]]
    /\ ident' = [s \in Subs |-> IF ident[s].user = u THEN NoIdentity ELSE ident[s]]
    /\ user' = [user EXCEPT ![u].state = "deleted"]
    /\ Done(q)
    /\ UNCHANGED grant

-----------------------------------------------------------------------------
\* The request ends here: it wanted nothing more, was refused, a statement
\* failed, a constraint or another table's reference to the user refused it, or
\* the process died; an open transaction rolls back.
EndRequest(q) ==
    /\ ~Idle(q)
    /\ Done(q)
    /\ UNCHANGED <<user, ident, grant, session>>

\* Time passes for a session nobody slides.
SessionAges(k) ==
    /\ session[k].state \in Usable
    /\ session' = [session EXCEPT ![k].state = IF @ = "fresh" THEN "aging" ELSE "expired"]
    /\ UNCHANGED <<user, ident, grant, req>>

AccountsInit ==
    /\ user = [i \in Ids |-> NoUser]
    /\ ident = [s \in Subs |-> NoIdentity]
    /\ grant = [e \in Emails |-> Member]
    /\ session = [k \in Sessions |-> NoSession]
    /\ req = [q \in Reqs |-> NoRequest]

LoginNext(q) ==
    \/ \E s \in Subs, e \in Emails : LoginRole(q, s, e)
    \/ LoginFind(q) \/ LoginUpdate(q) \/ LoginCreate(q) \/ LoginSession(q)

RequestNext(q) ==
    \/ \E k \in Sessions : Authenticate(q, k)
    \/ Slide(q) \/ DropExpired(q) \/ Logout(q) \/ LogoutAll(q)
    \/ \E e \in Emails, tier \in Tiers : WriteGrant(q, e, tier)
    \/ RecomputeRead(q) \/ RecomputeApply(q)
    \/ CheckSoleAdmin(q) \/ DeleteUser(q)

AccountsNext ==
    \/ \E q \in Reqs : LoginNext(q) \/ RequestNext(q) \/ EndRequest(q)
    \/ \E k \in Sessions : SessionAges(k)

AccountsSpec == AccountsInit /\ [][AccountsNext]_accountVars

-----------------------------------------------------------------------------
(* auth.go: "linking by it is an account-takeover footgun", and sign-in and    *)
(* deletion are transactions "so a partial sign-in never persists".  However  *)
(* they interleave, and whoever takes over an address, a user has exactly one *)
(* identity, and identities and sessions belong to users that exist.          *)
AccountsWhole ==
    /\ \A i \in Ids : Present(i) => Cardinality({s \in Subs : ident[s].user = i}) = 1
    /\ \A s \in Subs : ident[s].user # None => Present(ident[s].user)
    /\ \A k \in Sessions : Stored(k) => Present(session[k].user)

\* A session that was logged out, or whose user was deleted, never comes back,
\* although requests that read it before may still be about to slide it.
RevokedStaysRevoked ==
    [][\A k \in Sessions : session[k].state = "gone" => session'[k].state = "gone"]_accountVars

\* auth.go, roleFor: the allowlist "is a permanent FLOOR".  Whatever grants are
\* written, and however stale the role a request applies, a user whose address
\* is the one last verified never has less than the environment confers.
FloorHolds ==
    \A s \in Subs :
        LET i == ident[s].user IN
        i # None /\ user[i].email = ident[s].email => user[i].role >= Floor[user[i].email]
=============================================================================
