---------------------------- MODULE AccountsProofs ----------------------------
(***************************************************************************)
(* Theorems about Accounts, for any people, addresses, allowlist, rows and *)
(* concurrent requests.                                                    *)
(***************************************************************************)
EXTENDS Accounts, FiniteSetTheorems, TLAPS

-----------------------------------------------------------------------------
(* What every state satisfies *)

OrNone(S) == S \cup {None}

UserRow == [state : {"absent", "present", "deleted"}, email : OrNone(Emails), role : Tiers]
IdentityRow == [user : OrNone(Ids), email : OrNone(Emails)]
SessionRow == [state : {"absent", "fresh", "aging", "expired", "gone"}, user : OrNone(Ids)]

LoginSteps == {"found", "update", "create"}
SessionSteps == {"slide", "expired", "in"}
RequestRow == [step : {"idle", "session", "recompute", "apply", "delete"} \cup LoginSteps \cup SessionSteps,
               sub : OrNone(Subs), email : OrNone(Emails), role : Tiers,
               user : OrNone(Ids), session : OrNone(Sessions), rename : BOOLEAN]

RowsOK ==
    /\ user \in [Ids -> UserRow]
    /\ ident \in [Subs -> IdentityRow]
    /\ grant \in [Emails -> Tiers]
    /\ session \in [Sessions -> SessionRow]

\* What a request remembers is of the kind its step needs.  A role it is about
\* to write is no less than the allowlist's for the address it was derived for.
Knows(r) ==
    /\ r.step \in LoginSteps => r.sub \in Subs
    /\ r.step \in LoginSteps \cup {"apply"} => r.email \in Emails /\ r.role >= Floor[r.email]
    /\ r.step = "recompute" => r.email \in Emails
    /\ r.step \in SessionSteps => r.session \in Sessions
    /\ r.step \in SessionSteps \cup {"update", "session", "recompute", "apply", "delete"} => r.user \in Ids

RequestsOK == req \in [Reqs -> RequestRow] /\ \A q \in Reqs : Knows(req[q])

\* A user has an identity, and one only.
OneIdentity ==
    \A i \in Ids : Present(i) => \E s \in Subs : \A t \in Subs : ident[t].user = i <=> t = s

\* Whoever is named by an identity or by a session that is stored is there.
Referenced ==
    /\ \A s \in Subs : ident[s].user # None => Present(ident[s].user)
    /\ \A k \in Sessions : Stored(k) => session[k].user \in Ids /\ Present(session[k].user)

Inv == RowsOK /\ RequestsOK /\ OneIdentity /\ Referenced /\ FloorHolds
-----------------------------------------------------------------------------
(* The initial state, and helpers *)

\* Tiers are the numbers from 0 to 2, and the role of an address is never less
\* than the allowlist's.
LEMMA TierFacts ==
    /\ Tiers \subseteq Nat /\ Member \in Tiers /\ \A e \in Emails : Floor[e] \in Tiers
    /\ \A e \in Emails : grant \in [Emails -> Tiers] =>
          RoleFor(e) \in Tiers /\ RoleFor(e) >= Floor[e]
BY AccountsAssumption DEF Tiers, Member, Friend, Admin, RoleFor

\* A request that is none is well-typed, and knows what it needs.
LEMMA NoRequestRow == NoRequest \in RequestRow /\ Knows(NoRequest) /\ NoRequest.step = "idle"
BY TierFacts DEF NoRequest, RequestRow, Knows, LoginSteps, SessionSteps, OrNone

\* The initial state satisfies the inductive invariant.
LEMMA InitInv == AccountsInit => Inv
<1> SUFFICES ASSUME AccountsInit PROVE Inv
  OBVIOUS
<1> USE AccountsAssumption, TierFacts DEF AccountsInit
<1>1. RowsOK
  BY DEF RowsOK, UserRow, IdentityRow, SessionRow, NoUser, NoIdentity, NoSession, OrNone
<1>2. RequestsOK
  BY NoRequestRow DEF RequestsOK
<1>3. /\ \A i \in Ids : ~Present(i)
      /\ \A s \in Subs : ident[s].user = None
      /\ \A k \in Sessions : ~Stored(k)
  BY DEF Present, Stored, Usable, NoUser, NoIdentity, NoSession
<1>4. OneIdentity /\ Referenced /\ FloorHolds
  BY <1>3 DEF OneIdentity, Referenced, FloorHolds
<1> QED BY <1>1, <1>2, <1>4 DEF Inv

-----------------------------------------------------------------------------
(* Requests *)

\* A request moves on to a row that is fit for it.
LEMMA MoveOn ==
    ASSUME RequestsOK, NEW q \in Reqs, NEW row \in RequestRow, Knows(row),
           req' = [req EXCEPT ![q] = row]
    PROVE  RequestsOK'
BY DEF RequestsOK

\* A request that is over knows nothing.
LEMMA DoneFits == ASSUME RequestsOK, NEW q \in Reqs, Done(q) PROVE RequestsOK'
<1>1. PICK row \in RequestRow : row = NoRequest
  BY NoRequestRow
<1> QED BY <1>1, NoRequestRow, MoveOn DEF Done

\* A request that goes on with what it has.
LEMMA GotoFits ==
    ASSUME RequestsOK, NEW q \in Reqs, NEW step \in {"session", "in", "delete"}, Goto(q, step),
           req[q].user \in Ids, step = "in" => req[q].session \in Sessions
    PROVE  RequestsOK'
<1>1. req[q] \in RequestRow
  BY DEF RequestsOK
<1>2. [req[q] EXCEPT !.step = step] \in RequestRow
  BY <1>1 DEF RequestRow, SessionSteps
<1>3. PICK row \in RequestRow : row = [req[q] EXCEPT !.step = step]
  BY <1>2
<1>4. /\ row.step = step /\ row.user = req[q].user /\ row.session = req[q].session
  BY <1>1, <1>3 DEF RequestRow
<1>5. Knows(row)
  BY <1>4 DEF Knows, LoginSteps, SessionSteps
<1>6. req' = [req EXCEPT ![q] = row]
  BY <1>3 DEF Goto
<1> QED BY <1>5, <1>6, MoveOn

\* Signing in.
LEMMA LoginRequests ==
    ASSUME Inv, NEW q \in Reqs, LoginNext(q) PROVE RequestsOK'
<1>r. /\ RequestsOK /\ req[q] \in RequestRow /\ Knows(req[q])
      /\ user \in [Ids -> UserRow] /\ ident \in [Subs -> IdentityRow] /\ grant \in [Emails -> Tiers]
  BY DEF Inv, RowsOK, RequestsOK
<1>1. ASSUME NEW s \in Subs, NEW e \in Emails, LoginRole(q, s, e) PROVE RequestsOK'
  <2>1. [NoRequest EXCEPT !.step = "found", !.sub = s, !.email = e, !.role = RoleFor(e)] \in RequestRow
    BY <1>r, TierFacts, NoRequestRow DEF RequestRow, LoginSteps, OrNone
  <2>2. PICK row \in RequestRow :
           row = [NoRequest EXCEPT !.step = "found", !.sub = s, !.email = e, !.role = RoleFor(e)]
    BY <2>1
  <2>3. row.step = "found" /\ row.sub = s /\ row.email = e /\ row.role = RoleFor(e)
    BY <2>2, NoRequestRow DEF RequestRow
  <2>4. Knows(row)
    BY <1>r, <2>3, TierFacts DEF Knows, LoginSteps, SessionSteps
  <2> QED BY <1>1, <1>r, <2>2, <2>4, MoveOn DEF LoginRole
<1>2. CASE LoginFind(q)
  <2> DEFINE i == ident[req[q].sub].user
             rename == user[i].email # req[q].email /\ Holder(req[q].email) \subseteq {i}
  <2>1. req[q].step = "found" /\ req[q].sub \in Subs /\ req[q].email \in Emails /\ req[q].role >= Floor[req[q].email]
    BY <1>2, <1>r DEF LoginFind, Knows, LoginSteps
  <2>2. i = None \/ i \in Ids
    BY <1>r, <2>1 DEF IdentityRow, OrNone
  <2>3. CASE i = None
    <3>1. [req[q] EXCEPT !.step = "create"] \in RequestRow
      BY <1>r DEF RequestRow, LoginSteps
    <3>2. PICK row \in RequestRow : row = [req[q] EXCEPT !.step = "create"]
      BY <3>1
    <3>3. row.step = "create" /\ row.sub = req[q].sub /\ row.email = req[q].email /\ row.role = req[q].role
      BY <1>r, <3>2 DEF RequestRow
    <3>4. Knows(row)
      BY <2>1, <3>3 DEF Knows, LoginSteps, SessionSteps
    <3>5. req' = [req EXCEPT ![q] = row]
      BY <1>2, <2>3, <3>2 DEF LoginFind
    <3> QED BY <1>r, <3>4, <3>5, MoveOn
  <2>4. CASE i # None
    <3>1. PICK n \in Ids, new \in BOOLEAN : n = i /\ new = rename
      BY <2>2, <2>4
    <3>2. [req[q] EXCEPT !.step = "update", !.user = n, !.rename = new] \in RequestRow
      BY <1>r DEF RequestRow, LoginSteps, OrNone
    <3>3. PICK row \in RequestRow : row = [req[q] EXCEPT !.step = "update", !.user = n, !.rename = new]
      BY <3>2
    <3>4. /\ row.step = "update" /\ row.user = n
          /\ row.sub = req[q].sub /\ row.email = req[q].email /\ row.role = req[q].role
      BY <1>r, <3>3 DEF RequestRow
    <3>5. Knows(row)
      BY <2>1, <3>4 DEF Knows, LoginSteps, SessionSteps
    <3>6. req' = [req EXCEPT ![q] = row]
      BY <1>2, <2>4, <3>1, <3>3 DEF LoginFind
    <3> QED BY <1>r, <3>5, <3>6, MoveOn
  <2> QED BY <2>3, <2>4
<1>3. CASE LoginUpdate(q)
  <2>1. req[q].user \in Ids /\ Goto(q, "session")
    BY <1>3, <1>r DEF LoginUpdate, Knows
  <2> QED BY <1>r, <2>1, GotoFits
<1>4. CASE LoginCreate(q)
  <2>1. PICK i \in Ids : req' = [req EXCEPT ![q].step = "session", ![q].user = i]
    BY <1>4 DEF LoginCreate
  <2>2. [req[q] EXCEPT !.step = "session", !.user = i] \in RequestRow
    BY <1>r DEF RequestRow, OrNone
  <2>3. PICK row \in RequestRow : row = [req[q] EXCEPT !.step = "session", !.user = i]
    BY <2>2
  <2>4. row.step = "session" /\ row.user = i
    BY <1>r, <2>3 DEF RequestRow
  <2>5. Knows(row)
    BY <2>4 DEF Knows, LoginSteps, SessionSteps
  <2>6. req' = [req EXCEPT ![q] = row]
    BY <1>r, <2>1, <2>3 DEF RequestsOK
  <2> QED BY <1>r, <2>5, <2>6, MoveOn
<1>5. CASE LoginSession(q)
  BY <1>5, <1>r, DoneFits DEF LoginSession
<1> QED BY <1>1, <1>2, <1>3, <1>4, <1>5 DEF LoginNext

\* Everything else a request does.
LEMMA OtherRequests ==
    ASSUME Inv, NEW q \in Reqs, RequestNext(q) PROVE RequestsOK'
<1>r. /\ RequestsOK /\ req[q] \in RequestRow /\ Knows(req[q])
      /\ user \in [Ids -> UserRow] /\ session \in [Sessions -> SessionRow] /\ grant \in [Emails -> Tiers]
  BY DEF Inv, RowsOK, RequestsOK
<1>1. ASSUME NEW k \in Sessions, Authenticate(q, k) PROVE RequestsOK'
  <2> DEFINE next == CASE session[k].state = "fresh" -> "in"
                       [] session[k].state = "aging" -> "slide"
                       [] OTHER                      -> "expired"
  <2>1. session[k].user \in Ids
    BY <1>1 DEF Authenticate, Inv, Referenced
  <2>2. user[session[k].user].role \in Tiers
    BY <1>r, <2>1 DEF UserRow
  <2>3. next \in SessionSteps
    BY DEF SessionSteps
  <2>4. PICK step \in SessionSteps, i \in Ids, role \in Tiers :
           step = next /\ i = session[k].user /\ role = user[session[k].user].role
    BY <2>1, <2>2, <2>3
  <2>5. [NoRequest EXCEPT !.step = step, !.session = k, !.user = i, !.role = role] \in RequestRow
    BY NoRequestRow DEF RequestRow, OrNone
  <2>6. PICK row \in RequestRow :
           row = [NoRequest EXCEPT !.step = step, !.session = k, !.user = i, !.role = role]
    BY <2>5
  <2>7. row.step = step /\ row.session = k /\ row.user = i
    BY <2>6, NoRequestRow DEF RequestRow
  <2>8. Knows(row)
    BY <2>7 DEF Knows, LoginSteps, SessionSteps
  <2>9. req' = [req EXCEPT ![q] = row]
    BY <1>1, <2>4, <2>6 DEF Authenticate
  <2> QED BY <1>r, <2>8, <2>9, MoveOn
<1>2. CASE Slide(q) \/ CheckSoleAdmin(q)
  <2>1. /\ req[q].user \in Ids /\ req[q].session \in Sessions
        /\ Goto(q, "in") \/ Goto(q, "delete")
    BY <1>2, <1>r DEF Slide, CheckSoleAdmin, Knows, SessionSteps
  <2> QED BY <1>r, <2>1, GotoFits
<1>3. CASE DropExpired(q) \/ Logout(q) \/ LogoutAll(q) \/ RecomputeApply(q) \/ DeleteUser(q)
  BY <1>3, <1>r, DoneFits DEF DropExpired, Logout, LogoutAll, RecomputeApply, DeleteUser
<1>4. ASSUME NEW e \in Emails, NEW tier \in Tiers, WriteGrant(q, e, tier) PROVE RequestsOK'
  <2>1. req[q].user \in Ids
    BY <1>4, <1>r DEF WriteGrant, Knows, SessionSteps
  <2>2. [req[q] EXCEPT !.step = "recompute", !.email = e] \in RequestRow
    BY <1>r DEF RequestRow, OrNone
  <2>3. PICK row \in RequestRow : row = [req[q] EXCEPT !.step = "recompute", !.email = e]
    BY <2>2
  <2>4. row.step = "recompute" /\ row.email = e /\ row.user = req[q].user
    BY <1>r, <2>3 DEF RequestRow
  <2>5. Knows(row)
    BY <2>1, <2>4 DEF Knows, LoginSteps, SessionSteps
  <2>6. req' = [req EXCEPT ![q] = row]
    BY <1>4, <1>r, <2>3 DEF WriteGrant, RequestsOK
  <2> QED BY <1>r, <2>5, <2>6, MoveOn
<1>5. CASE RecomputeRead(q)
  <2>1. req[q].user \in Ids /\ req[q].email \in Emails
    BY <1>5, <1>r DEF RecomputeRead, Knows
  <2>2. PICK role \in Tiers : role = RoleFor(req[q].email) /\ role >= Floor[req[q].email]
    BY <1>r, <2>1, TierFacts
  <2>3. [req[q] EXCEPT !.step = "apply", !.role = role] \in RequestRow
    BY <1>r DEF RequestRow
  <2>4. PICK row \in RequestRow : row = [req[q] EXCEPT !.step = "apply", !.role = role]
    BY <2>3
  <2>5. row.step = "apply" /\ row.role = role /\ row.email = req[q].email /\ row.user = req[q].user
    BY <1>r, <2>4 DEF RequestRow
  <2>6. Knows(row)
    BY <2>1, <2>2, <2>5 DEF Knows, LoginSteps, SessionSteps
  <2>7. req' = [req EXCEPT ![q] = row]
    BY <1>5, <1>r, <2>2, <2>4 DEF RecomputeRead, RequestsOK
  <2> QED BY <1>r, <2>6, <2>7, MoveOn
<1> QED BY <1>1, <1>2, <1>3, <1>4, <1>5 DEF RequestNext

\* Every step leaves requests knowing what they need.
LEMMA RequestsStep == Inv /\ [AccountsNext]_accountVars => RequestsOK'
<1> SUFFICES ASSUME Inv, [AccountsNext]_accountVars PROVE RequestsOK'
  OBVIOUS
<1>1. ASSUME NEW q \in Reqs, LoginNext(q) \/ RequestNext(q) \/ EndRequest(q) PROVE RequestsOK'
  BY <1>1, LoginRequests, OtherRequests, DoneFits DEF Inv, EndRequest
<1>2. CASE UNCHANGED req
  BY <1>2 DEF Inv, RequestsOK
<1> QED BY <1>1, <1>2 DEF AccountsNext, SessionAges, accountVars

-----------------------------------------------------------------------------
(* The rows: users, identities, grants and sessions *)

RowsInv == RowsOK /\ OneIdentity /\ Referenced /\ FloorHolds

\* A step that writes no row.
LEMMA NothingWritten ==
    ASSUME Inv, UNCHANGED <<user, ident, grant, session>> PROVE RowsInv'
BY DEF Inv, RowsInv, RowsOK, OneIdentity, Referenced, FloorHolds, Present, Stored

\* A step that only writes sessions, each of which keeps its user or is opened
\* for a user that is there.
LEMMA SessionsWritten ==
    ASSUME Inv, UNCHANGED <<user, ident, grant>>, session' \in [Sessions -> SessionRow],
           \A k \in Sessions : Stored(k)' =>
               \/ Stored(k) /\ session'[k].user = session[k].user
               \/ session'[k].user \in Ids /\ Present(session'[k].user)
    PROVE  RowsInv'
<1>1. RowsOK'
  BY DEF Inv, RowsOK
<1>2. OneIdentity' /\ FloorHolds'
  BY DEF Inv, OneIdentity, FloorHolds, Present
<1>3. \A k \in Sessions : Stored(k)' => session'[k].user \in Ids /\ Present(session'[k].user)
  BY DEF Inv, Referenced
<1>4. Referenced'
  BY <1>3 DEF Inv, Referenced, Present
<1> QED BY <1>1, <1>2, <1>4 DEF RowsInv

\* A known user signs in: its one identity is the one that vouches for the
\* address, and the role is at least what that address confers.
LEMMA UpdateKeepsRows == ASSUME Inv, NEW q \in Reqs, LoginUpdate(q) PROVE RowsInv'
<1>r. PICK s \in Subs, e \in Emails, i \in Ids, role \in Tiers :
         s = req[q].sub /\ e = req[q].email /\ i = req[q].user /\ role = req[q].role /\ role >= Floor[e]
  BY DEF LoginUpdate, Inv, RequestsOK, Knows, RequestRow, LoginSteps
<1>t. user \in [Ids -> UserRow] /\ ident \in [Subs -> IdentityRow]
  BY DEF Inv, RowsOK
<1>p. user[i].state = "present" /\ ident[s].user = i
  BY <1>r DEF LoginUpdate, Present
<1>f. PICK email \in OrNone(Emails) : email = IF req[q].rename THEN e ELSE user[i].email
  BY <1>t DEF OrNone, UserRow
<1>1. user' = [user EXCEPT ![i] = [state |-> "present", email |-> email, role |-> role]]
  <2>1. user' = [user EXCEPT ![i].role = role, ![i].email = email]
    BY <1>r, <1>f DEF LoginUpdate
  <2>2. user[i] \in UserRow
    BY <1>t
  <2>3. [[user[i] EXCEPT !.role = role] EXCEPT !.email = email] = [state |-> "present", email |-> email, role |-> role]
    <3>1. [user[i] EXCEPT !.role = role] \in UserRow
      BY <2>2 DEF UserRow
    <3>2. PICK row \in UserRow : row = [user[i] EXCEPT !.role = role]
      BY <3>1
    <3>3. row.state = "present" /\ row.role = role
      BY <2>2, <1>p, <3>2 DEF UserRow
    <3>4. [row EXCEPT !.email = email] = [state |-> "present", email |-> email, role |-> role]
      BY <3>3 DEF UserRow
    <3> QED BY <3>2, <3>4
  <2> QED BY <2>1, <2>3, <1>t
<1>2. ident' = [ident EXCEPT ![s] = [user |-> i, email |-> e]]
  <2>1. ident' = [ident EXCEPT ![s].email = e]
    BY <1>r DEF LoginUpdate
  <2>2. [ident[s] EXCEPT !.email = e] = [user |-> i, email |-> e]
    BY <1>t, <1>p DEF IdentityRow
  <2> QED BY <2>1, <2>2, <1>t
<1>3. UNCHANGED <<grant, session>>
  BY DEF LoginUpdate
<1>4. RowsOK'
  BY <1>t, <1>1, <1>2, <1>3 DEF Inv, RowsOK, UserRow, IdentityRow, OrNone
<1>5. /\ \A j \in Ids : Present(j)' <=> Present(j)
      /\ \A t \in Subs : ident'[t].user = ident[t].user
      /\ \A t \in Subs : ident[t].user = i => t = s
  <2>1. \A j \in Ids : Present(j)' <=> Present(j)
    BY <1>1, <1>t, <1>p DEF Present
  <2>2. \A t \in Subs : ident'[t].user = ident[t].user
    BY <1>2, <1>t, <1>p
  <2>3. \A t \in Subs : ident[t].user = i => t = s
    BY <1>p DEF Inv, OneIdentity, Present
  <2> QED BY <2>1, <2>2, <2>3
<1>6. OneIdentity'
  BY <1>5 DEF Inv, OneIdentity
<1>7. Referenced'
  <2>1. \A t \in Subs : ident'[t].user # None => Present(ident[t].user)'
    BY <1>5, <1>t DEF Inv, Referenced, IdentityRow, OrNone, Present
  <2>2. \A k \in Sessions : Stored(k)' => session'[k].user \in Ids /\ Present(session[k].user)'
    BY <1>3, <1>5 DEF Inv, Referenced, Stored, Present
  <2> QED BY <2>1, <2>2 DEF Referenced, Present
<1>8. FloorHolds'
  <2> SUFFICES ASSUME NEW t \in Subs, ident'[t].user # None,
                      user'[ident'[t].user].email = ident'[t].email
               PROVE  user'[ident'[t].user].role >= Floor[user'[ident'[t].user].email]
    BY DEF FloorHolds
  <2>1. CASE t = s
    <3>1. ident'[t] = [user |-> i, email |-> e] /\ user'[i] = [state |-> "present", email |-> email, role |-> role]
      BY <2>1, <1>1, <1>2, <1>t
    <3> QED BY <3>1, <1>r
  <2>2. CASE t # s
    <3>1. ident'[t] = ident[t] /\ ident[t].user \in Ids /\ ident[t].user # i
      BY <2>2, <1>2, <1>5, <1>t DEF IdentityRow, OrNone
    <3>2. user'[ident[t].user] = user[ident[t].user]
      BY <3>1, <1>1, <1>t
    <3> QED BY <3>1, <3>2 DEF Inv, FloorHolds
  <2> QED BY <2>1, <2>2
<1> QED BY <1>4, <1>6, <1>7, <1>8 DEF RowsInv

\* A new user: nobody else names its row, and the subject had no identity.
LEMMA CreateKeepsRows == ASSUME Inv, NEW q \in Reqs, LoginCreate(q) PROVE RowsInv'
<1>r. PICK s \in Subs, e \in Emails, role \in Tiers :
         s = req[q].sub /\ e = req[q].email /\ role = req[q].role /\ role >= Floor[e]
  BY DEF LoginCreate, Inv, RequestsOK, Knows, RequestRow, LoginSteps
<1>t. user \in [Ids -> UserRow] /\ ident \in [Subs -> IdentityRow]
  BY DEF Inv, RowsOK
<1>p. PICK i \in Ids : /\ user[i].state = "absent"
                       /\ user' = [user EXCEPT ![i] = [state |-> "present", email |-> e, role |-> role]]
                       /\ ident' = [ident EXCEPT ![s] = [user |-> i, email |-> e]]
  BY <1>r DEF LoginCreate
<1>3. UNCHANGED <<grant, session>> /\ ident[s].user = None /\ None \notin Ids
  BY <1>r, AccountsAssumption DEF LoginCreate
<1>4. RowsOK'
  BY <1>t, <1>p, <1>3 DEF Inv, RowsOK, UserRow, IdentityRow, OrNone
<1>5. /\ ~Present(i) /\ Present(i)'
      /\ \A j \in Ids \ {i} : user'[j] = user[j] /\ (Present(j)' <=> Present(j))
      /\ \A t \in Subs \ {s} : ident'[t] = ident[t]
      /\ ident'[s].user = i
      /\ \A t \in Subs : ident[t].user # i
  <2>1. ~Present(i) /\ Present(i)'
    BY <1>p, <1>t DEF Present
  <2>2. \A j \in Ids \ {i} : user'[j] = user[j] /\ (Present(j)' <=> Present(j))
    BY <1>p, <1>t DEF Present
  <2>3. \A t \in Subs \ {s} : ident'[t] = ident[t]
    BY <1>p, <1>t
  <2>4. ident'[s].user = i
    BY <1>p, <1>t
  <2>5. \A t \in Subs : ident[t].user # i
    BY <2>1, <1>3 DEF Inv, Referenced
  <2> QED BY <2>1, <2>2, <2>3, <2>4, <2>5
<1>6. OneIdentity'
  <2> SUFFICES ASSUME NEW j \in Ids, Present(j)' PROVE \E t \in Subs : \A r \in Subs : ident'[r].user = j <=> r = t
    BY DEF OneIdentity
  <2>1. CASE j = i
    <3>1. \A r \in Subs : ident'[r].user = j <=> r = s
      BY <2>1, <1>5
    <3> QED BY <3>1
  <2>2. CASE j # i
    <3>1. PICK t \in Subs : \A r \in Subs : ident[r].user = j <=> r = t
      BY <2>2, <1>5 DEF Inv, OneIdentity
    <3>2. \A r \in Subs : ident'[r].user = j <=> r = t
      BY <3>1, <2>2, <1>5, <1>3
    <3> QED BY <3>2
  <2> QED BY <2>1, <2>2
<1>7. Referenced'
  <2>1. \A t \in Subs : ident'[t].user # None => Present(ident[t].user)'
    BY <1>5, <1>t DEF Inv, Referenced, IdentityRow, OrNone, Present
  <2>2. \A k \in Sessions : Stored(k)' => session'[k].user \in Ids /\ Present(session[k].user)'
    BY <1>3, <1>5 DEF Inv, Referenced, Stored, Present
  <2> QED BY <2>1, <2>2 DEF Referenced, Present
<1>8. FloorHolds'
  <2> SUFFICES ASSUME NEW t \in Subs, ident'[t].user # None,
                      user'[ident'[t].user].email = ident'[t].email
               PROVE  user'[ident'[t].user].role >= Floor[user'[ident'[t].user].email]
    BY DEF FloorHolds
  <2>1. CASE t = s
    <3>1. ident'[t] = [user |-> i, email |-> e] /\ user'[i] = [state |-> "present", email |-> e, role |-> role]
      BY <2>1, <1>p, <1>t
    <3> QED BY <3>1, <1>r
  <2>2. CASE t # s
    <3>1. ident'[t] = ident[t] /\ ident[t].user \in Ids /\ ident[t].user # i
      BY <2>2, <1>5, <1>t DEF IdentityRow, OrNone
    <3>2. user'[ident[t].user] = user[ident[t].user]
      BY <3>1, <1>5
    <3> QED BY <3>1, <3>2 DEF Inv, FloorHolds
  <2> QED BY <2>1, <2>2
<1> QED BY <1>4, <1>6, <1>7, <1>8 DEF RowsInv

\* A recomputed role goes to the holder of the address it was derived for.
LEMMA RecomputeKeepsRows == ASSUME Inv, NEW q \in Reqs, RecomputeApply(q) PROVE RowsInv'
<1>r. PICK e \in Emails, role \in Tiers : e = req[q].email /\ role = req[q].role /\ role >= Floor[e]
  BY DEF RecomputeApply, Inv, RequestsOK, Knows, RequestRow
<1>t. user \in [Ids -> UserRow] /\ ident \in [Subs -> IdentityRow]
  BY DEF Inv, RowsOK
<1>1. \A j \in Ids :
         user'[j] = IF j \in Holder(e) THEN [state |-> "present", email |-> e, role |-> role] ELSE user[j]
  BY <1>r, <1>t DEF RecomputeApply, Holder, Present, UserRow
<1>2. UNCHANGED <<ident, grant, session>>
  BY DEF RecomputeApply
<1>3. user' \in [Ids -> UserRow]
  <2>1. \A j \in Ids : user'[j] \in UserRow
    BY <1>1, <1>t DEF UserRow, OrNone
  <2> QED BY <2>1 DEF RecomputeApply
<1>4. RowsOK'
  BY <1>2, <1>3 DEF Inv, RowsOK
<1>5. \A j \in Ids : (Present(j)' <=> Present(j)) /\ user'[j].email = user[j].email
  BY <1>1, <1>t DEF Present, Holder, UserRow
<1>6. OneIdentity'
  BY <1>2, <1>5 DEF Inv, OneIdentity
<1>7. Referenced'
  <2>1. \A t \in Subs : ident'[t].user # None => Present(ident[t].user)'
    BY <1>2, <1>5, <1>t DEF Inv, Referenced, IdentityRow, OrNone, Present
  <2>2. \A k \in Sessions : Stored(k)' => session'[k].user \in Ids /\ Present(session[k].user)'
    BY <1>2, <1>5 DEF Inv, Referenced, Stored, Present
  <2> QED BY <2>1, <2>2 DEF Referenced, Present
<1>8. FloorHolds'
  <2> SUFFICES ASSUME NEW t \in Subs, ident[t].user # None,
                      user'[ident[t].user].email = ident[t].email
               PROVE  user'[ident[t].user].role >= Floor[user'[ident[t].user].email]
    BY <1>2 DEF FloorHolds
  <2>1. PICK j \in Ids : j = ident[t].user
    BY <1>t DEF IdentityRow, OrNone
  <2>2. CASE j \in Holder(e)
    BY <2>1, <2>2, <1>1, <1>r
  <2>3. CASE j \notin Holder(e)
    BY <2>1, <2>3, <1>1 DEF Inv, FloorHolds
  <2> QED BY <2>2, <2>3
<1> QED BY <1>4, <1>6, <1>7, <1>8 DEF RowsInv

\* A user goes with every identity and session that names it.
LEMMA DeleteKeepsRows == ASSUME Inv, NEW q \in Reqs, DeleteUser(q) PROVE RowsInv'
<1>r. PICK u \in Ids : u = req[q].user
  BY DEF DeleteUser, Inv, RequestsOK, Knows
<1>t. /\ user \in [Ids -> UserRow] /\ ident \in [Subs -> IdentityRow] /\ session \in [Sessions -> SessionRow]
      /\ None \notin Ids
  BY AccountsAssumption DEF Inv, RowsOK
<1>1. /\ \A t \in Subs : ident'[t] = IF ident[t].user = u THEN NoIdentity ELSE ident[t]
      /\ \A k \in Sessions : session'[k] = IF Stored(k) /\ session[k].user = u
                                           THEN [session[k] EXCEPT !.state = "gone"] ELSE session[k]
      /\ user' = [user EXCEPT ![u].state = "deleted"]
      /\ grant' = grant
  BY <1>r DEF DeleteUser, SessionsOf
<1>2. RowsOK'
  <2>1. user' \in [Ids -> UserRow]
    BY <1>1, <1>t DEF UserRow
  <2>2. ident' \in [Subs -> IdentityRow]
    BY <1>1, <1>t DEF DeleteUser, IdentityRow, NoIdentity, OrNone
  <2>3. \A k \in Sessions : session'[k] \in SessionRow
    BY <1>1, <1>t DEF SessionRow
  <2>4. session' \in [Sessions -> SessionRow]
    BY <2>3 DEF DeleteUser
  <2> QED BY <2>1, <2>2, <2>4, <1>1 DEF Inv, RowsOK
<1>3. /\ ~Present(u)'
      /\ \A j \in Ids \ {u} : user'[j] = user[j] /\ (Present(j)' <=> Present(j))
  BY <1>1, <1>t DEF Present, UserRow
<1>4. \A t \in Subs : /\ ident'[t].user # u
                      /\ ident'[t].user # None => ident'[t] = ident[t]
                      /\ ident[t].user # u => ident'[t] = ident[t]
  BY <1>1, <1>t DEF NoIdentity
<1>5. \A k \in Sessions : Stored(k)' => Stored(k) /\ session'[k] = session[k] /\ session[k].user # u
  <2> SUFFICES ASSUME NEW k \in Sessions, Stored(k)'
               PROVE  Stored(k) /\ session'[k] = session[k] /\ session[k].user # u
    OBVIOUS
  <2>1. session'[k].state # "gone"
    BY DEF Stored, Usable
  <2>2. ~(Stored(k) /\ session[k].user = u)
    BY <2>1, <1>1, <1>t DEF SessionRow
  <2>3. session'[k] = session[k]
    BY <2>2, <1>1
  <2>4. Stored(k)
    BY <2>3 DEF Stored
  <2> QED BY <2>2, <2>3, <2>4
<1>6. OneIdentity'
  <2> SUFFICES ASSUME NEW j \in Ids, Present(j)' PROVE \E t \in Subs : \A r \in Subs : ident'[r].user = j <=> r = t
    BY DEF OneIdentity
  <2>1. j # u
    BY <1>3
  <2>2. PICK t \in Subs : \A r \in Subs : ident[r].user = j <=> r = t
    BY <2>1, <1>3 DEF Inv, OneIdentity
  <2>3. \A r \in Subs : ident'[r].user = j <=> r = t
    BY <2>1, <2>2, <1>4, <1>t
  <2> QED BY <2>3
<1>7. Referenced'
  <2>1. \A t \in Subs : ident'[t].user # None => Present(ident[t].user)'
    BY <1>3, <1>4, <1>t DEF Inv, Referenced, IdentityRow, OrNone, Present
  <2>2. \A k \in Sessions : Stored(k)' => session'[k].user \in Ids /\ Present(session[k].user)'
    BY <1>3, <1>5 DEF Inv, Referenced, Present
  <2> QED BY <2>1, <2>2 DEF Referenced, Present
<1>8. FloorHolds'
  BY <1>3, <1>4, <1>t DEF Inv, FloorHolds, IdentityRow, OrNone
<1> QED BY <1>2, <1>6, <1>7, <1>8 DEF RowsInv

\* A write of one session: its user is as it was.
LEMMA OneSessionWritten ==
    ASSUME Inv, NEW k \in Sessions, NEW next \in {"fresh", "aging", "expired", "gone"},
           UNCHANGED <<user, ident, grant>>, next = "gone" \/ Stored(k),
           session' = [session EXCEPT ![k].state = next]
    PROVE  RowsInv'
<1>t. session \in [Sessions -> SessionRow]
  BY DEF Inv, RowsOK
<1>1. session' \in [Sessions -> SessionRow]
  BY <1>t DEF SessionRow
<1>2. ASSUME NEW j \in Sessions, Stored(j)' PROVE Stored(j) /\ session'[j].user = session[j].user
  <2>1. CASE j = k
    <3>1. session'[j].user = session[j].user /\ session'[j].state = next
      BY <2>1, <1>t DEF SessionRow
    <3>2. next # "gone"
      BY <3>1, <1>2 DEF Stored, Usable
    <3> QED BY <3>1, <3>2, <2>1
  <2>2. CASE j # k
    <3>1. session'[j] = session[j]
      BY <2>2, <1>t
    <3> QED BY <3>1, <1>2 DEF Stored
  <2> QED BY <2>1, <2>2
<1> QED BY <1>1, <1>2, SessionsWritten

\* A new session is for a user that is there.
LEMMA NewSessionKeepsRows == ASSUME Inv, NEW q \in Reqs, LoginSession(q) PROVE RowsInv'
<1>t. session \in [Sessions -> SessionRow]
  BY DEF Inv, RowsOK
<1>r. PICK u \in Ids : u = req[q].user
  BY DEF LoginSession, Inv, RequestsOK, Knows
<1>k. PICK k \in Sessions : session' = [session EXCEPT ![k] = [state |-> "fresh", user |-> u]]
  BY <1>r DEF LoginSession
<1>1. session' \in [Sessions -> SessionRow]
  BY <1>t, <1>k DEF SessionRow, OrNone
<1>2. UNCHANGED <<user, ident, grant>> /\ Present(u)
  BY <1>r DEF LoginSession
<1>3. ASSUME NEW j \in Sessions, Stored(j)'
      PROVE  \/ Stored(j) /\ session'[j].user = session[j].user
             \/ session'[j].user \in Ids /\ Present(session'[j].user)
  <2>1. CASE j = k
    BY <2>1, <1>2, <1>k, <1>t
  <2>2. CASE j # k
    <3>1. session'[j] = session[j]
      BY <2>2, <1>k, <1>t
    <3> QED BY <3>1, <1>3 DEF Stored
  <2> QED BY <2>1, <2>2
<1> QED BY <1>1, <1>2, <1>3, SessionsWritten

\* A logout everywhere deletes the sessions of one user.
LEMMA LogoutAllKeepsRows == ASSUME Inv, NEW q \in Reqs, LogoutAll(q) PROVE RowsInv'
<1>t. session \in [Sessions -> SessionRow]
  BY DEF Inv, RowsOK
<1>1. \A k \in Sessions : session'[k] = session[k] \/ session'[k] = [session[k] EXCEPT !.state = "gone"]
  BY DEF LogoutAll
<1>2. session' \in [Sessions -> SessionRow]
  <2>1. \A k \in Sessions : session'[k] \in SessionRow
    BY <1>1, <1>t DEF SessionRow
  <2> QED BY <2>1 DEF LogoutAll
<1>3. ASSUME NEW k \in Sessions, Stored(k)' PROVE Stored(k) /\ session'[k].user = session[k].user
  <2>1. session'[k] = session[k]
    <3>1. session'[k].state # "gone"
      BY <1>3 DEF Stored, Usable
    <3> QED BY <3>1, <1>1, <1>t DEF SessionRow
  <2> QED BY <2>1, <1>3 DEF Stored
<1>4. UNCHANGED <<user, ident, grant>>
  BY DEF LogoutAll
<1> QED BY <1>2, <1>3, <1>4, SessionsWritten

\* A grant is a tier.
LEMMA GrantKeepsRows ==
    ASSUME Inv, NEW q \in Reqs, NEW e \in Emails, NEW tier \in Tiers, WriteGrant(q, e, tier) PROVE RowsInv'
<1>1. UNCHANGED <<user, ident, session>> /\ grant' \in [Emails -> Tiers]
  BY DEF WriteGrant, Inv, RowsOK
<1>2. RowsOK'
  BY <1>1 DEF Inv, RowsOK
<1> QED BY <1>1, <1>2 DEF Inv, RowsInv, OneIdentity, Referenced, FloorHolds, Present, Stored

\* Every step keeps the rows.
LEMMA RowsStep == Inv /\ [AccountsNext]_accountVars => RowsInv'
<1> SUFFICES ASSUME Inv, [AccountsNext]_accountVars PROVE RowsInv'
  OBVIOUS
<1>1. ASSUME NEW q \in Reqs, LoginNext(q) PROVE RowsInv'
  <2>1. ASSUME NEW s \in Subs, NEW e \in Emails, LoginRole(q, s, e) PROVE RowsInv'
    BY <2>1, NothingWritten DEF LoginRole
  <2>2. CASE LoginFind(q)
    BY <2>2, NothingWritten DEF LoginFind
  <2> QED BY <1>1, <2>1, <2>2, UpdateKeepsRows, CreateKeepsRows, NewSessionKeepsRows DEF LoginNext
<1>2. ASSUME NEW q \in Reqs, RequestNext(q) PROVE RowsInv'
  <2>1. ASSUME NEW k \in Sessions, Authenticate(q, k) PROVE RowsInv'
    BY <2>1, NothingWritten DEF Authenticate
  <2>2. CASE RecomputeRead(q) \/ CheckSoleAdmin(q)
    BY <2>2, NothingWritten DEF RecomputeRead, CheckSoleAdmin
  <2>3. CASE Slide(q)
    <3>1. PICK k \in Sessions : k = req[q].session
      BY <2>3 DEF Slide, Inv, RequestsOK, Knows, SessionSteps
    <3>2. CASE session' = session
      BY <3>2, <2>3, NothingWritten DEF Slide
    <3>3. CASE session' # session
      <4>1. Stored(k) /\ session' = [session EXCEPT ![k].state = "fresh"] /\ UNCHANGED <<user, ident, grant>>
        BY <3>1, <3>3, <2>3 DEF Slide
      <4> QED BY <4>1, OneSessionWritten
    <3> QED BY <3>2, <3>3
  <2>4. CASE DropExpired(q) \/ Logout(q)
    <3>1. PICK k \in Sessions : k = req[q].session
      BY <2>4 DEF DropExpired, Logout, Inv, RequestsOK, Knows, SessionSteps
    <3>2. session' = [session EXCEPT ![k].state = "gone"] /\ UNCHANGED <<user, ident, grant>>
      BY <3>1, <2>4 DEF DropExpired, Logout
    <3> QED BY <3>2, OneSessionWritten
  <2>5. ASSUME NEW e \in Emails, NEW tier \in Tiers, WriteGrant(q, e, tier) PROVE RowsInv'
    BY <2>5, GrantKeepsRows
  <2> QED BY <1>2, <2>1, <2>2, <2>3, <2>4, <2>5, LogoutAllKeepsRows, RecomputeKeepsRows, DeleteKeepsRows
          DEF RequestNext
<1>3. ASSUME NEW q \in Reqs, EndRequest(q) PROVE RowsInv'
  BY <1>3, NothingWritten DEF EndRequest
<1>4. ASSUME NEW k \in Sessions, SessionAges(k) PROVE RowsInv'
  <2>1. PICK next \in {"aging", "expired"} : next = IF session[k].state = "fresh" THEN "aging" ELSE "expired"
    OBVIOUS
  <2>2. session' = [session EXCEPT ![k].state = next] /\ Stored(k) /\ UNCHANGED <<user, ident, grant>>
    BY <1>4, <2>1 DEF SessionAges, Stored
  <2> QED BY <2>2, OneSessionWritten
<1>5. CASE UNCHANGED accountVars
  BY <1>5, NothingWritten DEF accountVars
<1> QED BY <1>1, <1>2, <1>3, <1>4, <1>5 DEF AccountsNext

-----------------------------------------------------------------------------
(* The theorems *)

\* Every state of every behaviour satisfies the inductive invariant: rows and
\* requests are well-typed, a request knows what its next statement needs, and
\* a role in flight is at least what the allowlist confers on its address.
THEOREM Invariance == AccountsSpec => []Inv
<1>1. Inv /\ [AccountsNext]_accountVars => Inv'
  BY RequestsStep, RowsStep DEF Inv, RowsInv
<1> QED BY <1>1, InitInv, PTL DEF AccountsSpec

\* auth.go, upsertUser and DeleteUser: however sign-ins, takeovers of addresses
\* and deletions interleave, a user has exactly one identity, and identities and
\* sessions belong to users that exist.
THEOREM AccountsStayWhole == AccountsSpec => []AccountsWhole
<1>1. Inv => AccountsWhole
  <2> SUFFICES ASSUME Inv PROVE AccountsWhole
    OBVIOUS
  <2>1. ASSUME NEW i \in Ids, Present(i) PROVE Cardinality({s \in Subs : ident[s].user = i}) = 1
    <3>1. PICK s \in Subs : \A t \in Subs : ident[t].user = i <=> t = s
      BY <2>1 DEF Inv, OneIdentity
    <3>2. {t \in Subs : ident[t].user = i} = {s}
      BY <3>1
    <3> QED BY <3>2, FS_Singleton
  <2> QED BY <2>1 DEF AccountsWhole, Inv, Referenced
<1> QED BY <1>1, Invariance, PTL

\* auth.go, roleFor: the allowlist of the environment is a floor.  However stale
\* the role a sign-in or a recomputation applies, a user whose address is the one
\* last verified has at least what the environment confers on it.
THEOREM RolesKeepTheFloor == AccountsSpec => []FloorHolds
<1>1. Inv => FloorHolds
  BY DEF Inv
<1> QED BY <1>1, Invariance, PTL

\* A step that is not a request's ageing, slide or sign-in can only delete.
LEMMA GoneStaysGone ==
    ASSUME Inv, [AccountsNext]_accountVars, NEW k \in Sessions, session[k].state = "gone"
    PROVE  session'[k].state = "gone"
<1>t. session \in [Sessions -> SessionRow]
  BY DEF Inv, RowsOK
<1>n. ~Stored(k)
  BY DEF Stored, Usable
<1>1. ASSUME NEW q \in Reqs, LoginNext(q) PROVE session'[k].state = "gone"
  <2>1. CASE LoginSession(q)
    <3>1. PICK j \in Sessions : /\ session[j].state = "absent"
                                /\ session' = [session EXCEPT ![j] = [state |-> "fresh", user |-> req[q].user]]
      BY <2>1 DEF LoginSession
    <3>2. session'[k] = session[k]
      BY <3>1, <1>t
    <3> QED BY <3>2
  <2>2. CASE session' = session
    BY <2>2
  <2> QED BY <1>1, <2>1, <2>2 DEF LoginNext, LoginRole, LoginFind, LoginUpdate, LoginCreate
<1>2. ASSUME NEW q \in Reqs, RequestNext(q) PROVE session'[k].state = "gone"
  <2>1. CASE Slide(q)
    <3>1. CASE session' # session
      <4>1. Stored(req[q].session) /\ session' = [session EXCEPT ![req[q].session].state = "fresh"]
        BY <2>1, <3>1 DEF Slide
      <4>2. session'[k] = session[k]
        BY <4>1, <1>n, <1>t
      <4> QED BY <4>2
    <3> QED BY <3>1
  <2>2. CASE DropExpired(q) \/ Logout(q)
    <3>1. PICK j \in Sessions : session' = [session EXCEPT ![j].state = "gone"]
      BY <2>2 DEF DropExpired, Logout, Inv, RequestsOK, Knows, SessionSteps
    <3> QED BY <3>1, <1>t DEF SessionRow
  <2>3. CASE LogoutAll(q) \/ DeleteUser(q)
    BY <2>3, <1>n DEF LogoutAll, DeleteUser, SessionsOf
  <2>4. CASE session' = session
    BY <2>4
  <2> QED BY <1>2, <2>1, <2>2, <2>3, <2>4
          DEF RequestNext, Authenticate, WriteGrant, RecomputeRead, RecomputeApply, CheckSoleAdmin
<1>3. ASSUME NEW j \in Sessions, SessionAges(j) PROVE session'[k].state = "gone"
  <2>1. j # k
    BY <1>3 DEF SessionAges, Usable
  <2>2. session'[k] = session[k]
    BY <2>1, <1>3, <1>t DEF SessionAges
  <2> QED BY <2>2
<1>4. ASSUME NEW q \in Reqs, EndRequest(q) PROVE session'[k].state = "gone"
  BY <1>4 DEF EndRequest
<1>5. CASE UNCHANGED accountVars
  BY <1>5 DEF accountVars
<1> QED BY <1>1, <1>2, <1>3, <1>4, <1>5 DEF AccountsNext

\* session.go, Middleware and Touch: a request that read a session before it was
\* revoked may slide it afterwards, and a session once revoked stays so.
THEOREM RevocationIsFinal == AccountsSpec => RevokedStaysRevoked
<1> DEFINE Kept == \A k \in Sessions : session[k].state = "gone" => session'[k].state = "gone"
<1>1. Inv /\ [AccountsNext]_accountVars => [Kept]_accountVars
  BY GoneStaysGone
<1> QED BY <1>1, Invariance, PTL DEF AccountsSpec, RevokedStaysRevoked
=============================================================================
