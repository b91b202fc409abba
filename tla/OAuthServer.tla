----------------------------- MODULE OAuthServer -----------------------------
(***************************************************************************)
(* The authorization server of the finance MCP endpoint (internal/oauth):  *)
(* an administrator's consent mints a one-time code, a code buys a token   *)
(* pair, a refresh token is rotated on every use, and the replay of a      *)
(* rotated one revokes its whole family.  Requests are cut where another   *)
(* one can get between their statements.                                   *)
(*                                                                         *)
(* Requests that fail a check on their own parameters (client, redirect,   *)
(* PKCE verifier, resource, CSRF) change nothing and are left out; the     *)
(* lifetimes of codes and tokens, minutes to months, may end at any time.  *)
(***************************************************************************)
CONSTANTS
    Codes,     \* authorization codes that may be minted
    Tokens,    \* rows of oauth_tokens that may be inserted
    Calls,     \* concurrent calls of /oauth/token
    None

ASSUME NoneIsNothing == None \notin Codes \cup Tokens

VARIABLES
    browser,   \* who the session cookie of the owner's browser resolves to
    page,      \* whether the browser holds a consent form and its CSRF cookie
    code,      \* code[c]: a row of oauth_auth_codes
    issued,    \* the rows of oauth_tokens
    token,     \* token[t]: what row t holds, once it is issued
    call,      \* call[q]: what request q remembers between its statements
    bought     \* history: <<code, family>> for each token pair a code bought

oauthVars == <<browser, page, code, issued, token, call, bought>>
consentVars == <<browser, page>>

-----------------------------------------------------------------------------
(* Data *)

Code == [minted: BOOLEAN, used: BOOLEAN, live: BOOLEAN, offline: BOOLEAN]
NoCode == [minted |-> FALSE, used |-> FALSE, live |-> FALSE, offline |-> FALSE]

\* family_id is random; here it is the row the lineage starts with.
Token == [family: Tokens \cup {None}, refresh: BOOLEAN, rotated: BOOLEAN,
          revoked: BOOLEAN, accessLive: BOOLEAN, refreshLive: BOOLEAN]
NoToken == [family |-> None, refresh |-> FALSE, rotated |-> FALSE,
            revoked |-> FALSE, accessLive |-> FALSE, refreshLive |-> FALSE]

Call == [step: {"idle", "read", "claimed", "waiting", "rotate", "sweep"},
         code: Codes \cup {None}, tok: Tokens \cup {None},
         rows: SUBSET Tokens, sweep: SUBSET Tokens]
NoCall == [step |-> "idle", code |-> None, tok |-> None, rows |-> {}, sweep |-> {}]

Idle(q) == call[q].step = "idle"

Family(f) == {t \in issued : token[t].family = f}

\* issueTokens: an access token, and a refresh token with offline_access only.
NewToken(f, offline) ==
    [family |-> f, refresh |-> offline, rotated |-> FALSE, revoked |-> FALSE,
     accessLive |-> TRUE, refreshLive |-> offline]

\* VerifyMCPAccess: every token of this server has its audience and finance.read.
AccessAccepted(t) == t \in issued /\ ~token[t].revoked /\ token[t].accessLive

\* A refresh token that would be rotated, were it presented before it expires.
Refreshable(t) ==
    t \in issued /\ token[t].refresh /\ ~token[t].rotated /\ ~token[t].revoked

-----------------------------------------------------------------------------
(* The consent page *)

\* Logins, logouts and changes of role, as far as this server sees them.
SessionChanges ==
    /\ browser' \in {"anonymous", "member", "admin"} \ {browser}
    /\ UNCHANGED <<page, code, issued, token, call, bought>>

\* GET: only an administrator is shown the form; nothing is minted.
Authorize ==
    /\ browser = "admin" /\ ~page
    /\ page' = TRUE
    /\ UNCHANGED <<browser, code, issued, token, call, bought>>

\* POST: the session is resolved again; the CSRF cookie is used up.
Approve(c, offline) ==
    /\ browser = "admin" /\ page
    /\ ~code[c].minted
    /\ page' = FALSE
    /\ code' = [code EXCEPT ![c] =
                   [minted |-> TRUE, used |-> FALSE, live |-> TRUE, offline |-> offline]]
    /\ UNCHANGED <<browser, issued, token, call, bought>>

Deny ==
    /\ browser = "admin" /\ page
    /\ page' = FALSE
    /\ UNCHANGED <<browser, code, issued, token, call, bought>>

-----------------------------------------------------------------------------
(* grant_type=authorization_code *)

RedeemRead(q, c) ==
    /\ Idle(q)
    /\ code[c].minted /\ ~code[c].used /\ code[c].live
    /\ call' = [call EXCEPT ![q] = [NoCall EXCEPT !.step = "read", !.code = c]]
    /\ UNCHANGED <<consentVars, code, issued, token, bought>>

\* The conditional update on used_at IS NULL: no row, no tokens.
\* Faulty variant: the update is not conditional.
RedeemClaimUnconditional(q) ==
    /\ call[q].step = "read"
    /\ code' = [code EXCEPT ![call[q].code].used = TRUE]
    /\ call' = [call EXCEPT ![q].step = "claimed"]
    /\ UNCHANGED <<consentVars, issued, token, bought>>
RedeemClaim(q) ==
    /\ call[q].step = "read"
    /\ code' = [code EXCEPT ![call[q].code].used = TRUE]
    /\ call' = [call EXCEPT ![q] =
                   IF code[@.code].used THEN NoCall ELSE [@ EXCEPT !.step = "claimed"]]
    /\ UNCHANGED <<consentVars, issued, token, bought>>

\* A statement of its own: a crash after the claim leaves a code that buys nothing.
RedeemIssue(q) ==
    /\ call[q].step = "claimed"
    /\ \E t \in Tokens \ issued :
          /\ issued' = issued \cup {t}
          /\ token' = [token EXCEPT ![t] = NewToken(t, code[call[q].code].offline)]
          /\ bought' = bought \cup {<<call[q].code, t>>}
    /\ call' = [call EXCEPT ![q] = NoCall]
    /\ UNCHANGED <<consentVars, code>>

-----------------------------------------------------------------------------
(* grant_type=refresh_token: one transaction under SELECT ... FOR UPDATE *)

\* The rows the locking SELECT finds when it starts, and then waits for: not
\* those another transaction inserts meanwhile.
\* Faulty variant: only the presented row is locked.
LockedRowsPresented(t) == {t}
\* Faulty variant: no FOR UPDATE.
LockedRowsNone(t) == {}
LockedRows(t) == Family(token[t].family)

Holding(q) == call[q].step \in {"rotate", "sweep"}
Unlocked(q, rows) == \A p \in Calls \ {q} : Holding(p) => call[p].rows \cap rows = {}

RefreshStart(q, t) ==
    /\ Idle(q)
    /\ t \in issued /\ token[t].refresh
    /\ call' = [call EXCEPT ![q] =
                   [NoCall EXCEPT !.step = "waiting", !.tok = t, !.rows = LockedRows(t)]]
    /\ UNCHANGED <<consentVars, code, issued, token, bought>>

\* The presented row as it is under the lock decides: a rotated one is a
\* replay, and the sweep takes the family as it now is; a revoked or expired
\* one is refused, which ends the transaction.
Verdict(t) ==
    IF token[t].rotated THEN "sweep"
    ELSE IF token[t].revoked \/ ~token[t].refreshLive THEN "refused"
    ELSE "rotate"

RefreshLock(q) ==
    LET t == call[q].tok IN
    /\ call[q].step = "waiting"
    /\ Unlocked(q, call[q].rows)
    /\ call' = [call EXCEPT ![q] =
                   IF Verdict(t) = "refused" THEN NoCall
                   ELSE [@ EXCEPT !.step = Verdict(t),
                                  !.sweep = Family(token[t].family)]]
    /\ UNCHANGED <<consentVars, code, issued, token, bought>>

\* The update waits for the rows it found, and commits.
RefreshSweep(q) ==
    /\ call[q].step = "sweep"
    /\ Unlocked(q, call[q].sweep)
    /\ token' = [t \in Tokens |->
                    IF t \in call[q].sweep THEN [token[t] EXCEPT !.revoked = TRUE]
                    ELSE token[t]]
    /\ call' = [call EXCEPT ![q] = NoCall]
    /\ UNCHANGED <<consentVars, code, issued, bought>>

\* The presented row is retired and its successor inserted, in one commit.
RefreshRotate(q) ==
    /\ call[q].step = "rotate"
    /\ \E n \in Tokens \ issued :
          /\ issued' = issued \cup {n}
          /\ token' = [token EXCEPT ![call[q].tok].rotated = TRUE,
                                    ![n] = NewToken(token[call[q].tok].family, TRUE)]
    /\ call' = [call EXCEPT ![q] = NoCall]
    /\ UNCHANGED <<consentVars, code, bought>>

\* A failed statement, a client that hangs up or a killed process: the
\* transaction rolls back and its locks go; a claimed code stays used.
Abandon(q) ==
    /\ ~Idle(q)
    /\ call' = [call EXCEPT ![q] = NoCall]
    /\ UNCHANGED <<consentVars, code, issued, token, bought>>

-----------------------------------------------------------------------------
(* Time *)

CodeExpires(c) ==
    /\ code[c].live
    /\ code' = [code EXCEPT ![c].live = FALSE]
    /\ UNCHANGED <<consentVars, issued, token, call, bought>>

\* The access token of a row expires long before its refresh token.
AccessExpires(t) ==
    /\ t \in issued /\ token[t].accessLive
    /\ token' = [token EXCEPT ![t].accessLive = FALSE]
    /\ UNCHANGED <<consentVars, code, issued, call, bought>>

RefreshExpires(t) ==
    /\ t \in issued /\ ~token[t].accessLive /\ token[t].refreshLive
    /\ token' = [token EXCEPT ![t].refreshLive = FALSE]
    /\ UNCHANGED <<consentVars, code, issued, call, bought>>

-----------------------------------------------------------------------------
OAuthInit ==
    /\ browser = "anonymous" /\ page = FALSE
    /\ code = [c \in Codes |-> NoCode]
    /\ issued = {} /\ token = [t \in Tokens |-> NoToken]
    /\ call = [q \in Calls |-> NoCall]
    /\ bought = {}

ConsentNext ==
    \/ SessionChanges
    \/ Authorize
    \/ \E c \in Codes, offline \in BOOLEAN : Approve(c, offline)
    \/ Deny

TokenNext(q) ==
    \/ \E c \in Codes : RedeemRead(q, c)
    \/ RedeemClaim(q)
    \/ RedeemIssue(q)
    \/ \E t \in Tokens : RefreshStart(q, t)
    \/ RefreshLock(q)
    \/ RefreshSweep(q)
    \/ RefreshRotate(q)
    \/ Abandon(q)

TimeNext ==
    \/ \E c \in Codes : CodeExpires(c)
    \/ \E t \in Tokens : AccessExpires(t) \/ RefreshExpires(t)

OAuthNext == ConsentNext \/ (\E q \in Calls : TokenNext(q)) \/ TimeNext

OAuthSpec == OAuthInit /\ [][OAuthNext]_oauthVars

-----------------------------------------------------------------------------
(* Safety *)

OAuthTypeOK ==
    /\ browser \in {"anonymous", "member", "admin"} /\ page \in BOOLEAN
    /\ code \in [Codes -> Code]
    /\ issued \in SUBSET Tokens /\ token \in [Tokens -> Token]
    /\ call \in [Calls -> Call]
    /\ bought \in SUBSET (Codes \X Tokens)

\* store.go, redeemAuthCode: the conditional update "is the one-time guard
\* under concurrency".  However many exchanges race for a code, or are retried
\* after a lost answer, it starts at most one family.
CodeBuysOneFamily ==
    \A c \in Codes, f, g \in Tokens : <<c, f>> \in bought /\ <<c, g>> \in bought => f = g

\* store.go, rotateRefresh: after the replay of a rotated token "attacker and
\* victim tokens all die".  No token of a revoked family is accepted or
\* can be renewed, whatever rotation was under way when the family was swept.
FamilyRevokedWhole ==
    \A t, u \in issued :
        token[t].revoked /\ token[t].family = token[u].family
            => ~AccessAccepted(u) /\ ~Refreshable(u)

\* store.go, rotateRefresh: "no concurrent same-lineage rotation raced us".
\* However often a refresh token is presented, its family has one live one.
OneLiveRefresh ==
    \A t, u \in issued :
        Refreshable(t) /\ Refreshable(u) /\ token[t].family = token[u].family => t = u

-----------------------------------------------------------------------------
(* What holds between the statements, and makes these inductive.            *)

\* A family starts with the row it is named after.
FamilyRooted ==
    \A t \in issued :
        LET f == token[t].family IN f \in issued /\ token[f].family = f

\* A claimed code is used, by one call, and has bought nothing yet.
ClaimsHold ==
    /\ \A q \in Calls :
          /\ call[q].step \in {"read", "claimed"} =>
                call[q].code \in Codes /\ code[call[q].code].minted
          /\ call[q].step = "claimed" =>
                /\ code[call[q].code].used
                /\ \A t \in Tokens : <<call[q].code, t>> \notin bought
                /\ \A p \in Calls :
                      call[p].step = "claimed" /\ call[p].code = call[q].code => p = q
    /\ \A c \in Codes, t \in Tokens : <<c, t>> \in bought => code[c].used
    /\ \A c \in Codes : code[c].used => code[c].minted

\* A call that waits or holds has rows of one family, its first row among them;
\* two calls never hold a row in common.
LocksHold ==
    \A q \in Calls :
        /\ call[q].step \in {"waiting", "rotate", "sweep"} =>
              LET t == call[q].tok IN
              t \in issued /\ token[t].refresh /\ token[t].family \in call[q].rows
        /\ Holding(q) => Unlocked(q, call[q].rows)

\* What was decided under the lock is still so.
VerdictsHold ==
    \A q \in Calls :
        LET t == call[q].tok IN
        /\ call[q].step = "rotate" => ~token[t].rotated /\ ~token[t].revoked
        /\ call[q].step = "sweep" => call[q].sweep = Family(token[t].family)

\* Revocation takes whole families.
RevokedTogether ==
    \A t, u \in issued :
        token[t].family = token[u].family => token[t].revoked = token[u].revoked

OAuthInv ==
    /\ OAuthTypeOK
    /\ FamilyRooted
    /\ ClaimsHold
    /\ LocksHold
    /\ VerdictsHold
    /\ RevokedTogether
    /\ CodeBuysOneFamily
    /\ OneLiveRefresh
=============================================================================
