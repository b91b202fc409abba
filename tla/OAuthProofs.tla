----------------------------- MODULE OAuthProofs -----------------------------
(***************************************************************************)
(* Theorems about OAuthServer, for any codes, rows and concurrent calls.   *)
(***************************************************************************)
EXTENDS OAuthServer, TLAPS

\* The initial state satisfies the inductive invariant.
LEMMA InitInv == OAuthInit => OAuthInv
<1> SUFFICES ASSUME OAuthInit PROVE OAuthInv
  OBVIOUS
<1> USE DEF OAuthInit
<1>1. NoCode \in Code /\ NoToken \in Token /\ NoCall \in Call /\ NoCall.step = "idle"
  BY DEF Code, NoCode, Token, NoToken, Call, NoCall
<1>2. OAuthTypeOK
  BY <1>1 DEF OAuthTypeOK
<1>3. FamilyRooted /\ RevokedTogether /\ CodeBuysOneFamily /\ OneLiveRefresh
  BY DEF FamilyRooted, RevokedTogether, CodeBuysOneFamily, OneLiveRefresh
<1>4. \A q \in Calls : call[q].step = "idle"
  BY <1>1
<1>5. ClaimsHold
  <2>1. \A c \in Codes : ~code[c].used
    BY DEF NoCode
  <2> QED BY <1>4, <2>1 DEF ClaimsHold
<1>6. LocksHold /\ VerdictsHold
  BY <1>4 DEF LocksHold, VerdictsHold, Holding
<1> QED
  BY <1>2, <1>3, <1>5, <1>6 DEF OAuthInv

-----------------------------------------------------------------------------
(* Types *)

\* A call that forgets everything is well-typed.
LEMMA NoCallType == NoCall \in Call
BY DEF NoCall, Call

\* Every step of the server keeps the types.
LEMMA TypeStep == OAuthTypeOK /\ ClaimsHold /\ LocksHold /\ [OAuthNext]_oauthVars => OAuthTypeOK'
<1> SUFFICES ASSUME OAuthTypeOK, ClaimsHold, LocksHold, [OAuthNext]_oauthVars PROVE OAuthTypeOK'
  OBVIOUS
<1> USE NoCallType DEF OAuthTypeOK
<1>1. CASE ConsentNext
  <2>1. ASSUME NEW c \in Codes, NEW offline \in BOOLEAN, Approve(c, offline)
        PROVE OAuthTypeOK'
    <3>1. [minted |-> TRUE, used |-> FALSE, live |-> TRUE, offline |-> offline] \in Code
      BY DEF Code
    <3> QED BY <2>1, <3>1 DEF Approve
  <2> QED BY <1>1, <2>1 DEF ConsentNext, SessionChanges, Authorize, Deny
<1>2. ASSUME NEW q \in Calls, NEW c \in Codes, RedeemRead(q, c) PROVE OAuthTypeOK'
  BY <1>2 DEF RedeemRead, consentVars, Call, NoCall
<1>3. ASSUME NEW q \in Calls, RedeemClaim(q) PROVE OAuthTypeOK'
  <2>1. [call[q] EXCEPT !.step = "claimed"] \in Call
    BY DEF Call
  <2>2. call' \in [Calls -> Call]
    BY <1>3, <2>1 DEF RedeemClaim
  <2>3. code' \in [Codes -> Code]
    BY <1>3 DEF RedeemClaim, Code
  <2> QED BY <1>3, <2>2, <2>3 DEF RedeemClaim, consentVars
<1>4. ASSUME NEW q \in Calls, RedeemIssue(q) PROVE OAuthTypeOK'
  <2>1. PICK t \in Tokens \ issued :
           /\ issued' = issued \cup {t}
           /\ token' = [token EXCEPT ![t] = NewToken(t, code[call[q].code].offline)]
           /\ bought' = bought \cup {<<call[q].code, t>>}
    BY <1>4 DEF RedeemIssue
  <2>2. code[call[q].code].offline \in BOOLEAN
    BY <1>4 DEF RedeemIssue, ClaimsHold, Code
  <2>3. NewToken(t, code[call[q].code].offline) \in Token
    BY <2>2 DEF NewToken, Token
  <2>4. call[q].code \in Codes
    BY <1>4 DEF RedeemIssue, ClaimsHold
  <2> QED BY <1>4, <2>1, <2>3, <2>4 DEF RedeemIssue, consentVars
<1>5. ASSUME NEW q \in Calls, NEW t \in Tokens, RefreshStart(q, t) PROVE OAuthTypeOK'
  BY <1>5 DEF RefreshStart, consentVars, Call, NoCall, LockedRows, Family
<1>6. ASSUME NEW q \in Calls, RefreshLock(q) PROVE OAuthTypeOK'
  <2>1. Family(token[call[q].tok].family) \in SUBSET Tokens
    BY DEF Family
  <2>2. Verdict(call[q].tok) # "refused" =>
           [call[q] EXCEPT !.step = Verdict(call[q].tok),
                           !.sweep = Family(token[call[q].tok].family)] \in Call
    BY <2>1 DEF Verdict, Call
  <2>3. call' \in [Calls -> Call]
    BY <1>6, <2>2 DEF RefreshLock
  <2> QED BY <1>6, <2>3 DEF RefreshLock, consentVars
<1>7. ASSUME NEW q \in Calls, RefreshSweep(q) PROVE OAuthTypeOK'
  BY <1>7 DEF RefreshSweep, consentVars, Token
<1>8. ASSUME NEW q \in Calls, RefreshRotate(q) PROVE OAuthTypeOK'
  <2>1. PICK n \in Tokens \ issued :
           /\ issued' = issued \cup {n}
           /\ token' = [token EXCEPT ![call[q].tok].rotated = TRUE,
                                     ![n] = NewToken(token[call[q].tok].family, TRUE)]
    BY <1>8 DEF RefreshRotate
  <2>2. token[call[q].tok].family \in Tokens \cup {None}
    BY <1>8 DEF RefreshRotate, LocksHold, Token
  <2>3. NewToken(token[call[q].tok].family, TRUE) \in Token
    BY <2>2 DEF NewToken, Token
  <2>4. \A t \in Tokens : [token[t] EXCEPT !.rotated = TRUE] \in Token
    BY DEF Token
  <2>5. token' \in [Tokens -> Token]
    BY <2>1, <2>3, <2>4
  <2> QED BY <1>8, <2>1, <2>5 DEF RefreshRotate, consentVars
<1>9. ASSUME NEW q \in Calls, Abandon(q) PROVE OAuthTypeOK'
  BY <1>9 DEF Abandon, consentVars
<1>10. CASE TimeNext
  <2>1. ASSUME NEW c \in Codes, CodeExpires(c) PROVE OAuthTypeOK'
    <3>1. [code[c] EXCEPT !.live = FALSE] \in Code
      BY DEF Code
    <3> QED BY <2>1, <3>1 DEF CodeExpires, consentVars
  <2>2. ASSUME NEW t \in Tokens, AccessExpires(t) \/ RefreshExpires(t) PROVE OAuthTypeOK'
    <3>1. /\ [token[t] EXCEPT !.accessLive = FALSE] \in Token
          /\ [token[t] EXCEPT !.refreshLive = FALSE] \in Token
      BY DEF Token
    <3> QED BY <2>2, <3>1 DEF AccessExpires, RefreshExpires, consentVars
  <2> QED BY <1>10, <2>1, <2>2 DEF TimeNext
<1>11. CASE UNCHANGED oauthVars
  BY <1>11 DEF oauthVars
<1> QED
  BY <1>1, <1>2, <1>3, <1>4, <1>5, <1>6, <1>7, <1>8, <1>9, <1>10, <1>11
  DEF OAuthNext, TokenNext

-----------------------------------------------------------------------------
(* Codes *)

\* Every step keeps what is known of claimed codes, and what codes bought.
LEMMA ClaimsStep ==
    OAuthTypeOK /\ ClaimsHold /\ CodeBuysOneFamily /\ [OAuthNext]_oauthVars
        => (ClaimsHold /\ CodeBuysOneFamily)'
<1> SUFFICES ASSUME OAuthTypeOK, ClaimsHold, CodeBuysOneFamily, [OAuthNext]_oauthVars
             PROVE  (ClaimsHold /\ CodeBuysOneFamily)'
  OBVIOUS
<1> USE DEF OAuthTypeOK
<1>0. NoCall.step = "idle"
  BY DEF NoCall
\* Steps that claim nothing and buy nothing.
<1>1. ASSUME bought' = bought,
             \A c \in Codes : /\ code[c].used <=> code'[c].used
                              /\ code[c].minted => code'[c].minted,
             \A q \in Calls : \/ call'[q] = call[q]
                              \/ call'[q].step \notin {"read", "claimed"}
      PROVE  (ClaimsHold /\ CodeBuysOneFamily)'
  BY <1>1 DEF ClaimsHold, CodeBuysOneFamily
<1>2. CASE ConsentNext
  <2>1. ASSUME NEW c \in Codes, NEW offline \in BOOLEAN, Approve(c, offline)
        PROVE  (ClaimsHold /\ CodeBuysOneFamily)'
    <3>1. ~code[c].used
      BY <2>1 DEF Approve, ClaimsHold
    <3>2. \A d \in Codes : /\ code[d].used <=> code'[d].used
                           /\ code[d].minted => code'[d].minted
      BY <2>1, <3>1 DEF Approve
    <3> QED BY <1>1, <2>1, <3>2 DEF Approve
  <2> QED BY <1>1, <1>2, <2>1 DEF ConsentNext, SessionChanges, Authorize, Deny
<1>3. ASSUME NEW q \in Calls, NEW c \in Codes, RedeemRead(q, c)
      PROVE  (ClaimsHold /\ CodeBuysOneFamily)'
  <2>1. call'[q].step = "read" /\ call'[q].code = c /\ code[c].minted
    BY <1>3 DEF RedeemRead, NoCall
  <2>2. \A p \in Calls \ {q} : call'[p] = call[p]
    BY <1>3 DEF RedeemRead
  <2>3. code' = code /\ bought' = bought
    BY <1>3 DEF RedeemRead
  <2> QED BY <2>1, <2>2, <2>3 DEF ClaimsHold, CodeBuysOneFamily
<1>4. ASSUME NEW q \in Calls, RedeemClaim(q)
      PROVE  (ClaimsHold /\ CodeBuysOneFamily)'
  <2> DEFINE c == call[q].code
  <2>1. c \in Codes /\ code[c].minted /\ bought' = bought
    BY <1>4 DEF RedeemClaim, ClaimsHold
  <2>2. \A p \in Calls \ {q} : call'[p] = call[p]
    BY <1>4 DEF RedeemClaim
  <2>3. code'[c].used /\ code'[c].minted /\ \A d \in Codes \ {c} : code'[d] = code[d]
    BY <1>4, <2>1 DEF RedeemClaim, Code
  <2>4. CASE code[c].used
    <3>1. call'[q].step = "idle"
      BY <1>4, <1>0, <2>4 DEF RedeemClaim
    <3>2. \A d \in Codes : /\ code[d].used <=> code'[d].used
                           /\ code[d].minted => code'[d].minted
      BY <2>1, <2>3, <2>4
    <3> QED BY <1>1, <2>1, <2>2, <3>1, <3>2
  <2>5. CASE ~code[c].used
    <3>1. call'[q].step = "claimed" /\ call'[q].code = c
      BY <1>4, <2>5 DEF RedeemClaim, Call
    <3>2. \A t \in Tokens : <<c, t>> \notin bought
      BY <2>1, <2>5 DEF ClaimsHold
    <3>3. \A p \in Calls : call[p].step = "claimed" => call[p].code # c
      BY <2>5 DEF ClaimsHold
    <3> HIDE DEF c
    <3> QED BY <2>1, <2>2, <2>3, <3>1, <3>2, <3>3 DEF ClaimsHold, CodeBuysOneFamily
  <2> QED BY <2>4, <2>5
<1>5. ASSUME NEW q \in Calls, RedeemIssue(q)
      PROVE  (ClaimsHold /\ CodeBuysOneFamily)'
  <2> DEFINE c == call[q].code
  <2>1. /\ c \in Codes /\ code' = code /\ code[c].used
        /\ \A t \in Tokens : <<c, t>> \notin bought
        /\ \A p \in Calls \ {q} : call[p].step = "claimed" => call[p].code # c
    BY <1>5 DEF RedeemIssue, ClaimsHold
  <2>2. PICK t \in Tokens : bought' = bought \cup {<<c, t>>}
    BY <1>5 DEF RedeemIssue
  <2>3. /\ call'[q].step = "idle"
        /\ \A p \in Calls \ {q} : call'[p] = call[p]
    BY <1>5, <1>0 DEF RedeemIssue
  <2> HIDE DEF c
  <2>4. \A d \in Codes, u \in Tokens :
           <<d, u>> \in bought' <=> (<<d, u>> \in bought \/ (d = c /\ u = t))
    BY <2>2
  <2>5. CodeBuysOneFamily'
    BY <2>1, <2>4 DEF CodeBuysOneFamily
  <2>6. ClaimsHold'
    BY <2>1, <2>3, <2>4 DEF ClaimsHold
  <2> QED BY <2>5, <2>6
<1>6. ASSUME NEW q \in Calls,
             \/ \E t \in Tokens : RefreshStart(q, t)
             \/ RefreshLock(q) \/ RefreshSweep(q) \/ RefreshRotate(q) \/ Abandon(q)
      PROVE  (ClaimsHold /\ CodeBuysOneFamily)'
  <2> SUFFICES /\ code' = code /\ bought' = bought
               /\ \A p \in Calls \ {q} : call'[p] = call[p]
               /\ call'[q].step \notin {"read", "claimed"}
    BY <1>1
  <2>1. ASSUME NEW t \in Tokens, RefreshStart(q, t) PROVE call'[q].step = "waiting"
    BY <2>1 DEF RefreshStart, NoCall
  <2>2. ASSUME RefreshLock(q) PROVE call'[q].step \in {"idle", "rotate", "sweep"}
    <3>1. CASE Verdict(call[q].tok) = "refused"
      BY <1>0, <2>2, <3>1 DEF RefreshLock
    <3>2. CASE Verdict(call[q].tok) # "refused"
      <4>1. call'[q] = [call[q] EXCEPT !.step = Verdict(call[q].tok),
                                       !.sweep = Family(token[call[q].tok].family)]
        BY <2>2, <3>2 DEF RefreshLock
      <4>2. call'[q].step = Verdict(call[q].tok)
        BY <4>1 DEF Call
      <4> QED BY <4>2, <3>2 DEF Verdict
    <3> QED BY <3>1, <3>2
  <2>3. CASE RefreshSweep(q) \/ RefreshRotate(q) \/ Abandon(q)
    <3>1. code' = code /\ bought' = bought /\ call' = [call EXCEPT ![q] = NoCall]
      BY <2>3 DEF RefreshSweep, RefreshRotate, Abandon
    <3> QED BY <1>0, <3>1
  <2>4. CASE \E t \in Tokens : RefreshStart(q, t)
    BY <2>1, <2>4 DEF RefreshStart
  <2>5. CASE RefreshLock(q)
    BY <2>2, <2>5 DEF RefreshLock
  <2> QED BY <1>6, <2>3, <2>4, <2>5
<1>7. CASE TimeNext
  <2>1. \A d \in Codes : /\ code[d].used <=> code'[d].used
                         /\ code[d].minted => code'[d].minted
    BY <1>7 DEF Code, TimeNext, CodeExpires, AccessExpires, RefreshExpires
  <2> QED BY <1>1, <1>7, <2>1 DEF TimeNext, CodeExpires, AccessExpires, RefreshExpires
<1>8. CASE UNCHANGED oauthVars
  BY <1>1, <1>8 DEF oauthVars
<1> QED
  BY <1>2, <1>3, <1>4, <1>5, <1>6, <1>7, <1>8 DEF OAuthNext, TokenNext

-----------------------------------------------------------------------------
(* Rows and locks *)

\* Rows are inserted, never deleted; what identifies one never changes, and a
\* new one starts a family or joins that of an older row.
RowsGrow ==
    /\ issued \subseteq issued'
    /\ \A t \in issued : /\ token'[t].family = token[t].family
                         /\ token'[t].refresh = token[t].refresh
    /\ \A n \in issued' \ issued :
          \/ token'[n].family = n
          \/ \E u \in issued : token'[n].family = token[u].family

\* A rotation under lock is about a row that exists.
LEMMA HeldRow ==
    ASSUME OAuthTypeOK, LocksHold, NEW q \in Calls,
           call[q].step \in {"waiting", "rotate", "sweep"}
    PROVE  /\ call[q].tok \in issued /\ call[q].tok \in Tokens
           /\ token[call[q].tok].refresh
           /\ token[call[q].tok].family \in call[q].rows
BY DEF LocksHold, OAuthTypeOK

\* What the first row of a family does to the table.
LEMMA IssueRow ==
    ASSUME OAuthTypeOK, NEW q \in Calls, RedeemIssue(q)
    PROVE  \E n \in Tokens \ issued :
              /\ issued' = issued \cup {n}
              /\ token'[n].family = n /\ token'[n].revoked = FALSE
              /\ \A t \in issued : token'[t] = token[t]
<1> USE DEF OAuthTypeOK
<1>1. PICK n \in Tokens \ issued :
         /\ issued' = issued \cup {n}
         /\ token' = [token EXCEPT ![n] = NewToken(n, code[call[q].code].offline)]
  BY DEF RedeemIssue
<1>2. \A t \in issued : t # n /\ t \in Tokens
  OBVIOUS
<1>3. token'[n].family = n /\ token'[n].revoked = FALSE
  BY <1>1 DEF NewToken
<1> QED BY <1>1, <1>2, <1>3

\* What a rotation does to the table.
LEMMA RotateRow ==
    ASSUME OAuthTypeOK, LocksHold, NEW q \in Calls, RefreshRotate(q)
    PROVE  \E n \in Tokens \ issued :
              /\ issued' = issued \cup {n}
              /\ token'[n].family = token[call[q].tok].family /\ token'[n].revoked = FALSE
              /\ token'[call[q].tok] = [token[call[q].tok] EXCEPT !.rotated = TRUE]
              /\ \A t \in issued \ {call[q].tok} : token'[t] = token[t]
<1> USE DEF OAuthTypeOK
<1> DEFINE r == call[q].tok
<1>1. PICK n \in Tokens \ issued :
         /\ issued' = issued \cup {n}
         /\ token' = [token EXCEPT ![r].rotated = TRUE,
                                   ![n] = NewToken(token[r].family, TRUE)]
  BY DEF RefreshRotate
<1>2. r \in issued
  BY HeldRow DEF RefreshRotate
<1> HIDE DEF r
<1>3. /\ token'[n] = NewToken(token[r].family, TRUE)
      /\ \A t \in issued \ {r} : token'[t] = token[t]
      /\ token'[r] = [token[r] EXCEPT !.rotated = TRUE]
  BY <1>1, <1>2
<1>4. token'[n].family = token[r].family /\ token'[n].revoked = FALSE
  BY <1>3 DEF NewToken
<1> QED BY <1>1, <1>3, <1>4 DEF r

\* Every step grows the table in this way.
LEMMA GrowStep ==
    ASSUME OAuthTypeOK, LocksHold, [OAuthNext]_oauthVars
    PROVE  RowsGrow
<1> USE DEF RowsGrow, OAuthTypeOK
<1>1. ASSUME NEW q \in Calls, RedeemIssue(q) PROVE RowsGrow
  BY <1>1, IssueRow
<1>2. ASSUME NEW q \in Calls, RefreshRotate(q) PROVE RowsGrow
  <2>1. call[q].tok \in issued
    BY <1>2, HeldRow DEF RefreshRotate
  <2> DEFINE r == call[q].tok
  <2>2. PICK n \in Tokens \ issued :
           /\ issued' = issued \cup {n}
           /\ token'[n].family = token[r].family
           /\ token'[r] = [token[r] EXCEPT !.rotated = TRUE]
           /\ \A t \in issued \ {r} : token'[t] = token[t]
    BY <1>2, RotateRow
  <2>3. token'[r].family = token[r].family /\ token'[r].refresh = token[r].refresh
    BY <2>1, <2>2 DEF Token
  <2> HIDE DEF r
  <2> QED BY <2>1, <2>2, <2>3 DEF r
<1>3. ASSUME issued' = issued,
             \A t \in Tokens : /\ token'[t].family = token[t].family
                               /\ token'[t].refresh = token[t].refresh
      PROVE  RowsGrow
  BY <1>3
<1>4. ASSUME NEW q \in Calls, RefreshSweep(q) PROVE RowsGrow
  BY <1>3, <1>4 DEF RefreshSweep, Token
<1>5. CASE TimeNext
  BY <1>3, <1>5 DEF TimeNext, CodeExpires, AccessExpires, RefreshExpires, Token
<1>6. CASE issued' = issued /\ token' = token
  BY <1>6
<1> QED
  BY <1>1, <1>2, <1>4, <1>5, <1>6
  DEF OAuthNext, TokenNext, ConsentNext, SessionChanges, Authorize, Approve, Deny,
      RedeemRead, RedeemClaim, RefreshStart, RefreshLock, Abandon, oauthVars

\* So a family always starts with the row it is named after.
LEMMA RootedStep ==
    ASSUME OAuthTypeOK, LocksHold, FamilyRooted, [OAuthNext]_oauthVars
    PROVE  FamilyRooted'
<1>1. RowsGrow
  BY GrowStep
<1> QED BY <1>1 DEF RowsGrow, FamilyRooted

\* Two calls that hold locks are about different families: both would hold its
\* first row.
LEMMA LockExcludes ==
    ASSUME LocksHold, OAuthTypeOK, NEW p \in Calls, NEW q \in Calls, p # q,
           Holding(p), Holding(q)
    PROVE  token[call[p].tok].family # token[call[q].tok].family
<1>1. /\ token[call[p].tok].family \in call[p].rows
      /\ token[call[q].tok].family \in call[q].rows
  BY HeldRow DEF Holding
<1>2. call[p].rows \cap call[q].rows = {}
  BY DEF LocksHold, Unlocked
<1> QED BY <1>1, <1>2

\* Every step keeps what is known of locks.
LEMMA LocksStep ==
    ASSUME OAuthTypeOK, LocksHold, FamilyRooted, [OAuthNext]_oauthVars
    PROVE  LocksHold'
<1> USE DEF OAuthTypeOK
<1>0. NoCall.step = "idle" /\ RowsGrow
  BY GrowStep DEF NoCall
\* A call that keeps what it remembers, or forgets it.
<1>1. ASSUME \A p \in Calls : call'[p] = call[p] \/ call'[p].step \in {"idle", "read", "claimed"}
      PROVE  LocksHold'
  <2>1. ASSUME NEW p \in Calls, call'[p].step \in {"waiting", "rotate", "sweep"}
        PROVE  /\ call'[p] = call[p] /\ call'[p].tok \in issued'
               /\ token'[call'[p].tok].refresh
               /\ token'[call'[p].tok].family \in call'[p].rows
    <3>1. call'[p] = call[p]
      BY <1>1, <2>1
    <3>2. /\ call[p].tok \in issued /\ token[call[p].tok].refresh
          /\ token[call[p].tok].family \in call[p].rows
      BY <2>1, <3>1, HeldRow
    <3> QED BY <1>0, <3>1, <3>2 DEF RowsGrow
  <2>2. \A p, o \in Calls : /\ Holding(p)' /\ Holding(o)' /\ p # o
                            => call'[p].rows \cap call'[o].rows = {}
    BY <2>1 DEF Holding, LocksHold, Unlocked
  <2> QED BY <2>1, <2>2 DEF LocksHold, Holding, Unlocked
<1>2. ASSUME NEW q \in Calls, NEW t \in Tokens, RefreshStart(q, t) PROVE LocksHold'
  <2>1. /\ call'[q].step = "waiting" /\ call'[q].tok = t
        /\ call'[q].rows = Family(token[t].family)
    BY <1>2 DEF RefreshStart, NoCall, LockedRows
  <2>2. token[t].family \in call'[q].rows /\ t \in issued /\ token[t].refresh
    BY <1>2, <2>1 DEF RefreshStart, FamilyRooted, Family
  <2>3. issued' = issued /\ token' = token /\ \A p \in Calls \ {q} : call'[p] = call[p]
    BY <1>2 DEF RefreshStart
  <2> QED BY <2>1, <2>2, <2>3 DEF LocksHold, Holding, Unlocked
<1>3. ASSUME NEW q \in Calls, RefreshLock(q) PROVE LocksHold'
  <2>1. /\ issued' = issued /\ token' = token
        /\ \A p \in Calls \ {q} : call'[p] = call[p]
        /\ call[q].step = "waiting" /\ Unlocked(q, call[q].rows)
    BY <1>3 DEF RefreshLock
  <2>2. CASE Verdict(call[q].tok) = "refused"
    BY <1>0, <1>1, <1>3, <2>1, <2>2 DEF RefreshLock
  <2>3. CASE Verdict(call[q].tok) # "refused"
    <3>1. call'[q] = [call[q] EXCEPT !.step = Verdict(call[q].tok),
                                     !.sweep = Family(token[call[q].tok].family)]
      BY <1>3, <2>3 DEF RefreshLock
    <3>2. call'[q].tok = call[q].tok /\ call'[q].rows = call[q].rows
      BY <3>1 DEF Call
    <3>3. /\ call[q].tok \in issued /\ token[call[q].tok].refresh
          /\ token[call[q].tok].family \in call[q].rows
      BY <2>1, HeldRow
    <3> QED BY <2>1, <3>2, <3>3 DEF LocksHold, Holding, Unlocked
  <2> QED BY <2>2, <2>3
<1>4. ASSUME NEW q \in Calls, RefreshSweep(q) \/ RefreshRotate(q) \/ Abandon(q)
                             \/ RedeemIssue(q)
      PROVE  LocksHold'
  <2>1. call' = [call EXCEPT ![q] = NoCall]
    BY <1>4 DEF RefreshSweep, RefreshRotate, Abandon, RedeemIssue
  <2> QED BY <1>0, <1>1, <2>1
<1>5. ASSUME NEW q \in Calls, RedeemClaim(q) PROVE LocksHold'
  <2>1. call'[q].step \in {"idle", "claimed"} /\ \A p \in Calls \ {q} : call'[p] = call[p]
    BY <1>0, <1>5 DEF RedeemClaim, Call
  <2> QED BY <1>1, <2>1
<1>6. ASSUME NEW q \in Calls, NEW c \in Codes, RedeemRead(q, c) PROVE LocksHold'
  <2>1. call'[q].step = "read" /\ \A p \in Calls \ {q} : call'[p] = call[p]
    BY <1>6 DEF RedeemRead, NoCall
  <2> QED BY <1>1, <2>1
<1>7. CASE call' = call
  BY <1>1, <1>7
<1> QED
  BY <1>2, <1>3, <1>4, <1>5, <1>6, <1>7
  DEF OAuthNext, TokenNext, ConsentNext, SessionChanges, Authorize, Approve, Deny,
      TimeNext, CodeExpires, AccessExpires, RefreshExpires, oauthVars

-----------------------------------------------------------------------------
(* What was decided under a lock *)

\* Every step keeps the verdicts of the calls that hold locks.
LEMMA VerdictsStep ==
    ASSUME OAuthTypeOK, LocksHold, FamilyRooted, VerdictsHold, [OAuthNext]_oauthVars
    PROVE  VerdictsHold'
<1> USE DEF OAuthTypeOK
<1>0. NoCall.step = "idle" /\ RowsGrow
  BY GrowStep DEF NoCall
\* It is enough that the rows of each verdict stay as they were.
<1>1. ASSUME \A p \in Calls : call'[p] = call[p] \/ ~Holding(p)',
             \A p \in Calls : Holding(p) /\ call'[p] = call[p] =>
                 /\ call[p].step = "rotate" =>
                       /\ token'[call[p].tok].rotated = token[call[p].tok].rotated
                       /\ token'[call[p].tok].revoked = token[call[p].tok].revoked
                 /\ \A n \in issued' \ issued :
                       token'[n].family # token[call[p].tok].family
      PROVE  VerdictsHold'
  <2>1. ASSUME NEW p \in Calls, Holding(p)'
        PROVE  call'[p] = call[p] /\ Holding(p) /\ call[p].tok \in issued
               /\ token'[call[p].tok].family = token[call[p].tok].family
    BY <1>0, <1>1, <2>1, HeldRow DEF Holding, RowsGrow
  <2>2. ASSUME NEW p \in Calls, call'[p].step = "rotate"
        PROVE  ~token'[call'[p].tok].rotated /\ ~token'[call'[p].tok].revoked
    BY <1>1, <2>1, <2>2 DEF Holding, VerdictsHold
  <2>3. ASSUME NEW p \in Calls, call'[p].step = "sweep"
        PROVE  call'[p].sweep = Family(token[call[p].tok].family)'
    <3>1. call'[p] = call[p] /\ Holding(p)
          /\ token'[call[p].tok].family = token[call[p].tok].family
      BY <2>1, <2>3 DEF Holding
    <3>2. call[p].sweep = Family(token[call[p].tok].family)
      BY <2>3, <3>1 DEF VerdictsHold
    <3>3. {t \in issued' : token'[t].family = token[call[p].tok].family}
            = {t \in issued : token[t].family = token[call[p].tok].family}
      BY <1>0, <1>1, <3>1 DEF RowsGrow
    <3>4. Family(token[call[p].tok].family)'
            = {t \in issued' : token'[t].family = token[call[p].tok].family}
      BY <3>1 DEF Family
    <3> QED BY <3>1, <3>2, <3>3, <3>4 DEF Family
  <2> QED BY <2>2, <2>3 DEF VerdictsHold
<1>2. ASSUME NEW q \in Calls, RefreshLock(q) PROVE VerdictsHold'
  <2> DEFINE r == call[q].tok
  <2>1. issued' = issued /\ token' = token /\ \A p \in Calls \ {q} : call'[p] = call[p]
    BY <1>2 DEF RefreshLock
  <2>2. CASE Verdict(r) = "refused"
    BY <1>0, <1>1, <1>2, <2>1, <2>2 DEF RefreshLock, Holding
  <2>3. CASE Verdict(r) # "refused"
    <3>1. call'[q] = [call[q] EXCEPT !.step = Verdict(r), !.sweep = Family(token[r].family)]
      BY <1>2, <2>3 DEF RefreshLock
    <3>2. /\ call'[q].step = Verdict(r) /\ call'[q].tok = r
          /\ call'[q].sweep = Family(token[r].family)
      BY <3>1 DEF Call
    <3>3. Verdict(r) = "rotate" => ~token[r].rotated /\ ~token[r].revoked
      BY DEF Verdict
    <3> HIDE DEF r
    <3> QED BY <2>1, <3>2, <3>3 DEF VerdictsHold, Family
  <2> QED BY <2>2, <2>3
<1>3. ASSUME NEW q \in Calls, RefreshSweep(q) PROVE VerdictsHold'
  <2>1. /\ issued' = issued /\ call' = [call EXCEPT ![q] = NoCall]
        /\ call[q].sweep = Family(token[call[q].tok].family) /\ Holding(q)
    BY <1>3 DEF RefreshSweep, VerdictsHold, Holding
  <2>2. ASSUME NEW p \in Calls, Holding(p), call'[p] = call[p]
        PROVE  token'[call[p].tok] = token[call[p].tok]
    <3>1. p # q
      BY <1>0, <2>1, <2>2 DEF Holding
    <3>2. call[p].tok \notin call[q].sweep
      BY <2>1, <2>2, <3>1, LockExcludes DEF Family
    <3> QED BY <1>3, <2>2, <3>2, HeldRow DEF RefreshSweep, Holding
  <2> QED BY <1>0, <1>1, <2>1, <2>2 DEF Holding
<1>4. ASSUME NEW q \in Calls, RefreshRotate(q) PROVE VerdictsHold'
  <2> DEFINE r == call[q].tok
  <2>1. PICK n \in Tokens \ issued :
           /\ issued' = issued \cup {n}
           /\ token'[n].family = token[r].family
           /\ \A t \in issued \ {r} : token'[t] = token[t]
    BY <1>4, RotateRow
  <2>2. call' = [call EXCEPT ![q] = NoCall] /\ Holding(q)
    BY <1>4 DEF RefreshRotate, Holding
  <2>3. ASSUME NEW p \in Calls, Holding(p), call'[p] = call[p]
        PROVE  /\ token'[call[p].tok] = token[call[p].tok]
               /\ token'[n].family # token[call[p].tok].family
    <3>1. p # q
      BY <1>0, <2>2, <2>3 DEF Holding
    <3>2. token[call[p].tok].family # token[r].family /\ call[p].tok \in issued
      BY <2>2, <2>3, <3>1, LockExcludes, HeldRow DEF Holding
    <3> HIDE DEF r
    <3> QED BY <2>1, <3>2
  <2>4. \A m \in issued' \ issued : m = n
    BY <2>1
  <2> HIDE DEF r
  <2> QED BY <1>0, <1>1, <2>2, <2>3, <2>4 DEF Holding
<1>5. ASSUME NEW q \in Calls, RedeemIssue(q) PROVE VerdictsHold'
  <2>1. PICK n \in Tokens \ issued :
           /\ issued' = issued \cup {n} /\ token'[n].family = n
           /\ \A t \in issued : token'[t] = token[t]
    BY <1>5, IssueRow
  <2>2. call' = [call EXCEPT ![q] = NoCall]
    BY <1>5 DEF RedeemIssue
  <2>3. \A p \in Calls : Holding(p) =>
           call[p].tok \in issued /\ token[call[p].tok].family \in issued
    BY HeldRow DEF Holding, FamilyRooted
  <2> QED BY <1>0, <1>1, <2>1, <2>2, <2>3 DEF Holding
<1>6. ASSUME NEW q \in Calls, RedeemClaim(q) PROVE VerdictsHold'
  <2>1. call'[q].step \in {"idle", "claimed"} /\ \A p \in Calls \ {q} : call'[p] = call[p]
    BY <1>0, <1>6 DEF RedeemClaim, Call
  <2> QED BY <1>1, <1>6, <2>1 DEF RedeemClaim, Holding
<1>7. ASSUME NEW q \in Calls, \/ \E c \in Codes : RedeemRead(q, c)
                              \/ \E t \in Tokens : RefreshStart(q, t)
                              \/ Abandon(q)
      PROVE  VerdictsHold'
  <2>1. /\ issued' = issued /\ token' = token
        /\ call'[q].step \in {"idle", "read", "waiting"}
        /\ \A p \in Calls \ {q} : call'[p] = call[p]
    <3>1. ASSUME NEW c \in Codes, RedeemRead(q, c) PROVE call'[q].step = "read"
      BY <3>1 DEF RedeemRead, NoCall
    <3>2. ASSUME NEW t \in Tokens, RefreshStart(q, t) PROVE call'[q].step = "waiting"
      BY <3>2 DEF RefreshStart, NoCall
    <3>3. Abandon(q) => call'[q].step = "idle"
      BY <1>0 DEF Abandon
    <3>4. call'[q].step \in {"idle", "read", "waiting"}
      BY <1>7, <3>1, <3>2, <3>3
    <3> QED BY <1>7, <3>4 DEF RedeemRead, RefreshStart, Abandon
  <2> QED BY <1>1, <2>1 DEF Holding
<1>8. CASE TimeNext
  <2>1. /\ issued' = issued /\ call' = call
        /\ \A t \in Tokens : /\ token'[t].rotated = token[t].rotated
                              /\ token'[t].revoked = token[t].revoked
    BY <1>8 DEF TimeNext, CodeExpires, AccessExpires, RefreshExpires, Token
  <2>2. \A p \in Calls : Holding(p) => call[p].tok \in Tokens
    BY HeldRow DEF Holding
  <2> QED BY <1>1, <2>1, <2>2
<1>9. CASE issued' = issued /\ token' = token /\ call' = call
  BY <1>1, <1>9
<1> QED
  BY <1>2, <1>3, <1>4, <1>5, <1>6, <1>7, <1>8, <1>9
  DEF OAuthNext, TokenNext, ConsentNext, SessionChanges, Authorize, Approve, Deny, oauthVars

-----------------------------------------------------------------------------
(* Families *)

\* A family is revoked as a whole: what rotates under the lock is not revoked,
\* and a sweep takes every row its family has when it commits.
LEMMA RevokedStep ==
    ASSUME OAuthTypeOK, LocksHold, FamilyRooted, VerdictsHold, RevokedTogether,
           [OAuthNext]_oauthVars
    PROVE  RevokedTogether'
<1> USE DEF OAuthTypeOK
<1>1. ASSUME issued' = issued,
             \A t \in Tokens : /\ token'[t].family = token[t].family
                               /\ token'[t].revoked = token[t].revoked
      PROVE  RevokedTogether'
  BY <1>1 DEF RevokedTogether
<1>2. ASSUME NEW q \in Calls, RedeemIssue(q) PROVE RevokedTogether'
  <2>1. PICK n \in Tokens \ issued :
           /\ issued' = issued \cup {n} /\ token'[n].family = n
           /\ \A t \in issued : token'[t] = token[t]
    BY <1>2, IssueRow
  <2>2. \A t \in issued : token[t].family # n
    BY DEF FamilyRooted
  <2> QED BY <2>1, <2>2 DEF RevokedTogether
<1>3. ASSUME NEW q \in Calls, RefreshRotate(q) PROVE RevokedTogether'
  <2> DEFINE r == call[q].tok
  <2>1. PICK n \in Tokens \ issued :
           /\ issued' = issued \cup {n}
           /\ token'[n].family = token[r].family /\ token'[n].revoked = FALSE
           /\ token'[r] = [token[r] EXCEPT !.rotated = TRUE]
           /\ \A t \in issued \ {r} : token'[t] = token[t]
    BY <1>3, RotateRow
  <2>2. r \in issued /\ ~token[r].revoked
    BY <1>3, HeldRow DEF RefreshRotate, VerdictsHold
  <2>3. /\ token'[r].family = token[r].family
        /\ token'[r].revoked = token[r].revoked
    BY <2>1, <2>2 DEF Token
  <2> HIDE DEF r
  <2>4. \A t \in issued : /\ token'[t].family = token[t].family
                          /\ token'[t].revoked = token[t].revoked
    BY <2>1, <2>3
  <2>5. \A t \in issued : token[t].family = token[r].family => token[t].revoked = FALSE
    <3>1. token[r].revoked = FALSE
      BY <2>2 DEF Token
    <3> QED BY <2>2, <3>1 DEF RevokedTogether
  <2>6. ASSUME NEW t \in issued', NEW u \in issued', token'[t].family = token'[u].family
        PROVE  token'[t].revoked = token'[u].revoked
    <3>1. CASE t = n \/ u = n
      BY <2>1, <2>4, <2>5, <2>6, <3>1
    <3>2. CASE t # n /\ u # n
      BY <2>1, <2>4, <2>6, <3>2 DEF RevokedTogether
    <3> QED BY <3>1, <3>2
  <2> QED BY <2>6 DEF RevokedTogether
<1>4. ASSUME NEW q \in Calls, RefreshSweep(q) PROVE RevokedTogether'
  <2> DEFINE f == token[call[q].tok].family
  <2>1. /\ issued' = issued
        /\ call[q].sweep = {t \in issued : token[t].family = f}
    BY <1>4 DEF RefreshSweep, VerdictsHold, Family
  <2>2. \A t \in Tokens : token'[t].family = token[t].family
    BY <1>4 DEF RefreshSweep, Token
  <2>3. \A t \in issued : token[t].family = f => token'[t].revoked = TRUE
    BY <1>4, <2>1 DEF RefreshSweep, Token
  <2>4. \A t \in issued : token[t].family # f => token'[t] = token[t]
    BY <1>4, <2>1 DEF RefreshSweep
  <2> HIDE DEF f
  <2>5. ASSUME NEW t \in issued', NEW u \in issued', token'[t].family = token'[u].family
        PROVE  token'[t].revoked = token'[u].revoked
    <3>1. t \in issued /\ u \in issued /\ token[t].family = token[u].family
      BY <2>1, <2>2, <2>5
    <3>2. CASE token[t].family = f
      BY <2>3, <3>1, <3>2
    <3>3. CASE token[t].family # f
      BY <2>4, <3>1, <3>3 DEF RevokedTogether
    <3> QED BY <3>2, <3>3
  <2> QED BY <2>5 DEF RevokedTogether
<1>5. CASE TimeNext
  <2>1. issued' = issued /\ \A t \in Tokens : /\ token'[t].family = token[t].family
                                             /\ token'[t].revoked = token[t].revoked
    BY <1>5 DEF TimeNext, CodeExpires, AccessExpires, RefreshExpires, Token
  <2> QED BY <1>1, <2>1
<1>6. CASE issued' = issued /\ token' = token
  BY <1>1, <1>6
<1> QED
  BY <1>2, <1>3, <1>4, <1>5, <1>6
  DEF OAuthNext, TokenNext, ConsentNext, SessionChanges, Authorize, Approve, Deny,
      RedeemRead, RedeemClaim, RefreshStart, RefreshLock, Abandon, oauthVars

\* A rotation retires the one live refresh token of its family.
LEMMA LiveStep ==
    ASSUME OAuthTypeOK, LocksHold, FamilyRooted, VerdictsHold, OneLiveRefresh,
           [OAuthNext]_oauthVars
    PROVE  OneLiveRefresh'
<1> USE DEF OAuthTypeOK
<1>1. ASSUME issued' = issued,
             \A t \in issued : /\ token'[t].family = token[t].family
                               /\ Refreshable(t)' => Refreshable(t)
      PROVE  OneLiveRefresh'
  BY <1>1 DEF OneLiveRefresh
<1>2. ASSUME NEW q \in Calls, RedeemIssue(q) PROVE OneLiveRefresh'
  <2>1. PICK n \in Tokens \ issued :
           /\ issued' = issued \cup {n} /\ token'[n].family = n
           /\ \A t \in issued : token'[t] = token[t]
    BY <1>2, IssueRow
  <2>2. \A t \in issued : token[t].family # n
    BY DEF FamilyRooted
  <2> QED BY <2>1, <2>2 DEF OneLiveRefresh, Refreshable
<1>3. ASSUME NEW q \in Calls, RefreshRotate(q) PROVE OneLiveRefresh'
  <2>0. PICK r \in Tokens : r = call[q].tok
    BY <1>3, HeldRow DEF RefreshRotate
  <2>1. PICK n \in Tokens \ issued :
           /\ issued' = issued \cup {n}
           /\ token'[n].family = token[r].family
           /\ token'[r] = [token[r] EXCEPT !.rotated = TRUE]
           /\ \A t \in issued \ {r} : token'[t] = token[t]
    BY <1>3, <2>0, RotateRow
  <2>2. r \in issued /\ Refreshable(r)
    BY <1>3, <2>0, HeldRow DEF RefreshRotate, VerdictsHold, Refreshable
  <2>3. token'[r].family = token[r].family /\ token'[r].rotated
    BY <2>1, <2>2 DEF Token
  <2>4. ~Refreshable(r)'
    BY <2>3 DEF Refreshable
  <2>5. \A t \in issued \ {r} : token[t].family = token[r].family => ~Refreshable(t)
    BY <2>2 DEF OneLiveRefresh
  <2>6. \A t \in issued \ {r} : Refreshable(t)' => Refreshable(t)
    BY <2>1 DEF Refreshable
  <2>7. \A t \in issued : token'[t].family = token[r].family => ~Refreshable(t)'
    BY <2>1, <2>3, <2>4, <2>5, <2>6
  <2>8. ASSUME NEW t \in issued', NEW u \in issued',
               Refreshable(t)', Refreshable(u)', token'[t].family = token'[u].family
        PROVE  t = u
    <3>1. CASE t = n \/ u = n
      BY <2>1, <2>7, <2>8, <3>1
    <3>2. CASE t # n /\ u # n
      <4>1. t \in issued \ {r} /\ u \in issued \ {r}
        BY <2>1, <2>4, <2>8, <3>2
      <4> QED BY <2>1, <2>6, <2>8, <4>1 DEF OneLiveRefresh
    <3> QED BY <3>1, <3>2
  <2> QED BY <2>8 DEF OneLiveRefresh
<1>4. ASSUME NEW q \in Calls, RefreshSweep(q) PROVE OneLiveRefresh'
  <2>1. \A t \in Tokens : /\ token'[t].family = token[t].family
                          /\ token'[t].refresh = token[t].refresh
                          /\ token'[t].rotated = token[t].rotated
                          /\ token'[t].revoked = FALSE => token[t].revoked = FALSE
    BY <1>4 DEF RefreshSweep, Token
  <2>2. \A t \in Tokens : token[t].revoked \in BOOLEAN /\ token'[t].revoked \in BOOLEAN
    BY <1>4 DEF RefreshSweep, Token
  <2> QED BY <1>1, <1>4, <2>1, <2>2 DEF RefreshSweep, Refreshable
<1>5. CASE TimeNext
  <2>1. issued' = issued /\ \A t \in Tokens : /\ token'[t].family = token[t].family
                                             /\ token'[t].refresh = token[t].refresh
                                             /\ token'[t].rotated = token[t].rotated
                                             /\ token'[t].revoked = token[t].revoked
    BY <1>5 DEF TimeNext, CodeExpires, AccessExpires, RefreshExpires, Token
  <2> QED BY <1>1, <2>1 DEF Refreshable
<1>6. CASE issued' = issued /\ token' = token
  BY <1>1, <1>6 DEF Refreshable
<1> QED
  BY <1>2, <1>3, <1>4, <1>5, <1>6
  DEF OAuthNext, TokenNext, ConsentNext, SessionChanges, Authorize, Approve, Deny,
      RedeemRead, RedeemClaim, RefreshStart, RefreshLock, Abandon, oauthVars

-----------------------------------------------------------------------------
(* Theorems *)

\* The server keeps its inductive invariant: types, families that start with
\* their first row, claims, locks, what was decided under a lock, and the two
\* safety properties that are part of it.
THEOREM ServerSafe == OAuthSpec => []OAuthInv
<1>1. OAuthInv /\ [OAuthNext]_oauthVars => OAuthInv'
  <2> SUFFICES ASSUME OAuthInv, [OAuthNext]_oauthVars PROVE OAuthInv'
    OBVIOUS
  <2>1. OAuthTypeOK' /\ ClaimsHold' /\ CodeBuysOneFamily'
    BY TypeStep, ClaimsStep DEF OAuthInv
  <2>2. FamilyRooted' /\ LocksHold' /\ VerdictsHold'
    BY RootedStep, LocksStep, VerdictsStep DEF OAuthInv
  <2>3. RevokedTogether' /\ OneLiveRefresh'
    BY RevokedStep, LiveStep DEF OAuthInv
  <2> QED BY <2>1, <2>2, <2>3 DEF OAuthInv
<1> QED BY InitInv, <1>1, PTL DEF OAuthSpec

\* A code starts at most one family (redeemAuthCode), through races, retries
\* and calls that die after they claimed it.
THEOREM CodeBuysOneFamilyHolds == OAuthSpec => []CodeBuysOneFamily
<1>1. OAuthInv => CodeBuysOneFamily
  BY DEF OAuthInv
<1> QED BY <1>1, ServerSafe, PTL

\* A family has at most one refresh token that would be rotated (rotateRefresh),
\* however often and however concurrently its tokens are presented.
THEOREM OneLiveRefreshHolds == OAuthSpec => []OneLiveRefresh
<1>1. OAuthInv => OneLiveRefresh
  BY DEF OAuthInv
<1> QED BY <1>1, ServerSafe, PTL

\* After a replay no token of the family is accepted or can be renewed
\* (rotateRefresh, the sweep), whatever was under way.
THEOREM FamilyRevokedWholeHolds == OAuthSpec => []FamilyRevokedWhole
<1>1. OAuthInv => FamilyRevokedWhole
  BY DEF OAuthInv, RevokedTogether, FamilyRevokedWhole, AccessAccepted, Refreshable
<1> QED BY <1>1, ServerSafe, PTL
=============================================================================
