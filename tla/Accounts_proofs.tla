--------------------------- MODULE Accounts_proofs ---------------------------
(***************************************************************************)
(* What Accounts keeps for any number of links, passwords, running         *)
(* requests and hours: its types, one live link, a link for whoever was    *)
(* never verified, and which requests can undo a decision.                 *)
(***************************************************************************)
EXTENDS Accounts, TLAPS

\* What a request that runs has loaded is a row.
LEMMA CopiesAreRows ==
  ASSUME AccountsTypeOK, NEW r \in Requests, request[r].kind # "none"
  PROVE  request[r].copy \in AccountRow
BY DEF AccountsTypeOK, None, RunningRequest

\* Saving a row and ending the request keeps the types.
LEMMA SavesKeepTypes ==
  ASSUME AccountsTypeOK, NEW r \in Requests, NEW kind, NEW row \in AccountRow,
         SavedBy(r, kind, row)
  PROVE  AccountsTypeOK'
<1>1. row.verified \in BOOLEAN
  BY DEF AccountRow
<1>2. everVerified' \in BOOLEAN
  BY <1>1 DEF SavedBy, Saved, AccountsTypeOK
<1>3. request' \in [Requests -> {None} \cup RunningRequest]
  BY DEF SavedBy, AccountsTypeOK
<1> QED
  BY <1>2, <1>3 DEF SavedBy, Saved, AccountsTypeOK

\* Every variable keeps its type: the rows that old copies write back are rows.
THEOREM AccountsTypeCorrect == AccountsSpec => []AccountsTypeOK
<1>1. AccountsInit => AccountsTypeOK
  <2> SUFFICES ASSUME AccountsInit PROVE AccountsTypeOK
    OBVIOUS
  <2>1. Active \in Standing
    BY AccountsAssumption DEF Active, Standing
  <2>2. account \in AccountRow
    BY <2>1, AccountsAssumption DEF AccountsInit, AccountRow, Passwords
  <2>3. token \in [Tokens -> TokenRow]
    BY AccountsAssumption DEF AccountsInit, NewToken, NoToken, TokenRow
  <2>4. now \in 0..MaxNow
    BY AccountsAssumption DEF AccountsInit
  <2> QED
    BY <2>2, <2>3, <2>4, Zenon DEF AccountsInit, AccountsTypeOK
<1>2. AccountsTypeOK /\ [AccountsNext]_aVars => AccountsTypeOK'
  <2> SUFFICES ASSUME AccountsTypeOK, [AccountsNext]_aVars PROVE AccountsTypeOK'
    OBVIOUS
  <2> USE AccountsAssumption
  <2>0. Active \in Standing /\ [status |-> "SUSPENDED", until |-> 0] \in Standing
    BY DEF Active, Standing
  <2>a. Decision \subseteq Standing
    BY DEF Decision, Active, Standing
  <2>b. \A row \in AccountRow :
          /\ \A v \in BOOLEAN : [row EXCEPT !.verified = v] \in AccountRow
          /\ \A v \in Standing : [row EXCEPT !.standing = v] \in AccountRow
          /\ \A p \in Passwords : [row EXCEPT !.password = p] \in AccountRow
          /\ row.verified \in BOOLEAN /\ row.password \in Passwords
    BY DEF AccountRow
  <2>1. CASE Tick
    BY <2>1 DEF Tick, AccountsTypeOK
  <2>2. ASSUME NEW row \in AccountRow, Saved(row), UNCHANGED <<token, request, now>>
        PROVE  AccountsTypeOK'
    BY <2>b, <2>2 DEF Saved, AccountsTypeOK
  <2>3. CASE SuspendUser \/ ReinstateUser \/ MarkVerified
    BY <2>0, <2>b, <2>2, <2>3 DEF SuspendUser, ReinstateUser, MarkVerified, AccountsTypeOK
  <2>5. ASSUME NEW t \in Tokens, VerifyEmail(t) PROVE AccountsTypeOK'
    <3>1. token' \in [Tokens -> TokenRow]
      BY <2>5 DEF VerifyEmail, AccountsTypeOK, TokenRow
    <3>2. account' \in AccountRow /\ everVerified' \in BOOLEAN
      BY <2>b, <2>5 DEF VerifyEmail, Saved, AccountsTypeOK
    <3> QED
      BY <2>5, <3>1, <3>2 DEF VerifyEmail, AccountsTypeOK
  <2>6. ASSUME NEW r \in Requests, NEW kind \in Form \cup {"login"}, LoadUser(r, kind)
        PROVE  AccountsTypeOK'
    BY <2>6 DEF LoadUser, AccountsTypeOK, RunningRequest
  <2>7. ASSUME NEW r \in Requests, NEW kind \in AdminPage, LoadByAdmin(r, kind)
        PROVE  AccountsTypeOK'
    BY <2>7 DEF LoadByAdmin, AccountsTypeOK, RunningRequest
  <2>8. ASSUME NEW r \in Requests, EndRequest(r) PROVE AccountsTypeOK'
    BY <2>8 DEF EndRequest, AccountsTypeOK
  <2>9. account \in AccountRow
    BY DEF AccountsTypeOK
  <2>10. ASSUME NEW r \in Requests, SaveSettings(r) PROVE AccountsTypeOK'
    <3>1. request[r].copy \in AccountRow
      BY <2>10, CopiesAreRows DEF SaveSettings, SavedBy
    <3> QED
      BY <2>10, <3>1, SavesKeepTypes DEF SaveSettings
  <2>11. ASSUME NEW r \in Requests, NEW p \in Passwords, ChangePassword(r, p)
         PROVE  AccountsTypeOK'
    <3>1. [account EXCEPT !.password = p] \in AccountRow
      BY <2>b, <2>9
    <3> QED
      BY <2>11, <3>1, SavesKeepTypes DEF ChangePassword
  <2>12. ASSUME NEW r \in Requests, NEW p \in Passwords, SetPasswordByAdmin(r, p)
         PROVE  AccountsTypeOK'
    <3>1. request[r].copy \in AccountRow
      BY <2>12, CopiesAreRows DEF SetPasswordByAdmin, SavedBy
    <3>2. [request[r].copy EXCEPT !.password = p] \in AccountRow
      BY <2>b, <3>1
    <3> QED
      BY <2>12, <3>2, SavesKeepTypes DEF SetPasswordByAdmin
  <2>13. ASSUME NEW r \in Requests, ReactivateAtLogin(r) PROVE AccountsTypeOK'
    <3>1. [account EXCEPT !.standing = Active] \in AccountRow
      BY <2>0, <2>b, <2>9
    <3> QED
      BY <2>13, <3>1, SavesKeepTypes DEF ReactivateAtLogin
  <2>14. ASSUME NEW r \in Requests, NEW edited, request[r].copy \in AccountRow => edited \in AccountRow,
                SaveChangeForm(r, edited)
         PROVE  AccountsTypeOK'
    <3>1. edited \in AccountRow
      BY <2>14, CopiesAreRows DEF SaveChangeForm, SavedBy
    <3>2. [edited EXCEPT !.password = account.password] \in AccountRow
      BY <2>b, <2>9, <3>1
    <3> QED
      BY <2>14, <3>2, SavesKeepTypes DEF SaveChangeForm
  <2>15. ASSUME NEW r \in Requests, NEW v \in BOOLEAN, EditVerified(r, v) PROVE AccountsTypeOK'
    BY <2>b, <2>14, <2>15 DEF EditVerified
  <2>16. ASSUME NEW r \in Requests, NEW v \in Decision, EditStanding(r, v) PROVE AccountsTypeOK'
    BY <2>a, <2>b, <2>14, <2>16 DEF EditStanding
  <2>17. ASSUME NEW r \in Requests, NEW t \in Tokens, SendVerificationEmail(r, t)
         PROVE  AccountsTypeOK'
    <3>1. now + 1 \in 0..(MaxNow + 1)
      BY DEF AccountsTypeOK
    <3>2. Retired \in [Tokens -> TokenRow]
      BY DEF Retired, AccountsTypeOK, TokenRow
    <3>3. NewToken(now + 1) \in TokenRow
      BY <3>1 DEF NewToken, TokenRow
    <3>4. token' \in [Tokens -> TokenRow]
      BY <2>17, <3>2, <3>3 DEF SendVerificationEmail
    <3> QED
      BY <2>17, <3>4 DEF SendVerificationEmail, AccountsTypeOK
  <2>18. CASE UNCHANGED aVars
    BY <2>18 DEF aVars, AccountsTypeOK
  <2> QED
    BY <2>1, <2>3, <2>5, <2>6, <2>7, <2>8, <2>10, <2>11, <2>12, <2>13, <2>15, <2>16, <2>17,
       <2>18 DEF AccountsNext, VerifyCode
<1> QED
  BY <1>1, <1>2, PTL DEF AccountsSpec

-----------------------------------------------------------------------------
\* However many requests to send a link anew run side by side, one link lives.
THEOREM AlwaysOneLiveToken == AccountsSpec => []OneLiveToken
<1>1. AccountsInit => OneLiveToken
  BY DEF AccountsInit, OneLiveToken, NoToken
<1>2. AccountsTypeOK /\ OneLiveToken /\ [AccountsNext]_aVars => OneLiveToken'
  <2> SUFFICES ASSUME AccountsTypeOK, OneLiveToken, [AccountsNext]_aVars PROVE OneLiveToken'
    OBVIOUS
  <2>1. CASE UNCHANGED token
    BY <2>1 DEF OneLiveToken
  <2>2. ASSUME NEW t \in Tokens, VerifyEmail(t) PROVE OneLiveToken'
    BY <2>2 DEF VerifyEmail, OneLiveToken, AccountsTypeOK, TokenRow
  <2>3. ASSUME NEW r \in Requests, NEW t \in Tokens, SendVerificationEmail(r, t)
        PROVE  OneLiveToken'
    <3>1. \A s \in Tokens \ {t} : token'[s].used
      BY <2>3 DEF SendVerificationEmail, Retired, AccountsTypeOK, TokenRow
    <3> QED
      BY <3>1 DEF OneLiveToken
  <2> QED
    BY <2>1, <2>2, <2>3 DEF AccountsNext, aVars, Tick, SuspendUser, ReinstateUser, MarkVerified,
       VerifyCode, LoadUser, LoadByAdmin, EndRequest, SaveSettings, ChangePassword,
       SetPasswordByAdmin, ReactivateAtLogin, SaveChangeForm, EditVerified, EditStanding, SavedBy
<1> QED
  BY <1>1, <1>2, AccountsTypeCorrect, PTL DEF AccountsSpec

-----------------------------------------------------------------------------
\* What a request saves of a field is what the row says, or the request is old.
LEMMA OldRequests ==
  ASSUME AccountsTypeOK, NEW r \in Requests, NEW kinds, NEW kind \in kinds, NEW row,
         SavedBy(r, kind, row), NEW f,
         request[r].copy[f] # account[f]
  PROVE  EndsOld(kinds, f)
BY DEF SavedBy, EndsOld, AccountsTypeOK

\* While the standing and the clock stay, so does a bar.
LEMMA BarStays ==
  ASSUME account'.standing = account.standing, now' = now
  PROVE  BarHolds
BY DEF BarHolds, Barred

\* For any number of requests and pages, however long they take: decisions are
\* undone only by those that loaded the row before, and not by all of them.
THEOREM AlwaysUndoneByOldRowsOnly == AccountsSpec => UndoneByOldRowsOnly
<1> DEFINE Hold == BarHolds /\ VerificationHolds /\ PasswordHolds
<1>1. AccountsTypeOK /\ [AccountsNext]_aVars => [Hold]_aVars
  <2> SUFFICES ASSUME AccountsTypeOK, AccountsNext PROVE Hold
    OBVIOUS
  <2>1. account \in AccountRow /\ \A r \in Requests : request[r].kind # "none" => request[r].copy \in AccountRow
    BY CopiesAreRows DEF AccountsTypeOK
  <2>2. CASE UNCHANGED account
    <3>1. now' = now \/ Tick
      BY <2>2 DEF AccountsNext, SuspendUser, ReinstateUser, MarkVerified, VerifyCode, VerifyEmail,
                  LoadUser, LoadByAdmin, EndRequest, SaveSettings, ReactivateAtLogin,
                  ChangePassword, SetPasswordByAdmin, SendVerificationEmail, EditVerified,
                  EditStanding, SaveChangeForm, SavedBy
    <3>2. BarHolds
      BY <2>2, <3>1, BarStays DEF BarHolds
    <3> QED
      BY <2>2, <3>2 DEF VerificationHolds, PasswordHolds
  <2>3. CASE SuspendUser \/ ReinstateUser \/ MarkVerified
    <3>1. BarHolds
      BY <2>1, <2>3 DEF SuspendUser, ReinstateUser, MarkVerified, Saved, BarHolds, Barred, AccountRow
    <3>2. VerificationHolds /\ PasswordHolds
      BY <2>1, <2>3 DEF SuspendUser, ReinstateUser, MarkVerified, Saved, VerificationHolds,
                        PasswordHolds, AccountRow
    <3> QED
      BY <3>1, <3>2
  <2>4. ASSUME NEW t \in Tokens, VerifyEmail(t), ~ UNCHANGED account PROVE Hold
    <3>1. account' = [account EXCEPT !.verified = TRUE] /\ now' = now
      BY <2>4 DEF VerifyEmail, Saved
    <3>2. /\ account'.standing = account.standing /\ account'.password = account.password
          /\ account'.verified
      BY <2>1, <3>1 DEF AccountRow
    <3> QED
      BY <3>1, <3>2, BarStays DEF VerificationHolds, PasswordHolds
  <2>5. ASSUME NEW r \in Requests, SaveSettings(r) PROVE Hold
    <3>1. /\ SavedBy(r, "settings", request[r].copy) /\ account' = request[r].copy /\ now' = now
      BY <2>5 DEF SaveSettings, SavedBy, Saved
    <3>2. BarHolds
      BY <3>1, BarStays, OldRequests DEF BarHolds
    <3>3. VerificationHolds
      BY <3>1, OldRequests DEF VerificationHolds
    <3>4. PasswordHolds
      BY <3>1, OldRequests DEF PasswordHolds
    <3> QED
      BY <3>2, <3>3, <3>4
  <2>6. ASSUME NEW r \in Requests, ReactivateAtLogin(r) PROVE Hold
    <3>1. /\ SavedBy(r, "login", [account EXCEPT !.standing = Active]) /\ now' = now
          /\ account' = [account EXCEPT !.standing = Active]
          /\ Lapsed(request[r].copy.standing)
      BY <2>6 DEF ReactivateAtLogin, SavedBy, Saved
    <3>2. account'.verified = account.verified /\ account'.password = account.password
      BY <2>1, <3>1 DEF AccountRow
    <3>3. CASE request[r].copy.standing = account.standing
      <4>1. ~ Barred
        BY <2>1, <3>1, <3>3 DEF Lapsed, Barred, AccountRow, Standing, AccountsTypeOK
      <4> QED
        BY <3>2, <4>1 DEF BarHolds, VerificationHolds, PasswordHolds
    <3>4. CASE request[r].copy.standing # account.standing
      <4>1. BarHolds
        BY <3>1, <3>4, OldRequests DEF BarHolds
      <4> QED
        BY <3>2, <4>1 DEF VerificationHolds, PasswordHolds
    <3> QED
      BY <3>3, <3>4
  <2>7. ASSUME NEW r \in Requests, NEW p \in Passwords, ChangePassword(r, p) PROVE Hold
    <3>1. account' = [account EXCEPT !.password = p] /\ now' = now
      BY <2>7 DEF ChangePassword, SavedBy, Saved
    <3>2. account'.verified = account.verified /\ account'.standing = account.standing
      BY <2>1, <3>1 DEF AccountRow
    <3> QED
      BY <2>7, <3>1, <3>2, BarStays DEF VerificationHolds, PasswordHolds
  <2>8. ASSUME NEW r \in Requests, NEW p \in Passwords, SetPasswordByAdmin(r, p) PROVE Hold
    <3>1. /\ SavedBy(r, "setPassword", [request[r].copy EXCEPT !.password = p]) /\ now' = now
          /\ account' = [request[r].copy EXCEPT !.password = p]
          /\ request[r].copy \in AccountRow
      BY <2>1, <2>8 DEF SetPasswordByAdmin, SavedBy, Saved
    <3>2. /\ account'.standing = request[r].copy.standing
          /\ account'.verified = request[r].copy.verified
      BY <3>1 DEF AccountRow
    <3>3. BarHolds
      BY <3>1, <3>2, BarStays, OldRequests DEF BarHolds, AdminPage
    <3>4. VerificationHolds
      BY <3>1, <3>2, OldRequests DEF VerificationHolds, AdminPage
    <3> QED
      BY <2>8, <3>3, <3>4 DEF PasswordHolds
  <2>9. ASSUME NEW r \in Requests, NEW v \in BOOLEAN, EditVerified(r, v) PROVE Hold
    <3> DEFINE row == [[request[r].copy EXCEPT !.verified = v] EXCEPT !.password = account.password]
    <3>1. /\ SavedBy(r, "change", row) /\ now' = now /\ account' = row
          /\ request[r].copy \in AccountRow
      BY <2>1, <2>9 DEF EditVerified, SaveChangeForm, SavedBy, Saved
    <3>2. /\ account'.standing = request[r].copy.standing
          /\ account'.password = account.password /\ account'.verified = v
      BY <3>1 DEF AccountRow
    <3> HIDE DEF row
    <3>3. BarHolds
      BY <3>1, <3>2, BarStays, OldRequests DEF BarHolds, AdminPage
    <3> QED
      BY <2>9, <3>2, <3>3 DEF VerificationHolds, PasswordHolds
  <2>10. ASSUME NEW r \in Requests, NEW v \in Decision, EditStanding(r, v) PROVE Hold
    <3> DEFINE row == [[request[r].copy EXCEPT !.standing = v] EXCEPT !.password = account.password]
    <3>1. /\ SavedBy(r, "change", row) /\ account' = row /\ request[r].copy \in AccountRow
      BY <2>1, <2>10 DEF EditStanding, SaveChangeForm, SavedBy, Saved
    <3>2. /\ account'.verified = request[r].copy.verified
          /\ account'.password = account.password
      BY <3>1 DEF AccountRow
    <3> HIDE DEF row
    <3>3. VerificationHolds
      BY <3>1, <3>2, OldRequests DEF VerificationHolds, AdminPage
    <3>4. BarHolds
      BY <2>10 DEF BarHolds
    <3> QED
      BY <3>2, <3>3, <3>4 DEF PasswordHolds
  <2>11. CASE \/ Tick
              \/ \E r \in Requests : \/ \E kind \in Form \cup {"login"} : LoadUser(r, kind)
                                     \/ \E kind \in AdminPage : LoadByAdmin(r, kind)
                                     \/ EndRequest(r)
                                     \/ \E t \in Tokens : SendVerificationEmail(r, t)
    BY <2>2, <2>11 DEF Tick, LoadUser, LoadByAdmin, EndRequest, SendVerificationEmail
  <2> HIDE DEF Hold
  <2> QED
    BY <2>2, <2>3, <2>4, <2>5, <2>6, <2>7, <2>8, <2>9, <2>10, <2>11 DEF AccountsNext, VerifyCode
<1> QED
  BY <1>1, AccountsTypeCorrect, PTL DEF AccountsSpec, UndoneByOldRowsOnly

-----------------------------------------------------------------------------
\* No order of sending and following links leaves an account without one that was
\* never verified.
THEOREM UnverifiedAlwaysHasLink == AccountsSpec => []UnverifiedHasLink
<1>1. AccountsInit => UnverifiedHasLink
  BY AccountsAssumption DEF AccountsInit, UnverifiedHasLink, NewToken, Tokens
<1> DEFINE VerifiedKnown == account.verified => everVerified
           IInv == VerifiedKnown /\ UnverifiedHasLink
<1>2. AccountsInit => VerifiedKnown
  BY DEF AccountsInit
<1>3. AccountsTypeOK /\ IInv /\ [AccountsNext]_aVars => IInv'
  <2> SUFFICES ASSUME AccountsTypeOK, IInv, [AccountsNext]_aVars PROVE IInv'
    OBVIOUS
  <2>1. CASE UNCHANGED <<account, everVerified, token>>
    BY <2>1 DEF UnverifiedHasLink
  <2>2. ASSUME NEW row, Saved(row), UNCHANGED token PROVE IInv'
    BY <2>2 DEF Saved, UnverifiedHasLink
  <2>3. ASSUME NEW r \in Requests, NEW kind, NEW row, SavedBy(r, kind, row) PROVE IInv'
    BY <2>2, <2>3 DEF SavedBy
  <2>4. CASE SuspendUser \/ ReinstateUser \/ MarkVerified
    BY <2>2, <2>4 DEF SuspendUser, ReinstateUser, MarkVerified
  <2>5. ASSUME NEW t \in Tokens, VerifyEmail(t) PROVE IInv'
    BY <2>5 DEF VerifyEmail, Saved, UnverifiedHasLink, AccountsTypeOK, AccountRow
  <2>6. ASSUME NEW r \in Requests, NEW t \in Tokens, SendVerificationEmail(r, t) PROVE IInv'
    <3>1. ~ token'[t].used /\ UNCHANGED <<account, everVerified>>
      BY <2>6 DEF SendVerificationEmail, Retired, NewToken
    <3> QED
      BY <3>1 DEF UnverifiedHasLink
  <2>7. ASSUME NEW r \in Requests,
               \/ SaveSettings(r) \/ ReactivateAtLogin(r)
               \/ \E p \in Passwords : ChangePassword(r, p) \/ SetPasswordByAdmin(r, p)
               \/ \E v \in BOOLEAN : EditVerified(r, v)
               \/ \E v \in Decision : EditStanding(r, v)
        PROVE  \E kind, row : SavedBy(r, kind, row)
    BY <2>7 DEF SaveSettings, ReactivateAtLogin, ChangePassword, SetPasswordByAdmin, EditVerified,
                EditStanding, SaveChangeForm
  <2> HIDE DEF IInv
  <2> QED
    BY <2>1, <2>3, <2>4, <2>5, <2>6, <2>7
       DEF AccountsNext, aVars, Tick, VerifyCode, LoadUser, LoadByAdmin, EndRequest
<1> QED
  BY <1>1, <1>2, <1>3, AccountsTypeCorrect, PTL DEF AccountsSpec
=============================================================================
