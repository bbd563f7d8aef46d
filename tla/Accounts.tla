------------------------------ MODULE Accounts -------------------------------
(***************************************************************************)
(* One account from its registration on: the tokens that verify its        *)
(* address, its standing, its password, and the requests and admin pages   *)
(* that hold a copy of the row while others change it                      *)
(* (src/apps/accounts/services.py, views.py, admin.py, backends.py).       *)
(*                                                                         *)
(* Every request loads the user first and saves later.  Most saves name    *)
(* the fields they write.  The settings page and the two admin pages write *)
(* fields nobody meant to change, as they were when the row was loaded.    *)
(*                                                                         *)
(* The rate limits are left out (they only refuse, and let everything      *)
(* through when the cache fails), and so are CLOSED accounts, which        *)
(* is_usable treats like BANNED ones.                                      *)
(***************************************************************************)
EXTENDS Naturals

CONSTANTS MaxTokens, MaxPasswords, MaxNow, Requests

ASSUME AccountsAssumption == MaxTokens \in Nat \ {0} /\ MaxPasswords \in Nat /\ MaxNow \in Nat

VARIABLES
  account,      \* the row of the User table
  everVerified, \* history: the account was verified at some time
  token,        \* EmailVerificationToken rows
  request,      \* running requests and open admin forms, with the row they loaded
  now           \* the clock

aVars == <<account, everVerified, token, request, now>>

Tokens == 1..MaxTokens

\* until is suspended_until; 0 says there is none.
Standing == [status : {"ACTIVE", "SUSPENDED", "BANNED"}, until : 0..MaxNow]

Passwords == 0..MaxPasswords

AccountRow == [verified : BOOLEAN, standing : Standing, password : Passwords]

\* used says that used_at is set, by following the link or by retiring it.
TokenRow == [made : BOOLEAN, used : BOOLEAN, expires : 0..(MaxNow + 1)]

Form == {"settings", "password", "resend"}

\* The admin's change form, and the page on which an administrator sets a password.
AdminPage == {"change", "setPassword"}

None == [kind |-> "none"]

RunningRequest == [kind : Form \cup AdminPage \cup {"login"}, copy : AccountRow]

AccountsTypeOK ==
  /\ account \in AccountRow /\ everVerified \in BOOLEAN
  /\ token \in [Tokens -> TokenRow]
  /\ request \in [Requests -> {None} \cup RunningRequest]
  /\ now \in 0..MaxNow

Active == [status |-> "ACTIVE", until |-> 0]

NewToken(expires) == [made |-> TRUE, used |-> FALSE, expires |-> expires]

NoToken == [made |-> FALSE, used |-> TRUE, expires |-> 0]

\* register() has made the account and sent the first link.
AccountsInit ==
  /\ account = [verified |-> FALSE, standing |-> Active, password |-> 0]
  /\ everVerified = FALSE
  /\ token = [t \in Tokens |-> IF t = 1 THEN NewToken(1) ELSE NoToken]
  /\ request = [r \in Requests |-> None]
  /\ now = 0

\* Time passes; a unit is the 48 hours a link lives.
Tick ==
  /\ now < MaxNow
  /\ now' = now + 1
  /\ UNCHANGED <<account, everVerified, token, request>>

Lapsed(standing) ==
  standing.status = "SUSPENDED" /\ standing.until # 0 /\ standing.until <= now

IsUsable(standing) == standing.status = "ACTIVE" \/ Lapsed(standing)

\* A signed-in user sends a form, or somebody signs in with the right password:
\* the row is loaded, and refused unless it is usable.
LoadUser(r, kind) ==
  /\ request[r] = None
  /\ kind \in Form \cup {"login"}
  /\ IsUsable(account.standing)
  /\ request' = [request EXCEPT ![r] = [kind |-> kind, copy |-> account]]
  /\ UNCHANGED <<account, everVerified, token, now>>

\* An administrator opens the change form of the account, or sends the page that
\* sets its password: nobody asks whether the account is usable.
LoadByAdmin(r, kind) ==
  /\ request[r] = None
  /\ kind \in AdminPage
  /\ request' = [request EXCEPT ![r] = [kind |-> kind, copy |-> account]]
  /\ UNCHANGED <<account, everVerified, token, now>>

\* A request is refused, its page is closed or its process dies.
EndRequest(r) ==
  /\ request[r] # None
  /\ request' = [request EXCEPT ![r] = None]
  /\ UNCHANGED <<account, everVerified, token, now>>

Saved(row) ==
  /\ account' = row
  /\ everVerified' = (everVerified \/ row.verified)

\* A request of some kind saves the row and ends.
SavedBy(r, kind, row) ==
  /\ request[r].kind = kind
  /\ Saved(row)
  /\ request' = [request EXCEPT ![r] = None]
  /\ UNCHANGED <<token, now>>

\* The settings page saves the whole row it loaded; names and pictures, the
\* fields it is for, are left out.
SaveSettings(r) == SavedBy(r, "settings", request[r].copy)

\* Faulty variant: the whole row is saved.
ChangePasswordOfCopy(r, p) ==
  SavedBy(r, "password", [request[r].copy EXCEPT !.password = p])

ChangePassword(r, p) == SavedBy(r, "password", [account EXCEPT !.password = p])

\* The page on which an administrator sets a password hashes it and saves the
\* whole row.
SetPasswordByAdmin(r, p) ==
  SavedBy(r, "setPassword", [request[r].copy EXCEPT !.password = p])

\* Signing in ends a suspension whose time is over on the row it loaded,
\* whatever the standing has become meanwhile.
ReactivateAtLogin(r) ==
  /\ request[r].kind = "login"
  /\ Lapsed(request[r].copy.standing)
  /\ SavedBy(r, "login", [account EXCEPT !.standing = Active])

\* Faulty variant: the links sent before stay good.
RetiredNever == token

\* Every link that is still good is retired.
Retired == [t \in Tokens |-> [token[t] EXCEPT !.used = TRUE]]

\* The request loaded an unverified user, who may be verified by now; t is the next key.
SendVerificationEmail(r, t) ==
  /\ request[r].kind = "resend"
  /\ ~ request[r].copy.verified
  /\ ~ token[t].made /\ \A s \in 1..(t-1) : token[s].made
  /\ token' = [Retired EXCEPT ![t] = NewToken(now + 1)]
  /\ request' = [request EXCEPT ![r] = None]
  /\ UNCHANGED <<account, everVerified, now>>

\* Faulty variant: the link is spent before the account is looked at.
VerifyEmailLate(t) ==
  /\ token[t].made /\ ~ token[t].used
  /\ token' = [token EXCEPT ![t].used = TRUE]
  /\ IF account.verified \/ token[t].expires <= now
     THEN UNCHANGED <<account, everVerified>>
     ELSE Saved([account EXCEPT !.verified = TRUE])
  /\ UNCHANGED <<request, now>>

\* A link that is used up changes nothing, and neither does one that has expired.
VerifyEmail(t) ==
  /\ token[t].made /\ ~ token[t].used
  /\ token[t].expires > now
  /\ token' = [token EXCEPT ![t].used = TRUE]
  /\ IF account.verified THEN UNCHANGED <<account, everVerified>>
     ELSE Saved([account EXCEPT !.verified = TRUE])
  /\ UNCHANGED <<request, now>>

\* The code of a link does what the link does.
VerifyCode(t) == VerifyEmail(t)

\* The list actions of the admin.
SuspendUser ==
  /\ Saved([account EXCEPT !.standing = [status |-> "SUSPENDED", until |-> 0]])
  /\ UNCHANGED <<token, request, now>>

ReinstateUser ==
  /\ Saved([account EXCEPT !.standing = Active])
  /\ UNCHANGED <<token, request, now>>

MarkVerified ==
  /\ Saved([account EXCEPT !.verified = TRUE])
  /\ UNCHANGED <<token, request, now>>

\* The change form writes the verification and the standing the page shows, one
\* of them edited; the password on it is read-only and stays as it is.
SaveChangeForm(r, edited) ==
  SavedBy(r, "change", [edited EXCEPT !.password = account.password])

EditVerified(r, v) == SaveChangeForm(r, [request[r].copy EXCEPT !.verified = v])

EditStanding(r, v) == SaveChangeForm(r, [request[r].copy EXCEPT !.standing = v])

Decision == [status : {"SUSPENDED"}, until : 1..MaxNow]
            \cup {Active, [status |-> "BANNED", until |-> 0]}

AccountsNext ==
  \/ Tick \/ SuspendUser \/ ReinstateUser \/ MarkVerified
  \/ \E t \in Tokens : VerifyEmail(t) \/ VerifyCode(t)
  \/ \E r \in Requests :
       \/ \E kind \in Form \cup {"login"} : LoadUser(r, kind)
       \/ \E kind \in AdminPage : LoadByAdmin(r, kind)
       \/ EndRequest(r) \/ SaveSettings(r) \/ ReactivateAtLogin(r)
       \/ \E p \in Passwords : ChangePassword(r, p) \/ SetPasswordByAdmin(r, p)
       \/ \E t \in Tokens : SendVerificationEmail(r, t)
       \/ \E v \in BOOLEAN : EditVerified(r, v)
       \/ \E v \in Decision : EditStanding(r, v)

AccountsSpec == AccountsInit /\ [][AccountsNext]_aVars

-----------------------------------------------------------------------------
\* Sending a link anew retires the ones before, also when two requests send at
\* once or the address is verified meanwhile (accounts/services.py:71).
OneLiveToken ==
  \A s, t \in Tokens : ~ token[s].used /\ ~ token[t].used => s = t

\* The account may not be used: banned, or suspended for good or for a time to come.
Barred ==
  \/ account.standing.status = "BANNED"
  \/ /\ account.standing.status = "SUSPENDED"
     /\ account.standing.until = 0 \/ account.standing.until > now

\* A request of one of these kinds ends that loaded the row when it said
\* something else about f.
EndsOld(kinds, f) ==
  \E r \in Requests :
    /\ request[r].kind \in kinds /\ request'[r] = None
    /\ request[r].copy[f] # account[f]

BarHolds ==
  Barred /\ ~ Barred' =>
    \/ Tick \/ ReinstateUser \/ \E r \in Requests, v \in Decision : EditStanding(r, v)
    \/ EndsOld({"settings", "login"} \cup AdminPage, "standing")

VerificationHolds ==
  account.verified /\ ~ account'.verified =>
    \/ \E r \in Requests : EditVerified(r, FALSE)
    \/ EndsOld({"settings"} \cup AdminPage, "verified")

PasswordHolds ==
  account'.password # account.password =>
    \/ \E r \in Requests, p \in Passwords : ChangePassword(r, p) \/ SetPasswordByAdmin(r, p)
    \/ EndsOld({"settings"}, "password")

\* A ban ends, a verification goes and a password changes only when somebody
\* decides so (or the term is over), or through a request that loaded the row
\* before.  Settings can undo all three, the admin's pages a ban and a
\* verification, and a login, although it names its fields, a ban; sending and
\* following links and changing one's password undo nothing, however long they
\* take (accounts/views.py:130, admin.py:7, services.py:107, 154-158, 173).
UndoneByOldRowsOnly == [][BarHolds /\ VerificationHolds /\ PasswordHolds]_aVars

\* An account that was never verified has a link in the mailbox that was never
\* used: no order of sending and following links uses them up
\* (accounts/services.py:71, 103-112).
UnverifiedHasLink ==
  everVerified \/ \E t \in Tokens : ~ token[t].used

=============================================================================
