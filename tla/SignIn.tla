------------------------------- MODULE SignIn -------------------------------
(***************************************************************************)
(* How a request comes to act for an account (app/auth.py and the tables   *)
(* behind it in app/db.py): codes sent by e-mail, passwords and their      *)
(* lock, reset tokens, OAuth states, and the sessions they all end in.     *)
(*                                                                         *)
(* A handler verifies in one transaction, touches the account in the next  *)
(* and creates the session in a third.  Between these there is no await,   *)
(* so no other handler of the one server process comes in between          *)
(* (LoopFree); a crash does.  Only the return from Discord waits for the   *)
(* network in the middle.                                                  *)
(*                                                                         *)
(* What a user types is right or wrong; a refused call changes nothing,    *)
(* and neither do the limits on sending and guessing, which only refuse.   *)
(***************************************************************************)
EXTENDS Accounts

CONSTANTS CodeBound,        \* bound of the model: codes sent
          TokenBound,       \* bound of the model: reset tokens handed out
          SessionBound,     \* bound of the model: sessions created
          UnlockBound,      \* bound of the model: locks that have passed
          States,           \* OAuth states
          MaxCodeAttempts,  \* email_otp_max_attempts
          MaxFailed,        \* password_login_max_failed_attempts
          MaxSessions,      \* max_active_sessions_per_account
          Handlers          \* requests that can be under way at a time

ASSUME SignInConstants ==
    /\ CodeBound \in Nat /\ TokenBound \in Nat /\ SessionBound \in Nat /\ UnlockBound \in Nat
    /\ MaxCodeAttempts \in Nat \ {0} /\ MaxFailed \in Nat \ {0} /\ MaxSessions \in Nat \ {0}

ASSUME HandlersFinite == IsFiniteSet(Handlers)

VARIABLES code,     \* email_login_codes_secure, in the order of sending
          password, \* email_password_credentials
          token,    \* email_password_reset_tokens
          oauth,    \* oauth_login_states
          session,  \* account_sessions
          handler,  \* the handlers
          overtaken \* history: how many callbacks waited for Discord when all
                    \* sessions of the account were last ended

signInVars == <<accountVars, code, password, token, oauth, session, handler, overtaken>>
\* What no handler but its own changes while the loop is busy.
authVars == <<code, password, token, oauth, session>>

Purposes == {"register", "login", "reset"}

\* age: well before expires_at, in its very second, or after it.  admitted
\* counts how often the code let somebody in.
Code == [email : EmailUsers \cup {Nobody}, purpose : Purposes,
         status : {"none", "open", "consumed"}, age : {"fresh", "due", "late"},
         failed : 0..MaxCodeAttempts, admitted : 0..2]

\* guesses: wrong passwords tried since the owner last proved to be one;
\* unlocks: locks that have passed since then.
Password == [set : BOOLEAN, failed : Nat, locked : BOOLEAN, guesses : Nat, unlocks : 0..UnlockBound]

\* A token that is late is as good as used, and a session that is over is
\* nobody's any more.
Token == [email : EmailUsers \cup {Nobody}, status : {"none", "open", "used"}, admitted : 0..2]

\* current: authenticated after all sessions of the account were last ended.
Session == [owner : People \cup {Nobody}, status : {"none", "active", "ended"}, current : BOOLEAN]

Handler == [pc : {"idle", "register", "login", "reset", "network", "session"},
            owner : People \cup {Nobody}, current : BOOLEAN]

NoCode == [email |-> Nobody, purpose |-> "login", status |-> "none", age |-> "fresh",
           failed |-> 0, admitted |-> 0]
NewCode(p, purpose) == [email |-> p, purpose |-> purpose, status |-> "open", age |-> "fresh",
                        failed |-> 0, admitted |-> 0]
PasswordRow(set) == [set |-> set, failed |-> 0, locked |-> FALSE, guesses |-> 0, unlocks |-> 0]
NoPassword == PasswordRow(FALSE)
NewPassword == PasswordRow(TRUE)
NoToken == [email |-> Nobody, status |-> "none", admitted |-> 0]
NewToken(p) == [email |-> p, status |-> "open", admitted |-> 0]
NoSession == [owner |-> Nobody, status |-> "none", current |-> FALSE]
PastSession == [owner |-> Nobody, status |-> "ended", current |-> FALSE]
IdleHandler == [pc |-> "idle", owner |-> Nobody, current |-> FALSE]

SignInInit ==
    /\ AccountsInit
    /\ code = [n \in 1..CodeBound |-> NoCode]
    /\ password = [p \in EmailUsers |-> NoPassword]
    /\ token = [n \in 1..TokenBound |-> NoToken]
    /\ oauth = [x \in States |-> [status |-> "none", admitted |-> 0]]
    /\ session = [n \in 1..SessionBound |-> NoSession]
    /\ handler = [h \in Handlers |-> IdleHandler]
    /\ overtaken = [p \in People |-> 0]

\* Mutant: the handlers run in threads of their own.
LoopFreeAlways == TRUE

\* The event loop runs a handler until it awaits something.
LoopFree == \A h \in Handlers : handler[h].pc \in {"idle", "network"}

Begin(h) == handler[h].pc = "idle" /\ LoopFree

Goto(h, pc, p) == handler' = [handler EXCEPT ![h] = [pc |-> pc, owner |-> p, current |-> TRUE]]
Stop(h) == handler' = [handler EXCEPT ![h] = IdleHandler]

\* The row the next insert makes.
Next1(rows, n) == rows[n].status = "none" /\ \A m \in DOMAIN rows : m < n => rows[m].status # "none"

----------------------------------------------------------------------------
(* Codes *)

\* Mutant: codes sent before stay open.
SendCodeOnly(p, purpose) ==
    /\ LoopFree
    /\ purpose = "reset" => p \in accounts
    /\ \E n \in 1..CodeBound :
          /\ Next1(code, n)
          /\ code' = [code EXCEPT ![n] = NewCode(p, purpose)]
    /\ UNCHANGED <<accountVars, password, token, oauth, session, handler, overtaken>>

\* create_secure_email_code: consumes the open codes whose expires_at is still
\* to come, and adds one.  The mail is sent afterwards, and whether it arrives
\* changes nothing here.
SendCode(p, purpose) ==
    /\ LoopFree
    /\ purpose = "reset" => p \in accounts
    /\ \E n \in 1..CodeBound :
          /\ Next1(code, n)
          /\ code' = [m \in 1..CodeBound |->
                IF m = n THEN NewCode(p, purpose)
                ELSE IF code[m].email = p /\ code[m].purpose = purpose
                        /\ code[m].status = "open" /\ code[m].age = "fresh"
                     THEN [code[m] EXCEPT !.status = "consumed"]
                     ELSE code[m]]
    /\ UNCHANGED <<accountVars, password, token, oauth, session, handler, overtaken>>

\* The code a verification looks at: the newest that is not consumed.
Newest(p, purpose, n) ==
    LET Open(m) == code[m].email = p /\ code[m].purpose = purpose /\ code[m].status = "open"
    IN  Open(n) /\ \A m \in 1..CodeBound : Open(m) => m <= n

Usable(n) == code[n].age # "late" /\ code[n].failed < MaxCodeAttempts

\* verify_secure_email_code, with the digits of that code.
AcceptCode(h, p, purpose) ==
    /\ Begin(h)
    /\ \E n \in 1..CodeBound :
          /\ Newest(p, purpose, n) /\ Usable(n)
          /\ code' = [code EXCEPT ![n].status = "consumed", ![n].admitted = @ + 1]
    /\ Goto(h, purpose, p)
    /\ UNCHANGED <<accountVars, password, token, oauth, session, overtaken>>

\* verify_secure_email_code with other digits, or of a code that is worn out.
RefuseCode(p, purpose) ==
    /\ LoopFree
    /\ \E n \in 1..CodeBound :
          /\ Newest(p, purpose, n)
          /\ code' = IF Usable(n) THEN [code EXCEPT ![n].failed = @ + 1]
                                  ELSE [code EXCEPT ![n].status = "consumed"]
    /\ UNCHANGED <<accountVars, password, token, oauth, session, handler, overtaken>>

\* _email_register_verify_code after the code: the account is made, or the
\* request is refused because there is one or because the invitation is
\* nobody's; the code is spent in either case.
RegisterAccount(h) ==
    LET p == handler[h].owner IN
    /\ handler[h].pc = "register"
    /\ \/ /\ \E i \in People \cup {Nobody} : NewEmailAccount(p, i)
          /\ Goto(h, "session", p)
       \/ /\ Stop(h)
          /\ UNCHANGED accountVars
    /\ UNCHANGED <<authVars, overtaken>>

\* _email_login_verify_code after the code: clears the failed passwords.
LoginByCode(h) ==
    LET p == handler[h].owner IN
    /\ handler[h].pc = "login"
    /\ IF p \in accounts
       THEN /\ password' = [password EXCEPT ![p] = PasswordRow(password[p].set)]
            /\ Goto(h, "session", p)
       ELSE /\ Stop(h)
            /\ UNCHANGED password
    /\ UNCHANGED <<accountVars, code, token, oauth, session, overtaken>>

\* email_password_reset_verify_code after the code; tokens are single.
HandOutToken(h) ==
    LET p == handler[h].owner IN
    /\ handler[h].pc = "reset"
    /\ \E n \in 1..TokenBound :
          /\ Next1(token, n)
          /\ token' = [m \in 1..TokenBound |->
                IF m = n THEN NewToken(p)
                ELSE IF token[m].email = p THEN [token[m] EXCEPT !.status = "used"] ELSE token[m]]
    /\ Stop(h)
    /\ UNCHANGED <<accountVars, code, password, oauth, session, overtaken>>

----------------------------------------------------------------------------
(* Sessions *)

Active(p) == {n \in 1..SessionBound : session[n].owner = p /\ session[n].status = "active"}

\* The callbacks of p that wait for Discord.
Waiting(p) == {g \in Handlers : handler[g].pc = "network" /\ handler[g].owner = p}

\* All sessions of p but those of keep are over.  The rows of account_sessions
\* are all the code ends: a callback that waits is not told.
EndSessions(p, keep) ==
    /\ session' = [n \in 1..SessionBound |->
          IF session[n].owner = p /\ n \notin keep THEN PastSession ELSE session[n]]
    /\ overtaken' = [overtaken EXCEPT ![p] = Cardinality(Waiting(p))]

\* What handlers of p proved before is out of date.
Outdated(p) ==
    [g \in Handlers |-> IF handler[g].owner = p THEN [handler[g] EXCEPT !.current = FALSE]
                                               ELSE handler[g]]

\* _set_session_cookie: the new session and those most recently seen stay.
CreateSession(h) ==
    LET p == handler[h].owner IN
    /\ handler[h].pc = "session"
    /\ \E n \in 1..SessionBound, kept \in SUBSET Active(p) :
          /\ Next1(session, n)
          /\ Cardinality(kept) < MaxSessions
          /\ Cardinality(Active(p)) < MaxSessions => kept = Active(p)
          /\ session' = [m \in 1..SessionBound |->
                IF m = n THEN [owner |-> p, status |-> "active", current |-> handler[h].current]
                ELSE IF m \in Active(p) \ kept THEN PastSession
                ELSE session[m]]
    /\ Stop(h)
    /\ UNCHANGED <<accountVars, code, password, token, oauth, overtaken>>

\* logout, or expires_at
EndSession(n) ==
    /\ LoopFree
    /\ session[n].status = "active"
    /\ session' = [session EXCEPT ![n] = PastSession]
    /\ UNCHANGED <<accountVars, code, password, token, oauth, handler, overtaken>>

\* logout_all
EndAllSessions(p) ==
    /\ LoopFree
    /\ Active(p) # {}
    /\ EndSessions(p, {})
    /\ handler' = Outdated(p)
    /\ UNCHANGED <<accountVars, code, password, token, oauth>>

----------------------------------------------------------------------------
(* Passwords *)

\* register_password_failure: the count is kept when a lock has passed.
Failed(p) ==
    [password EXCEPT ![p].failed = @ + 1, ![p].guesses = @ + 1,
                     ![p].locked = password[p].failed + 1 >= MaxFailed]

\* email_password_login with the right password.
LoginByPassword(h, p) ==
    /\ Begin(h)
    /\ p \in accounts /\ password[p].set /\ ~password[p].locked
    /\ password' = [password EXCEPT ![p] = NewPassword]
    /\ Goto(h, "session", p)
    /\ UNCHANGED <<accountVars, code, token, oauth, session, overtaken>>

\* ... with a wrong one.
WrongPassword(p) ==
    /\ LoopFree
    /\ p \in accounts /\ password[p].set /\ ~password[p].locked
    /\ password' = Failed(p)
    /\ UNCHANGED <<accountVars, code, token, oauth, session, handler, overtaken>>

\* Mutant: a wrong old password is not counted.
WrongOldPasswordForgiven(n) ==
    LET p == session[n].owner IN
    /\ LoopFree
    /\ session[n].status = "active" /\ p \in EmailUsers
    /\ password[p].set /\ ~password[p].locked
    /\ password' = [password EXCEPT ![p].guesses = @ + 1]
    /\ UNCHANGED <<accountVars, code, token, oauth, session, handler, overtaken>>

\* email_password_set with a wrong old password: counted and locked as above.
WrongOldPassword(n) ==
    LET p == session[n].owner IN
    /\ LoopFree
    /\ session[n].status = "active" /\ p \in EmailUsers
    /\ password[p].set /\ ~password[p].locked
    /\ password' = Failed(p)
    /\ UNCHANGED <<accountVars, code, token, oauth, session, handler, overtaken>>

\* email_password_set, of a first password or with the right old one.
SetPassword(n, others) ==
    LET p == session[n].owner IN
    /\ LoopFree
    /\ session[n].status = "active" /\ p \in EmailUsers
    /\ ~(password[p].set /\ password[p].locked)
    /\ password' = [password EXCEPT ![p] = NewPassword]
    /\ IF others
       THEN /\ EndSessions(p, {n})
            /\ handler' = Outdated(p)
       ELSE UNCHANGED <<session, handler, overtaken>>
    /\ UNCHANGED <<accountVars, code, token, oauth>>

\* email_password_reset_complete: token, password and all sessions in one
\* transaction; then a session for the one who reset it.
CompleteReset(h, n) ==
    LET p == token[n].email IN
    /\ Begin(h)
    /\ token[n].status = "open"
    /\ token' = [token EXCEPT ![n].status = "used", ![n].admitted = @ + 1]
    /\ password' = [password EXCEPT ![p] = NewPassword]
    /\ EndSessions(p, {})
    /\ handler' = [Outdated(p) EXCEPT ![h] = [pc |-> "session", owner |-> p, current |-> TRUE]]
    /\ UNCHANGED <<accountVars, code, oauth>>

----------------------------------------------------------------------------
(* Discord *)

\* discord_login
StartOAuth(x) ==
    /\ LoopFree
    /\ oauth[x].status = "none"
    /\ oauth' = [oauth EXCEPT ![x].status = "open"]
    /\ UNCHANGED <<accountVars, code, password, token, session, handler, overtaken>>

\* discord_callback: consumes the state in a transaction of its own and waits
\* for Discord, which says who it is.
AcceptState(h, x) ==
    /\ Begin(h)
    /\ oauth[x].status = "open"
    /\ oauth' = [oauth EXCEPT ![x].status = "used", ![x].admitted = @ + 1]
    /\ \E p \in DiscordUsers : Goto(h, "network", p)
    /\ UNCHANGED <<accountVars, code, password, token, session, overtaken>>

\* Discord has answered: find or create, welcome, commit.  Nothing looks at what
\* happened to the sessions of the account while the callback waited.
DiscordAnswers(h) ==
    LET p == handler[h].owner IN
    /\ handler[h].pc = "network"
    /\ LoopFree
    /\ IF p \in accounts THEN UNCHANGED accountVars ELSE NewDiscordAccount(p)
    /\ handler' = [handler EXCEPT ![h].pc = "session"]
    /\ UNCHANGED <<authVars, overtaken>>

DiscordFails(h) ==
    /\ handler[h].pc = "network"
    /\ Stop(h)
    /\ UNCHANGED <<accountVars, authVars, overtaken>>

----------------------------------------------------------------------------
(* Time and the server *)

CodeAges(n) ==
    /\ code[n].status = "open" /\ code[n].age # "late"
    /\ code' = [code EXCEPT ![n].age = IF @ = "fresh" THEN "due" ELSE "late"]
    /\ UNCHANGED <<accountVars, password, token, oauth, session, handler, overtaken>>

TokenGrowsLate(n) ==
    /\ token[n].status = "open"
    /\ token' = [token EXCEPT ![n].status = "used"]
    /\ UNCHANGED <<accountVars, code, password, oauth, session, handler, overtaken>>

StateGrowsLate(x) ==
    /\ oauth[x].status = "open"
    /\ oauth' = [oauth EXCEPT ![x].status = "used"]
    /\ UNCHANGED <<accountVars, code, password, token, session, handler, overtaken>>

LockPasses(p) ==
    /\ password[p].locked /\ password[p].unlocks < UnlockBound
    /\ password' = [password EXCEPT ![p].locked = FALSE, ![p].unlocks = @ + 1]
    /\ UNCHANGED <<accountVars, code, token, oauth, session, handler, overtaken>>

Crash ==
    /\ handler' = [h \in Handlers |-> IdleHandler]
    /\ UNCHANGED <<accountVars, authVars, overtaken>>

AccountRequest ==
    /\ \/ \E p \in People : ClaimReferralCode(p)
       \/ CampaignChanges
    /\ UNCHANGED <<authVars, handler, overtaken>>

HandlerStep(h) ==
    \/ RegisterAccount(h)
    \/ LoginByCode(h)
    \/ HandOutToken(h)
    \/ CreateSession(h)
    \/ DiscordAnswers(h)
    \/ DiscordFails(h)

EmailRequest(p) ==
    \/ \E purpose \in Purposes : \/ SendCode(p, purpose)
                                 \/ RefuseCode(p, purpose)
                                 \/ \E h \in Handlers : AcceptCode(h, p, purpose)
    \/ \E h \in Handlers : LoginByPassword(h, p)
    \/ WrongPassword(p)
    \/ LockPasses(p)

SessionRequest(n) ==
    \/ EndSession(n)
    \/ WrongOldPassword(n)
    \/ \E others \in BOOLEAN : SetPassword(n, others)

SignInNext ==
    \/ \E h \in Handlers : HandlerStep(h)
    \/ \E p \in EmailUsers : EmailRequest(p)
    \/ \E p \in People : EndAllSessions(p)
    \/ \E n \in 1..SessionBound : SessionRequest(n)
    \/ \E n \in 1..CodeBound : CodeAges(n)
    \/ \E n \in 1..TokenBound : TokenGrowsLate(n) \/ \E h \in Handlers : CompleteReset(h, n)
    \/ \E x \in States : StartOAuth(x) \/ StateGrowsLate(x) \/ \E h \in Handlers : AcceptState(h, x)
    \/ Crash
    \/ AccountRequest

SignInSpec == SignInInit /\ [][SignInNext]_signInVars

----------------------------------------------------------------------------
(* Properties *)

SignInTypeOK ==
    /\ AccountsTypeOK
    /\ code \in [1..CodeBound -> Code]
    /\ password \in [EmailUsers -> Password]
    /\ token \in [1..TokenBound -> Token]
    /\ oauth \in [States -> [status : {"none", "open", "used"}, admitted : 0..2]]
    /\ session \in [1..SessionBound -> Session]
    /\ handler \in [Handlers -> Handler]
    /\ overtaken \in [People -> Nat]

\* Nothing that is sent or handed out lets anybody in twice, and of the codes of
\* one purpose, as of the tokens, only the newest can let anybody in at all;
\* except that a code in the very second it expires is not superseded.
SecretsAdmitOnce ==
    /\ \A n \in 1..CodeBound : code[n].admitted <= 1
    /\ \A n \in 1..TokenBound : token[n].admitted <= 1
    /\ \A x \in States : oauth[x].admitted <= 1
    /\ \A m, n \in 1..CodeBound :
          /\ m < n
          /\ code[n].email # Nobody
          /\ code[m].email = code[n].email /\ code[m].purpose = code[n].purpose
          => ~(code[m].status = "open" /\ code[m].age = "fresh")
    /\ \A m, n \in 1..TokenBound :
          m < n /\ token[n].email # Nobody /\ token[m].email = token[n].email => token[m].status # "open"

\* The lock is shared by the login and the change of password: since the owner
\* last got in, no more wrong passwords were tried than the limit and one more
\* for each lock that passed.
GuessesBounded ==
    \A p \in EmailUsers : password[p].guesses <= MaxFailed + password[p].unlocks

\* Sessions, and handlers that may still make one, of somebody who proved to be
\* p before all sessions of p were last ended.
OldSessions(p) ==
    {n \in 1..SessionBound : session[n].owner = p /\ session[n].status = "active" /\ ~session[n].current}
OldHandlers(p) == {h \in Handlers : handler[h].owner = p /\ ~handler[h].current}

\* After a reset, a logout everywhere, or a change of password that asked for
\* it, an e-mail account has no session, and no handler under way to one, of
\* somebody who had proved to be the owner before.  A Discord account may: a
\* callback that waits for Discord while all sessions are ended makes its
\* session afterwards.  There are never more such sessions and callbacks than
\* callbacks waited then: each gets in once, and no other route does.
OlderSignInsEnd ==
    \A p \in People :
        /\ Cardinality(OldSessions(p)) + Cardinality(OldHandlers(p)) <= overtaken[p]
        /\ p \in EmailUsers => overtaken[p] = 0

\* Nobody has more sessions than the limit.
SessionsBounded ==
    \A p \in People : Cardinality(Active(p)) <= MaxSessions

\* Seen from the accounts, signing in does nothing but make them.
SignInMakesAccounts == AccountsSpec

\* A handler under way acts for somebody of the kind its route serves, and what
\* it has proved for an e-mail account still counts while it has the loop.
HandlersKnown ==
    \A h \in Handlers :
        /\ handler[h].pc \in {"register", "login", "reset"} => handler[h].owner \in EmailUsers
        /\ handler[h].pc = "network" => handler[h].owner \in DiscordUsers
        /\ handler[h].pc = "session" => handler[h].owner \in People
        /\ handler[h].pc = "idle" => handler[h].owner = Nobody
        /\ handler[h].owner \in EmailUsers => handler[h].current

\* The rows are filled in order; one that is open belongs to somebody and has
\* let nobody in.
FilledInOrder(rows) ==
    \A m, n \in DOMAIN rows : m < n /\ rows[m].status = "none" => rows[n].status = "none"

SecretsKnown ==
    /\ FilledInOrder(code) /\ FilledInOrder(token)
    /\ \A n \in 1..CodeBound :
          /\ code[n].status = "none" => code[n].email = Nobody
          /\ code[n].status = "open" => code[n].email \in EmailUsers
          /\ code[n].status # "consumed" => code[n].admitted = 0
    /\ \A n \in 1..TokenBound :
          /\ token[n].status = "none" => token[n].email = Nobody
          /\ token[n].status = "open" => token[n].email \in EmailUsers
          /\ token[n].status # "used" => token[n].admitted = 0
    /\ \A x \in States : oauth[x].status # "used" => oauth[x].admitted = 0

\* The count of failures is the number of guesses; an account that is not locked
\* has one of them left.
GuessesKnown ==
    \A p \in EmailUsers :
        /\ password[p].failed = password[p].guesses
        /\ ~password[p].locked => password[p].guesses < MaxFailed + password[p].unlocks

\* With these, the properties above are inductive together.
SignInInv ==
    /\ SignInTypeOK /\ InvitationsMatchAccounts /\ BonusesPaidOnce
    /\ HandlersKnown /\ SecretsKnown /\ GuessesKnown
    /\ SecretsAdmitOnce /\ GuessesBounded /\ OlderSignInsEnd /\ SessionsBounded
=============================================================================
