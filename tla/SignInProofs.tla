---------------------------- MODULE SignInProofs ----------------------------
(* Theorems about Accounts and SignIn, for any number of people, codes,
   tokens, sessions and handlers. *)
EXTENDS SignIn, FiniteSetTheorems, TLAPS

----------------------------------------------------------------------------
(* Accounts and what they are given *)

LEMMA AccountsInvInit == AccountsInit => AccountsInv
<1> SUFFICES ASSUME AccountsInit PROVE AccountsInv
  OBVIOUS
<1>1. AccountsTypeOK /\ InvitationsMatchAccounts
  BY AccountsConstants DEF AccountsInit, AccountsTypeOK, InvitationsMatchAccounts, People
<1>2. ASSUME NEW p \in People
      PROVE  bonus[p] = (IF p \in welcomed THEN WelcomeBonus ELSE 0)
                        + (IF inviter[p] # Nobody THEN InviteeBonus ELSE 0)
                        + InviterBonus * Cardinality(Invited(p))
  <2>1. Invited(p) = {} /\ inviter[p] = Nobody
    BY AccountsConstants DEF AccountsInit, Invited
  <2>2. Cardinality(Invited(p)) = 0
    BY <2>1, FS_EmptySet
  <2>3. bonus[p] = IF p \in welcomed THEN WelcomeBonus ELSE 0
    BY DEF AccountsInit
  <2> QED BY <2>1, <2>2, <2>3, AccountsConstants
<1> QED BY <1>1, <1>2 DEF AccountsInv, BonusesPaidOnce

LEMMA OneMoreInvited ==
    ASSUME NEW a \in Nat, NEW n \in Nat PROVE a * (n + 1) = a * n + a /\ a * n \in Nat
OBVIOUS

\* The transaction that makes an account pays what the rows it adds stand for.
LEMMA NewAccountKeepsInv ==
    ASSUME AccountsInv, NEW p \in People, NEW i \in accounts \cup {Nobody}, NewAccount(p, i)
    PROVE  AccountsInv'
<1> DEFINE referred == ReferralApplies(p, i)
<1>1. /\ i # p /\ i \in People \cup {Nobody}
      /\ referred => i \in accounts /\ i # Nobody
  BY AccountsConstants DEF NewAccount, AccountsInv, AccountsTypeOK, ReferralApplies
<1>2. inviter[p] = Nobody /\ p \notin accounts
  BY DEF NewAccount, AccountsInv, InvitationsMatchAccounts
<1>3. /\ inviter' \in [People -> People \cup {Nobody}]
      /\ \A q \in People : inviter'[q] = IF q = p /\ referred THEN i ELSE inviter[q]
      /\ accounts' = accounts \cup {p} /\ welcomed' = welcomed \cup {p}
  BY <1>1 DEF NewAccount, AccountsInv, AccountsTypeOK
<1>4. /\ DOMAIN bonus' = People
      /\ \A q \in People : bonus'[q] = bonus[q] + (IF q = p THEN Welcome(p) ELSE 0)
                                       + (IF referred /\ q = p THEN InviteeBonus ELSE 0)
                                       + (IF referred /\ q = i THEN InviterBonus ELSE 0)
  BY DEF NewAccount
<1>5. \A q \in People : bonus[q] \in Nat /\ bonus'[q] \in Nat
  BY <1>4, AccountsConstants DEF Welcome, AccountsInv, AccountsTypeOK
<1> HIDE DEF referred
<1>6. AccountsTypeOK'
  <2>1. bonus' \in [People -> Nat]
    BY <1>4, <1>5 DEF NewAccount
  <2> QED BY <1>3, <2>1 DEF NewAccount, AccountsInv, AccountsTypeOK
<1>7. InvitationsMatchAccounts'
  BY <1>1, <1>3 DEF AccountsInv, InvitationsMatchAccounts
<1>8. ASSUME NEW q \in People
      PROVE  bonus'[q] = (IF q \in welcomed' THEN WelcomeBonus ELSE 0)
                         + (IF inviter'[q] # Nobody THEN InviteeBonus ELSE 0)
                         + InviterBonus * Cardinality(Invited(q)')
  <2>1. IsFiniteSet(Invited(q)) /\ Cardinality(Invited(q)) \in Nat
    <3>1. Invited(q) \subseteq People
      BY DEF Invited
    <3> QED BY <3>1, AccountsFinite, FS_Subset, FS_CardinalityType
  <2>2. InviterBonus * Cardinality(Invited(q)') =
          InviterBonus * Cardinality(Invited(q)) + (IF referred /\ q = i THEN InviterBonus ELSE 0)
    <3>1. CASE referred /\ q = i
      <4>1. Invited(q)' = Invited(q) \cup {p} /\ p \notin Invited(q)
        BY <1>1, <1>2, <1>3, <3>1 DEF Invited
      <4>2. Cardinality(Invited(q)') = Cardinality(Invited(q)) + 1
        BY <4>1, <2>1, FS_AddElement
      <4> QED BY <4>2, <3>1, <2>1, OneMoreInvited, AccountsConstants
    <3>2. CASE ~(referred /\ q = i)
      <4>1. Invited(q)' = Invited(q)
        BY <1>1, <1>2, <1>3, <3>2, AccountsConstants DEF Invited
      <4> QED BY <4>1, <3>2, <2>1, OneMoreInvited, AccountsConstants
    <3> QED BY <3>1, <3>2
  <2>3. bonus[q] = (IF q \in welcomed THEN WelcomeBonus ELSE 0)
                   + (IF inviter[q] # Nobody THEN InviteeBonus ELSE 0)
                   + InviterBonus * Cardinality(Invited(q))
    BY DEF AccountsInv, BonusesPaidOnce
  <2>4. InviterBonus * Cardinality(Invited(q)) \in Nat
    BY <2>1, OneMoreInvited, AccountsConstants
  <2>5. (IF q \in welcomed' THEN WelcomeBonus ELSE 0) =
          (IF q \in welcomed THEN WelcomeBonus ELSE 0) + (IF q = p THEN Welcome(p) ELSE 0)
    BY <1>3, AccountsConstants DEF Welcome
  <2>6. (IF inviter'[q] # Nobody THEN InviteeBonus ELSE 0) =
          (IF inviter[q] # Nobody THEN InviteeBonus ELSE 0) + (IF referred /\ q = p THEN InviteeBonus ELSE 0)
    BY <1>1, <1>2, <1>3, AccountsConstants
  <2> QED BY <1>4, <2>2, <2>3, <2>4, <2>5, <2>6, AccountsConstants DEF Welcome
<1>9. BonusesPaidOnce'
  BY <1>8 DEF BonusesPaidOnce
<1> QED BY <1>6, <1>7, <1>9 DEF AccountsInv

LEMMA AccountsInvPreserved == AccountsInv /\ [AccountsNext]_accountVars => AccountsInv'
<1> SUFFICES ASSUME AccountsInv, [AccountsNext]_accountVars PROVE AccountsInv'
  OBVIOUS
<1>1. ASSUME NEW p \in EmailUsers, NEW i \in People \cup {Nobody}, NewEmailAccount(p, i) PROVE AccountsInv'
  <2>1. p \in People /\ i \in accounts \cup {Nobody} /\ NewAccount(p, i)
    BY <1>1 DEF NewEmailAccount, People, AccountsInv, AccountsTypeOK
  <2> QED BY <2>1, NewAccountKeepsInv
<1>2. ASSUME NEW p \in DiscordUsers, NewDiscordAccount(p) PROVE AccountsInv'
  <2>1. p \in People /\ NewAccount(p, Nobody)
    BY <1>2 DEF NewDiscordAccount, People
  <2> QED BY <2>1, NewAccountKeepsInv
<1>3. CASE (\E p \in People : ClaimReferralCode(p)) \/ CampaignChanges \/ UNCHANGED accountVars
  <2>1. /\ accounts' = accounts /\ welcomed' = welcomed /\ inviter' = inviter /\ bonus' = bonus
        /\ coded' \subseteq accounts /\ campaign' \in BOOLEAN
    BY <1>3 DEF ClaimReferralCode, CampaignChanges, accountVars, AccountsInv, AccountsTypeOK
  <2> QED BY <2>1 DEF AccountsInv, AccountsTypeOK, InvitationsMatchAccounts, BonusesPaidOnce, Invited
<1> QED BY <1>1, <1>2, <1>3 DEF AccountsNext

\* What anybody was given is one welcome, one bonus for having been invited and
\* one for each account invited (grant_welcome_bonus_if_needed,
\* apply_referral_bonus_for_new_account).
THEOREM AccountsArePaidOnce == AccountsSpec => []AccountsInv
BY AccountsInvInit, AccountsInvPreserved, PTL DEF AccountsSpec

----------------------------------------------------------------------------
(* Which steps write which table *)

CodeStep ==
    \/ \E p \in EmailUsers, purpose \in Purposes :
           SendCode(p, purpose) \/ RefuseCode(p, purpose) \/ \E h \in Handlers : AcceptCode(h, p, purpose)
    \/ \E n \in 1..CodeBound : CodeAges(n)

PasswordStep ==
    \/ \E h \in Handlers : LoginByCode(h) \/ \E n \in 1..TokenBound : CompleteReset(h, n)
    \/ \E p \in EmailUsers : WrongPassword(p) \/ LockPasses(p) \/ \E h \in Handlers : LoginByPassword(h, p)
    \/ \E n \in 1..SessionBound : WrongOldPassword(n) \/ \E others \in BOOLEAN : SetPassword(n, others)

TokenStep ==
    \/ \E h \in Handlers : HandOutToken(h) \/ \E n \in 1..TokenBound : CompleteReset(h, n)
    \/ \E n \in 1..TokenBound : TokenGrowsLate(n)

StateStep ==
    \E x \in States : StartOAuth(x) \/ StateGrowsLate(x) \/ \E h \in Handlers : AcceptState(h, x)

SessionStep ==
    \/ \E h \in Handlers : CreateSession(h) \/ \E n \in 1..TokenBound : CompleteReset(h, n)
    \/ \E n \in 1..SessionBound : EndSession(n) \/ \E others \in BOOLEAN : SetPassword(n, others)
    \/ \E p \in People : EndAllSessions(p)

OvertakeStep ==
    \/ \E p \in People : EndAllSessions(p)
    \/ \E n \in 1..SessionBound, others \in BOOLEAN : SetPassword(n, others)
    \/ \E n \in 1..TokenBound, h \in Handlers : CompleteReset(h, n)

HandlerMoves ==
    \/ \E h \in Handlers :
           \/ HandlerStep(h)
           \/ \E p \in EmailUsers : LoginByPassword(h, p) \/ \E purpose \in Purposes : AcceptCode(h, p, purpose)
           \/ \E n \in 1..TokenBound : CompleteReset(h, n)
           \/ \E x \in States : AcceptState(h, x)
    \/ \E p \in People : EndAllSessions(p)
    \/ \E n \in 1..SessionBound, others \in BOOLEAN : SetPassword(n, others)
    \/ Crash

LEMMA WhoWritesWhat ==
    ASSUME [SignInNext]_signInVars
    PROVE  /\ CodeStep \/ UNCHANGED code
           /\ PasswordStep \/ UNCHANGED password
           /\ TokenStep \/ UNCHANGED token
           /\ StateStep \/ UNCHANGED oauth
           /\ SessionStep \/ UNCHANGED session
           /\ HandlerMoves \/ UNCHANGED handler
           /\ OvertakeStep \/ UNCHANGED overtaken
<1> DEFINE Goal == /\ CodeStep \/ UNCHANGED code
                   /\ PasswordStep \/ UNCHANGED password
                   /\ TokenStep \/ UNCHANGED token
                   /\ StateStep \/ UNCHANGED oauth
                   /\ SessionStep \/ UNCHANGED session
                   /\ HandlerMoves \/ UNCHANGED handler
                   /\ OvertakeStep \/ UNCHANGED overtaken
<1>1. ASSUME NEW h \in Handlers, HandlerStep(h) PROVE Goal
  <2>1. HandlerMoves
    BY <1>1 DEF HandlerMoves
  <2>2. CASE RegisterAccount(h) \/ DiscordAnswers(h) \/ DiscordFails(h)
    BY <2>1, <2>2 DEF RegisterAccount, DiscordAnswers, DiscordFails, authVars
  <2>3. CASE LoginByCode(h)
    BY <2>1, <2>3 DEF LoginByCode, PasswordStep
  <2>4. CASE HandOutToken(h)
    BY <2>1, <2>4 DEF HandOutToken, TokenStep
  <2>5. CASE CreateSession(h)
    BY <2>1, <2>5 DEF CreateSession, SessionStep
  <2> QED BY <1>1, <2>2, <2>3, <2>4, <2>5 DEF HandlerStep
<1>2. ASSUME NEW p \in EmailUsers, EmailRequest(p) PROVE Goal
  <2>1. ASSUME NEW purpose \in Purposes, SendCode(p, purpose) \/ RefuseCode(p, purpose) PROVE Goal
    BY <2>1 DEF SendCode, RefuseCode, CodeStep
  <2>2. ASSUME NEW purpose \in Purposes, NEW h \in Handlers, AcceptCode(h, p, purpose) PROVE Goal
    <3>1. CodeStep /\ HandlerMoves
      BY <2>2 DEF CodeStep, HandlerMoves
    <3> QED BY <2>2, <3>1 DEF AcceptCode
  <2>3. ASSUME NEW h \in Handlers, LoginByPassword(h, p) PROVE Goal
    <3>1. PasswordStep /\ HandlerMoves
      BY <2>3 DEF PasswordStep, HandlerMoves
    <3> QED BY <2>3, <3>1 DEF LoginByPassword
  <2>4. CASE WrongPassword(p) \/ LockPasses(p)
    BY <2>4 DEF WrongPassword, LockPasses, PasswordStep
  <2> QED BY <1>2, <2>1, <2>2, <2>3, <2>4 DEF EmailRequest
<1>3. ASSUME NEW p \in People, EndAllSessions(p) PROVE Goal
  <2>1. SessionStep /\ HandlerMoves /\ OvertakeStep
    BY <1>3 DEF SessionStep, HandlerMoves, OvertakeStep
  <2> QED BY <1>3, <2>1 DEF EndAllSessions
<1>4. ASSUME NEW n \in 1..SessionBound, SessionRequest(n) PROVE Goal
  <2>1. CASE EndSession(n)
    BY <2>1 DEF EndSession, SessionStep
  <2>2. CASE WrongOldPassword(n)
    BY <2>2 DEF WrongOldPassword, PasswordStep
  <2>3. ASSUME NEW others \in BOOLEAN, SetPassword(n, others) PROVE Goal
    <3>1. PasswordStep /\ SessionStep /\ HandlerMoves /\ OvertakeStep
      BY <2>3 DEF PasswordStep, SessionStep, HandlerMoves, OvertakeStep
    <3> QED BY <2>3, <3>1 DEF SetPassword
  <2> QED BY <1>4, <2>1, <2>2, <2>3 DEF SessionRequest
<1>5. ASSUME NEW n \in 1..CodeBound, CodeAges(n) PROVE Goal
  BY <1>5 DEF CodeAges, CodeStep
<1>6. ASSUME NEW n \in 1..TokenBound, TokenGrowsLate(n) PROVE Goal
  BY <1>6 DEF TokenGrowsLate, TokenStep
<1>7. ASSUME NEW n \in 1..TokenBound, NEW h \in Handlers, CompleteReset(h, n) PROVE Goal
  <2>1. PasswordStep /\ TokenStep /\ SessionStep /\ HandlerMoves /\ OvertakeStep
    BY <1>7 DEF PasswordStep, TokenStep, SessionStep, HandlerMoves, OvertakeStep
  <2> QED BY <1>7, <2>1 DEF CompleteReset
<1>8. ASSUME NEW x \in States, StartOAuth(x) \/ StateGrowsLate(x) PROVE Goal
  BY <1>8 DEF StartOAuth, StateGrowsLate, StateStep
<1>9. ASSUME NEW x \in States, NEW h \in Handlers, AcceptState(h, x) PROVE Goal
  <2>1. StateStep /\ HandlerMoves
    BY <1>9 DEF StateStep, HandlerMoves
  <2> QED BY <1>9, <2>1 DEF AcceptState
<1>10. CASE Crash
  BY <1>10 DEF Crash, HandlerMoves, authVars
<1>11. CASE AccountRequest
  BY <1>11 DEF AccountRequest, authVars
<1>12. CASE UNCHANGED signInVars
  BY <1>12 DEF signInVars
<1> QED BY <1>1, <1>2, <1>3, <1>4, <1>5, <1>6, <1>7, <1>8, <1>9, <1>10, <1>11, <1>12 DEF SignInNext

\* Seen from the accounts, every step makes one, does what one may ask, or
\* changes nothing.
LEMMA SignInStepIsAccountStep ==
    ASSUME [SignInNext]_signInVars
    PROVE  [AccountsNext]_accountVars
<1>1. ASSUME NEW h \in Handlers, HandlerStep(h) PROVE [AccountsNext]_accountVars
  <2>1. CASE RegisterAccount(h)
    BY <2>1 DEF RegisterAccount, AccountsNext, NewEmailAccount
  <2>2. CASE DiscordAnswers(h)
    BY <2>2 DEF DiscordAnswers, AccountsNext, NewDiscordAccount
  <2>3. CASE LoginByCode(h) \/ HandOutToken(h) \/ CreateSession(h) \/ DiscordFails(h)
    BY <2>3 DEF LoginByCode, HandOutToken, CreateSession, DiscordFails
  <2> QED BY <1>1, <2>1, <2>2, <2>3 DEF HandlerStep
<1>2. ASSUME NEW p \in EmailUsers, EmailRequest(p) PROVE UNCHANGED accountVars
  BY <1>2 DEF EmailRequest, SendCode, RefuseCode, AcceptCode, LoginByPassword, WrongPassword, LockPasses
<1>3. ASSUME NEW n \in 1..SessionBound, SessionRequest(n) PROVE UNCHANGED accountVars
  BY <1>3 DEF SessionRequest, EndSession, WrongOldPassword, SetPassword
<1>4. CASE AccountRequest
  BY <1>4 DEF AccountRequest, AccountsNext
<1>5. ASSUME NEW n \in 1..TokenBound, TokenGrowsLate(n) \/ \E h \in Handlers : CompleteReset(h, n)
      PROVE  UNCHANGED accountVars
  BY <1>5 DEF TokenGrowsLate, CompleteReset
<1>6. ASSUME NEW x \in States, StartOAuth(x) \/ StateGrowsLate(x) \/ \E h \in Handlers : AcceptState(h, x)
      PROVE  UNCHANGED accountVars
  BY <1>6 DEF StartOAuth, StateGrowsLate, AcceptState
<1>7. CASE (\E p \in People : EndAllSessions(p)) \/ (\E n \in 1..CodeBound : CodeAges(n)) \/ Crash
  BY <1>7 DEF EndAllSessions, CodeAges, Crash
<1>8. CASE UNCHANGED signInVars
  BY <1>8 DEF signInVars
<1> QED BY <1>1, <1>2, <1>3, <1>4, <1>5, <1>6, <1>7, <1>8 DEF SignInNext

\* Signing in implements Accounts: however handlers interleave and crash, an
\* account is made in one step of create_email_account or discord_callback.
THEOREM SignInImplementsAccounts == SignInSpec => SignInMakesAccounts
<1>1. SignInInit => AccountsInit
  BY DEF SignInInit
<1>2. [SignInNext]_signInVars => [AccountsNext]_accountVars
  BY SignInStepIsAccountStep
<1> QED BY <1>1, <1>2, PTL DEF SignInSpec, SignInMakesAccounts, AccountsSpec

\* Bonuses are paid once, whichever way of signing in makes the account.
THEOREM SignInPaysBonusesOnce == SignInSpec => []BonusesPaidOnce
<1>1. AccountsInv => BonusesPaidOnce
  BY DEF AccountsInv
<1> QED BY <1>1, SignInImplementsAccounts, AccountsArePaidOnce, PTL DEF SignInMakesAccounts

----------------------------------------------------------------------------
(* Handlers *)

\* One handler at a time moves, while no other has the loop, to a row that is
\* in order; handlers that wait for the network may be outdated with it.
LEMMA HandlersPreserved ==
    ASSUME SignInTypeOK, HandlersKnown, SecretsKnown, [SignInNext]_signInVars
    PROVE  handler' \in [Handlers -> Handler] /\ HandlersKnown'
<1> DEFINE Goal == handler' \in [Handlers -> Handler] /\ HandlersKnown'
<1> USE DEF Handler
<1>1. handler \in [Handlers -> Handler] /\ EmailUsers \subseteq People /\ DiscordUsers \subseteq People
  BY DEF SignInTypeOK, People
<1>2. ASSUME NEW h \in Handlers, NEW row \in Handler, handler' = [handler EXCEPT ![h] = row],
             row.pc \in {"register", "login", "reset"} => row.owner \in EmailUsers,
             row.pc = "network" => row.owner \in DiscordUsers,
             row.pc = "session" => row.owner \in People,
             row.pc = "idle" => row.owner = Nobody,
             row.owner \in EmailUsers => row.current
      PROVE  Goal
  BY <1>1, <1>2 DEF HandlersKnown
<1>3. ASSUME NEW h \in Handlers, Stop(h) PROVE Goal
  <2>1. /\ IdleHandler \in Handler /\ IdleHandler.pc = "idle"
        /\ IdleHandler.owner = Nobody /\ Nobody \notin EmailUsers
    BY AccountsConstants DEF IdleHandler, People
  <2> QED BY <1>2, <1>3, <2>1 DEF Stop
<1>4. ASSUME NEW h \in Handlers, NEW pc \in {"register", "login", "reset", "network", "session"}, NEW p, Goto(h, pc, p),
             pc \in {"register", "login", "reset"} => p \in EmailUsers,
             pc = "network" => p \in DiscordUsers, pc = "session" => p \in People
      PROVE  Goal
  <2> DEFINE row == [pc |-> pc, owner |-> p, current |-> TRUE]
  <2>1. row \in Handler /\ row.pc = pc /\ row.owner = p /\ row.current
    BY <1>1, <1>4
  <2>2. handler' = [handler EXCEPT ![h] = row]
    BY <1>4 DEF Goto
  <2> HIDE DEF row
  <2> QED BY <1>2, <1>4, <2>1, <2>2
<1>15. ASSUME LoopFree, NEW g \in Handlers PROVE handler[g].owner \notin EmailUsers
  BY <1>15, AccountsConstants DEF LoopFree, HandlersKnown, People
<1>5. ASSUME NEW p, LoopFree, handler' = Outdated(p) PROVE Goal
  <2>1. \A g \in Handlers : /\ handler'[g].pc = handler[g].pc /\ handler[g].pc \in {"idle", "network"}
                            /\ handler'[g].owner = handler[g].owner /\ handler'[g] \in Handler
    BY <1>1, <1>5 DEF Outdated, LoopFree
  <2>2. handler' \in [Handlers -> Handler]
    BY <1>5, <2>1 DEF Outdated
  <2> QED BY <1>5, <1>15, <2>1, <2>2 DEF HandlersKnown
<1>6. ASSUME NEW h \in Handlers, HandlerStep(h) PROVE Goal
  <2> DEFINE p == handler[h].owner
  <2>1. CASE RegisterAccount(h)
    <3>1. p \in People
      BY <1>1, <2>1 DEF RegisterAccount, HandlersKnown
    <3>2. Stop(h) \/ Goto(h, "session", p)
      BY <2>1 DEF RegisterAccount
    <3> QED BY <1>3, <1>4, <3>1, <3>2
  <2>2. CASE LoginByCode(h)
    <3>1. p \in People
      BY <1>1, <2>2 DEF LoginByCode, HandlersKnown
    <3>2. Stop(h) \/ Goto(h, "session", p)
      BY <2>2 DEF LoginByCode
    <3> QED BY <1>3, <1>4, <3>1, <3>2
  <2>3. CASE DiscordAnswers(h)
    <3> DEFINE row == [handler[h] EXCEPT !.pc = "session"]
    <3>1. p \in DiscordUsers /\ p \in People /\ p \notin EmailUsers
      BY <1>1, <2>3, AccountsConstants DEF DiscordAnswers, HandlersKnown
    <3>2. row \in Handler /\ row.pc = "session" /\ row.owner = p /\ handler' = [handler EXCEPT ![h] = row]
      BY <1>1, <2>3, <3>1 DEF DiscordAnswers
    <3> HIDE DEF row
    <3> QED BY <1>2, <3>1, <3>2
  <2>4. CASE HandOutToken(h) \/ CreateSession(h) \/ DiscordFails(h)
    BY <1>3, <2>4 DEF HandOutToken, CreateSession, DiscordFails
  <2> QED BY <1>6, <2>1, <2>2, <2>3, <2>4 DEF HandlerStep
<1>7. ASSUME NEW h \in Handlers, NEW p \in EmailUsers, LoginByPassword(h, p) PROVE Goal
  <2>1. Goto(h, "session", p) /\ p \in People
    BY <1>1, <1>7 DEF LoginByPassword
  <2> QED BY <1>4, <2>1
<1>8. ASSUME NEW h \in Handlers, NEW p \in EmailUsers, NEW purpose \in Purposes, AcceptCode(h, p, purpose) PROVE Goal
  <2>1. Goto(h, purpose, p) /\ purpose \in {"register", "login", "reset"}
    BY <1>8 DEF AcceptCode, Purposes
  <2> QED BY <1>4, <2>1
<1>9. ASSUME NEW h \in Handlers, NEW n \in 1..TokenBound, CompleteReset(h, n) PROVE Goal
  <2> DEFINE p == token[n].email
             row == [pc |-> "session", owner |-> p, current |-> TRUE]
  <2>1. p \in People /\ LoopFree
    BY <1>1, <1>9 DEF CompleteReset, Begin, SecretsKnown
  <2>2. row \in Handler /\ row.pc = "session" /\ row.owner = p /\ row.current
    BY <2>1
  <2>3. handler' = [Outdated(p) EXCEPT ![h] = row]
    BY <1>9 DEF CompleteReset
  <2> HIDE DEF row
  <2>4. \A g \in Handlers : /\ Outdated(p)[g].pc = handler[g].pc /\ handler[g].pc \in {"idle", "network"}
                            /\ Outdated(p)[g].owner = handler[g].owner /\ Outdated(p)[g] \in Handler
    BY <1>1, <2>1 DEF Outdated, LoopFree
  <2>5. Outdated(p) \in [Handlers -> Handler]
    BY <2>4 DEF Outdated
  <2>6. \A g \in Handlers : handler'[g] = IF g = h THEN row ELSE Outdated(p)[g]
    BY <2>3, <2>5
  <2>7. handler' \in [Handlers -> Handler]
    BY <2>2, <2>3, <2>5
  <2> HIDE DEF p
  <2> QED BY <1>15, <2>1, <2>2, <2>4, <2>6, <2>7 DEF HandlersKnown
<1>10. ASSUME NEW h \in Handlers, NEW x \in States, AcceptState(h, x) PROVE Goal
  <2>1. PICK p \in DiscordUsers : Goto(h, "network", p)
    BY <1>10 DEF AcceptState
  <2> QED BY <1>1, <1>4, <2>1
<1>11. ASSUME NEW p \in People, EndAllSessions(p) PROVE Goal
  BY <1>5, <1>11 DEF EndAllSessions
<1>12. ASSUME NEW n \in 1..SessionBound, NEW others \in BOOLEAN, SetPassword(n, others) PROVE Goal
  <2>1. LoopFree /\ (handler' = Outdated(session[n].owner) \/ UNCHANGED handler)
    BY <1>12 DEF SetPassword
  <2> QED BY <1>1, <1>5, <2>1 DEF HandlersKnown
<1>13. ASSUME Crash PROVE Goal
  BY <1>13, AccountsConstants DEF Crash, IdleHandler, HandlersKnown, People
<1>14. ASSUME UNCHANGED handler PROVE Goal
  BY <1>1, <1>14 DEF HandlersKnown
<1> HIDE DEF Goal
<1>17. HandlerMoves \/ UNCHANGED handler
  BY WhoWritesWhat
<1>16. ASSUME HandlerMoves PROVE Goal
  BY <1>6, <1>7, <1>8, <1>9, <1>10, <1>11, <1>12, <1>13, <1>16 DEF HandlerMoves
<1> QED BY <1>14, <1>16, <1>17 DEF Goal

----------------------------------------------------------------------------
(* Codes, tokens and OAuth states *)

\* What the invariants say of each table alone.
CodesSafe ==
    /\ code \in [1..CodeBound -> Code]
    /\ FilledInOrder(code)
    /\ \A n \in 1..CodeBound :
          /\ code[n].status = "none" => code[n].email = Nobody
          /\ code[n].status = "open" => code[n].email \in EmailUsers
          /\ code[n].status # "consumed" => code[n].admitted = 0
          /\ code[n].admitted <= 1
    /\ \A m, n \in 1..CodeBound :
          /\ m < n
          /\ code[n].email # Nobody
          /\ code[m].email = code[n].email /\ code[m].purpose = code[n].purpose
          => ~(code[m].status = "open" /\ code[m].age = "fresh")

TokensSafe ==
    /\ token \in [1..TokenBound -> Token]
    /\ FilledInOrder(token)
    /\ \A n \in 1..TokenBound :
          /\ token[n].status = "none" => token[n].email = Nobody
          /\ token[n].status = "open" => token[n].email \in EmailUsers
          /\ token[n].status # "used" => token[n].admitted = 0
          /\ token[n].admitted <= 1
    /\ \A m, n \in 1..TokenBound :
          m < n /\ token[n].email # Nobody /\ token[m].email = token[n].email => token[m].status # "open"

StatesSafe ==
    /\ oauth \in [States -> [status : {"none", "open", "used"}, admitted : 0..2]]
    /\ \A x \in States : oauth[x].admitted <= 1 /\ (oauth[x].status # "used" => oauth[x].admitted = 0)

\* A code that was sent before does not become fresh or open again, and keeps
\* its address.
LEMMA CodesAgePreserves ==
    ASSUME CodesSafe, code' \in [1..CodeBound -> Code],
           \A n \in 1..CodeBound :
              /\ code'[n].email = code[n].email /\ code'[n].purpose = code[n].purpose
              /\ code'[n].status = "none" <=> code[n].status = "none"
              /\ code'[n].status = "open" => code[n].status = "open"
              /\ code'[n].age = "fresh" => code[n].age = "fresh"
              /\ code'[n].admitted <= 1
              /\ code'[n].status # "consumed" => code'[n].admitted = 0
    PROVE  CodesSafe'
<1>1. FilledInOrder(code)'
  BY DEF CodesSafe, FilledInOrder
<1> QED BY <1>1 DEF CodesSafe

LEMMA CodesPreserved == ASSUME CodesSafe, CodeStep \/ UNCHANGED code PROVE CodesSafe'
<1>1. code \in [1..CodeBound -> Code]
  BY DEF CodesSafe
<1>2. ASSUME NEW p \in EmailUsers, NEW purpose \in Purposes, SendCode(p, purpose) PROVE CodesSafe'
  <2>1. PICK n \in 1..CodeBound :
          /\ Next1(code, n)
          /\ code' = [m \in 1..CodeBound |->
                IF m = n THEN NewCode(p, purpose)
                ELSE IF code[m].email = p /\ code[m].purpose = purpose
                        /\ code[m].status = "open" /\ code[m].age = "fresh"
                     THEN [code[m] EXCEPT !.status = "consumed"]
                     ELSE code[m]]
    BY <1>2 DEF SendCode
  <2> DEFINE row == NewCode(p, purpose)
             Superseded(m) == code[m].email = p /\ code[m].purpose = purpose
                              /\ code[m].status = "open" /\ code[m].age = "fresh"
  <2>2. /\ row \in Code /\ row.email = p /\ row.purpose = purpose /\ row.status = "open" /\ row.admitted = 0
    <3>1. row = [email |-> p, purpose |-> purpose, status |-> "open", age |-> "fresh", failed |-> 0, admitted |-> 0]
      BY DEF NewCode
    <3>2. 0 \in 0..MaxCodeAttempts /\ 0 \in 0..2
      BY SignInConstants
    <3> HIDE DEF row
    <3> QED BY <3>1, <3>2 DEF Code
  <2>3. \A m \in 1..CodeBound : m # n =>
           /\ code'[m] \in Code
           /\ code'[m].email = code[m].email /\ code'[m].purpose = code[m].purpose
           /\ code'[m].age = code[m].age /\ code'[m].admitted = code[m].admitted
           /\ code'[m].status = IF Superseded(m) THEN "consumed" ELSE code[m].status
    BY <1>1, <2>1 DEF Code
  <2>4. code'[n] = row
    BY <2>1
  <2>5. /\ DOMAIN code' = 1..CodeBound /\ DOMAIN code = 1..CodeBound /\ code' \in [1..CodeBound -> Code]
    BY <1>1, <2>1, <2>2, <2>3, <2>4
  <2> HIDE DEF row
  <2>6. \A m \in 1..CodeBound : /\ m < n => code[m].status # "none"
                                /\ m >= n => code[m].status = "none"
    <3>1. code[n].status = "none" /\ \A m \in 1..CodeBound : m < n => code[m].status # "none"
      BY <2>1, <2>5 DEF Next1
    <3>2. \A m \in 1..CodeBound : m > n => code[m].status = "none"
      BY <2>5, <3>1 DEF CodesSafe, FilledInOrder
    <3> QED BY <3>1, <3>2
  <2>7. FilledInOrder(code)'
    BY <2>2, <2>3, <2>4, <2>5, <2>6 DEF FilledInOrder
  <2>8. \A m \in 1..CodeBound :
          /\ code'[m].status = "none" => code'[m].email = Nobody
          /\ code'[m].status = "open" => code'[m].email \in EmailUsers
          /\ code'[m].status # "consumed" => code'[m].admitted = 0
          /\ code'[m].admitted <= 1
    BY <2>2, <2>3, <2>4 DEF CodesSafe
  <2>9. ASSUME NEW k \in 1..CodeBound, NEW m \in 1..CodeBound, k < m, code'[m].email # Nobody,
               code'[k].email = code'[m].email, code'[k].purpose = code'[m].purpose
        PROVE  ~(code'[k].status = "open" /\ code'[k].age = "fresh")
    <3>1. CASE m = n
      BY <2>2, <2>3, <2>4, <2>9, <3>1
    <3>2. CASE m < n
      BY <2>3, <2>9, <3>2 DEF CodesSafe
    <3>3. CASE m > n
      BY <2>3, <2>6, <2>9, <3>3 DEF CodesSafe
    <3> QED BY <3>1, <3>2, <3>3
  <2> QED BY <2>5, <2>7, <2>8, <2>9 DEF CodesSafe
<1>3. ASSUME NEW p \in EmailUsers, NEW purpose \in Purposes, NEW h \in Handlers, AcceptCode(h, p, purpose) PROVE CodesSafe'
  <2>1. PICK n \in 1..CodeBound : /\ code[n].status = "open"
                                  /\ code' = [code EXCEPT ![n].status = "consumed", ![n].admitted = @ + 1]
    BY <1>3 DEF AcceptCode, Newest
  <2>2. code[n].admitted = 0
    BY <2>1 DEF CodesSafe
  <2>3. code' \in [1..CodeBound -> Code]
    BY <1>1, <2>1, <2>2 DEF Code
  <2> QED BY <1>1, <2>1, <2>2, <2>3, CodesAgePreserves DEF CodesSafe, Code
<1>4. ASSUME NEW p \in EmailUsers, NEW purpose \in Purposes, RefuseCode(p, purpose) PROVE CodesSafe'
  <2>1. PICK n \in 1..CodeBound :
          /\ code[n].status = "open"
          /\ code' = IF Usable(n) THEN [code EXCEPT ![n].failed = @ + 1] ELSE [code EXCEPT ![n].status = "consumed"]
    BY <1>4 DEF RefuseCode, Newest
  <2>2. code' \in [1..CodeBound -> Code]
    <3>1. CASE Usable(n)
      <4>1. code[n].failed + 1 \in 0..MaxCodeAttempts
        BY <1>1, <3>1, SignInConstants DEF Usable, Code
      <4> QED BY <1>1, <2>1, <3>1, <4>1 DEF Code
    <3>2. CASE ~Usable(n)
      BY <1>1, <2>1, <3>2 DEF Code
    <3> QED BY <3>1, <3>2
  <2> QED BY <1>1, <2>1, <2>2, CodesAgePreserves DEF CodesSafe, Code
<1>5. ASSUME NEW n \in 1..CodeBound, CodeAges(n) PROVE CodesSafe'
  <2>1. code' \in [1..CodeBound -> Code]
    BY <1>1, <1>5 DEF CodeAges, Code
  <2> QED BY <1>1, <1>5, <2>1, CodesAgePreserves DEF CodeAges, CodesSafe, Code
<1>6. ASSUME UNCHANGED code PROVE CodesSafe'
  BY <1>6 DEF CodesSafe, FilledInOrder
<1> QED BY <1>2, <1>3, <1>4, <1>5, <1>6 DEF CodeStep

LEMMA TokensPreserved ==
    ASSUME TokensSafe, HandlersKnown, TokenStep \/ UNCHANGED token
    PROVE  TokensSafe'
<1>1. token \in [1..TokenBound -> Token]
  BY DEF TokensSafe
<1>2. ASSUME NEW h \in Handlers, HandOutToken(h) PROVE TokensSafe'
  <2> DEFINE p == handler[h].owner
             row == NewToken(p)
  <2>1. PICK n \in 1..TokenBound :
          /\ Next1(token, n)
          /\ token' = [m \in 1..TokenBound |->
                IF m = n THEN row
                ELSE IF token[m].email = p THEN [token[m] EXCEPT !.status = "used"] ELSE token[m]]
    BY <1>2 DEF HandOutToken
  <2>2. p \in EmailUsers
    BY <1>2 DEF HandOutToken, HandlersKnown
  <2>3. row \in Token /\ row.email = p /\ row.status = "open" /\ row.admitted = 0
    BY <2>2 DEF NewToken, Token
  <2> HIDE DEF row, p
  <2>4. \A m \in 1..TokenBound : m # n =>
           /\ token'[m] \in Token /\ token'[m].email = token[m].email
           /\ token'[m].admitted = token[m].admitted
           /\ token'[m].status = IF token[m].email = p THEN "used" ELSE token[m].status
    BY <1>1, <2>1 DEF Token
  <2>5. token'[n] = row /\ token' \in [1..TokenBound -> Token]
    BY <1>1, <2>1, <2>3, <2>4
  <2>6. \A m \in 1..TokenBound : /\ m < n => token[m].status # "none"
                                 /\ m >= n => token[m].status = "none"
    <3>1. token[n].status = "none" /\ \A m \in 1..TokenBound : m < n => token[m].status # "none"
      BY <1>1, <2>1 DEF Next1
    <3>2. \A m \in 1..TokenBound : m > n => token[m].status = "none"
      BY <1>1, <3>1 DEF TokensSafe, FilledInOrder
    <3> QED BY <3>1, <3>2
  <2>7. \A m \in 1..TokenBound : token[m].status = "none" => token[m].email # p
    BY <2>2, AccountsConstants DEF TokensSafe, People
  <2>8. FilledInOrder(token)'
    BY <1>1, <2>3, <2>4, <2>5, <2>6, <2>7 DEF FilledInOrder
  <2>9. \A m \in 1..TokenBound :
          /\ token'[m].status = "none" => token'[m].email = Nobody
          /\ token'[m].status = "open" => token'[m].email \in EmailUsers
          /\ token'[m].status # "used" => token'[m].admitted = 0
          /\ token'[m].admitted <= 1
    BY <2>2, <2>3, <2>4, <2>5 DEF TokensSafe
  <2>10. ASSUME NEW k \in 1..TokenBound, NEW m \in 1..TokenBound, k < m, token'[m].email # Nobody,
                token'[k].email = token'[m].email
         PROVE  token'[k].status # "open"
    <3>1. CASE m = n
      BY <2>3, <2>4, <2>5, <2>10, <3>1
    <3>2. CASE m < n
      BY <2>4, <2>10, <3>2 DEF TokensSafe
    <3>3. CASE m > n
      BY <2>4, <2>6, <2>10, <3>3 DEF TokensSafe
    <3> QED BY <3>1, <3>2, <3>3
  <2> QED BY <2>5, <2>8, <2>9, <2>10 DEF TokensSafe
<1>3. ASSUME NEW n \in 1..TokenBound, token[n].status = "open", token' \in [1..TokenBound -> Token],
             \A m \in 1..TokenBound : m # n => token'[m] = token[m],
             token'[n].status = "used", token'[n].email = token[n].email, token'[n].admitted <= 1
      PROVE  TokensSafe'
  <2>1. FilledInOrder(token)'
    BY <1>1, <1>3 DEF TokensSafe, FilledInOrder
  <2> QED BY <1>3, <2>1 DEF TokensSafe
<1>4. ASSUME NEW n \in 1..TokenBound, NEW h \in Handlers, CompleteReset(h, n) PROVE TokensSafe'
  <2>1. token[n].status = "open" /\ token[n].admitted = 0
        /\ token' = [token EXCEPT ![n].status = "used", ![n].admitted = @ + 1]
    BY <1>4 DEF CompleteReset, TokensSafe
  <2>2. /\ token' \in [1..TokenBound -> Token] /\ \A m \in 1..TokenBound : m # n => token'[m] = token[m]
        /\ token'[n].status = "used" /\ token'[n].email = token[n].email /\ token'[n].admitted <= 1
    BY <1>1, <2>1 DEF Token
  <2> QED BY <1>3, <2>1, <2>2
<1>5. ASSUME NEW n \in 1..TokenBound, TokenGrowsLate(n) PROVE TokensSafe'
  <2>1. token[n].status = "open" /\ token[n].admitted = 0 /\ token' = [token EXCEPT ![n].status = "used"]
    BY <1>5 DEF TokenGrowsLate, TokensSafe
  <2>2. /\ token' \in [1..TokenBound -> Token] /\ \A m \in 1..TokenBound : m # n => token'[m] = token[m]
        /\ token'[n].status = "used" /\ token'[n].email = token[n].email /\ token'[n].admitted <= 1
    BY <1>1, <2>1 DEF Token
  <2> QED BY <1>3, <2>1, <2>2
<1>6. ASSUME UNCHANGED token PROVE TokensSafe'
  BY <1>6 DEF TokensSafe, FilledInOrder
<1> QED BY <1>2, <1>4, <1>5, <1>6 DEF TokenStep

LEMMA StatesPreserved == ASSUME StatesSafe, StateStep \/ UNCHANGED oauth PROVE StatesSafe'
<1>1. ASSUME NEW x \in States, StartOAuth(x) \/ StateGrowsLate(x) \/ \E h \in Handlers : AcceptState(h, x)
      PROVE  StatesSafe'
  <2>1. \/ oauth' = [oauth EXCEPT ![x].status = "open"] /\ oauth[x].admitted = 0
        \/ oauth' = [oauth EXCEPT ![x].status = "used"] /\ oauth[x].admitted = 0
        \/ oauth' = [oauth EXCEPT ![x].status = "used", ![x].admitted = @ + 1] /\ oauth[x].admitted = 0
    BY <1>1 DEF StartOAuth, StateGrowsLate, AcceptState, StatesSafe
  <2> QED BY <2>1 DEF StatesSafe
<1>2. ASSUME UNCHANGED oauth PROVE StatesSafe'
  BY <1>2 DEF StatesSafe
<1> QED BY <1>1, <1>2 DEF StateStep

----------------------------------------------------------------------------
(* Passwords *)

PasswordsSafe ==
    /\ password \in [EmailUsers -> Password]
    /\ GuessesKnown
    /\ GuessesBounded

\* A password row is written by itself, and either forgets everything, or counts
\* one guess, or lets a lock pass.
LEMMA PasswordRowKeepsSafe ==
    ASSUME PasswordsSafe, NEW p \in EmailUsers, NEW row \in Password,
           password' = [password EXCEPT ![p] = row],
           row.failed = row.guesses,
           row.guesses <= MaxFailed + row.unlocks,
           ~row.locked => row.guesses < MaxFailed + row.unlocks
    PROVE  PasswordsSafe'
BY DEF PasswordsSafe, GuessesKnown, GuessesBounded

LEMMA PasswordsPreserved ==
    ASSUME PasswordsSafe, HandlersKnown, TokensSafe, PasswordStep \/ UNCHANGED password
    PROVE  PasswordsSafe'
<1>1. \A p \in EmailUsers :
         /\ password[p] \in Password
         /\ password[p].failed \in Nat /\ password[p].guesses \in Nat /\ password[p].unlocks \in 0..UnlockBound
         /\ password[p].failed = password[p].guesses
         /\ password[p].guesses <= MaxFailed + password[p].unlocks
         /\ ~password[p].locked => password[p].guesses < MaxFailed + password[p].unlocks
  BY DEF PasswordsSafe, GuessesKnown, GuessesBounded, Password
<1>2. ASSUME NEW p \in EmailUsers, NEW set \in BOOLEAN,
             password' = [password EXCEPT ![p] = PasswordRow(set)]
      PROVE  PasswordsSafe'
  <2> DEFINE row == PasswordRow(set)
  <2>1. row = [set |-> set, failed |-> 0, locked |-> FALSE, guesses |-> 0, unlocks |-> 0]
    BY DEF PasswordRow
  <2>2. /\ row \in Password /\ row.failed = row.guesses
        /\ row.guesses <= MaxFailed + row.unlocks
        /\ ~row.locked => row.guesses < MaxFailed + row.unlocks
    BY <2>1, SignInConstants DEF Password
  <2> HIDE DEF row
  <2>3. password' = [password EXCEPT ![p] = row]
    BY <1>2 DEF row
  <2> QED BY <2>2, <2>3, PasswordRowKeepsSafe
<1>3. ASSUME NEW p \in EmailUsers, password' = [password EXCEPT ![p] = NewPassword] PROVE PasswordsSafe'
  BY <1>2, <1>3 DEF NewPassword
<1>4. ASSUME NEW p \in EmailUsers, ~password[p].locked, password' = Failed(p) PROVE PasswordsSafe'
  <2> DEFINE old == password[p]
             lock == old.failed + 1 >= MaxFailed
             row == [old EXCEPT !.failed = old.failed + 1, !.guesses = old.guesses + 1, !.locked = lock]
  <2>1. password' = [password EXCEPT ![p] = row]
    BY <1>4 DEF Failed
  <2>2. /\ old \in Password /\ old.failed \in Nat /\ old.guesses \in Nat /\ old.unlocks \in Nat
        /\ old.failed = old.guesses /\ old.guesses < MaxFailed + old.unlocks
    BY <1>1, <1>4
  <2>3. old.failed + 1 \in Nat /\ old.guesses + 1 \in Nat /\ lock \in BOOLEAN
    BY <2>2
  <2>4. old.failed + 1 = old.guesses + 1 /\ old.guesses + 1 <= MaxFailed + old.unlocks
    BY <2>2, SignInConstants
  <2>5. ~lock => old.guesses + 1 < MaxFailed + old.unlocks
    BY <2>2, SignInConstants
  <2> HIDE DEF old, lock
  <2>6. /\ row \in Password /\ row.failed = old.failed + 1 /\ row.guesses = old.guesses + 1
        /\ row.locked = lock /\ row.unlocks = old.unlocks
    BY <2>2, <2>3 DEF Password
  <2> HIDE DEF row
  <2>7. ~row.locked => row.guesses < MaxFailed + row.unlocks
    BY <2>5, <2>6
  <2>8. row.failed = row.guesses /\ row.guesses <= MaxFailed + row.unlocks
    BY <2>4, <2>6
  <2> QED BY <2>1, <2>6, <2>7, <2>8, PasswordRowKeepsSafe
<1>5. ASSUME NEW p \in EmailUsers, LockPasses(p) PROVE PasswordsSafe'
  <2> DEFINE old == password[p]
             row == [old EXCEPT !.locked = FALSE, !.unlocks = old.unlocks + 1]
  <2>1. password' = [password EXCEPT ![p] = row] /\ old.unlocks < UnlockBound
    BY <1>5 DEF LockPasses
  <2>2. /\ old \in Password /\ old.failed = old.guesses /\ old.guesses <= MaxFailed + old.unlocks
        /\ old.guesses \in Nat /\ old.unlocks \in 0..UnlockBound
    BY <1>1
  <2>3. old.unlocks + 1 \in 0..UnlockBound /\ old.guesses < MaxFailed + (old.unlocks + 1)
    BY <2>1, <2>2, SignInConstants
  <2> HIDE DEF old
  <2>4. /\ row \in Password /\ row.failed = old.failed /\ row.guesses = old.guesses
        /\ row.unlocks = old.unlocks + 1
    BY <2>2, <2>3 DEF Password
  <2> HIDE DEF row
  <2>5. row.failed = row.guesses /\ row.guesses < MaxFailed + row.unlocks
    BY <2>2, <2>3, <2>4
  <2>6. row.guesses <= MaxFailed + row.unlocks
    BY <2>2, <2>3, <2>4, SignInConstants
  <2> QED BY <2>1, <2>4, <2>5, <2>6, PasswordRowKeepsSafe
<1>6. ASSUME NEW h \in Handlers, LoginByCode(h) PROVE PasswordsSafe'
  <2>1. handler[h].owner \in EmailUsers
    BY <1>6 DEF LoginByCode, HandlersKnown
  <2>2. password[handler[h].owner].set \in BOOLEAN
    BY <1>1, <2>1 DEF Password
  <2> QED BY <1>2, <1>6, <2>1, <2>2 DEF LoginByCode, PasswordsSafe, GuessesKnown, GuessesBounded
<1>7. ASSUME NEW h \in Handlers, NEW n \in 1..TokenBound, CompleteReset(h, n) PROVE PasswordsSafe'
  BY <1>3, <1>7 DEF CompleteReset, TokensSafe
<1>8. ASSUME NEW p \in EmailUsers, WrongPassword(p) PROVE PasswordsSafe'
  BY <1>4, <1>8 DEF WrongPassword
<1>9. ASSUME NEW p \in EmailUsers, NEW h \in Handlers, LoginByPassword(h, p) PROVE PasswordsSafe'
  BY <1>3, <1>9 DEF LoginByPassword
<1>10. ASSUME NEW n \in 1..SessionBound, WrongOldPassword(n) PROVE PasswordsSafe'
  BY <1>4, <1>10 DEF WrongOldPassword
<1>11. ASSUME NEW n \in 1..SessionBound, NEW others \in BOOLEAN, SetPassword(n, others) PROVE PasswordsSafe'
  BY <1>3, <1>11 DEF SetPassword
<1>12. ASSUME UNCHANGED password PROVE PasswordsSafe'
  BY <1>12 DEF PasswordsSafe, GuessesKnown, GuessesBounded
<1> QED BY <1>5, <1>6, <1>7, <1>8, <1>9, <1>10, <1>11, <1>12 DEF PasswordStep

----------------------------------------------------------------------------
(* Sessions *)

SessionsSafe ==
    /\ session \in [1..SessionBound -> Session]
    /\ SessionsBounded

LEMMA ActiveFinite ==
    ASSUME NEW p PROVE IsFiniteSet(Active(p)) /\ Cardinality(Active(p)) \in Nat
<1>1. Active(p) \subseteq 1..SessionBound /\ IsFiniteSet(1..SessionBound)
  BY FS_Interval, SignInConstants DEF Active
<1> QED BY <1>1, FS_Subset, FS_CardinalityType

LEMMA PastSessionIsOver == PastSession \in Session /\ PastSession.status = "ended"
BY DEF PastSession, Session

\* Ending sessions adds none.
LEMMA EndingKeepsSessionsSafe ==
    ASSUME SessionsSafe, DOMAIN session' = 1..SessionBound,
           session' = [n \in 1..SessionBound |-> session'[n]],
           \A n \in 1..SessionBound : session'[n] = session[n] \/ session'[n] = PastSession
    PROVE  SessionsSafe'
<1>1. \A n \in 1..SessionBound :
         session'[n] \in Session /\ (session'[n].status = "active" => session'[n] = session[n])
  <2>1. ASSUME NEW n \in 1..SessionBound
        PROVE  session'[n] \in Session /\ (session'[n].status = "active" => session'[n] = session[n])
    <3>1. session[n] \in Session
      BY DEF SessionsSafe
    <3> QED BY <3>1, PastSessionIsOver
  <2> QED BY <2>1
<1>2. session' \in [1..SessionBound -> Session]
  BY <1>1
<1>4. ASSUME NEW p \in People PROVE Cardinality(Active(p)') <= MaxSessions
  <2>1. Active(p)' \subseteq Active(p)
    BY <1>1 DEF Active
  <2>2. Cardinality(Active(p)') <= Cardinality(Active(p)) /\ Cardinality(Active(p)') \in Nat
    BY <2>1, ActiveFinite, FS_Subset, FS_CardinalityType
  <2>3. Cardinality(Active(p)) <= MaxSessions
    BY DEF SessionsSafe, SessionsBounded
  <2> QED BY <2>2, <2>3, ActiveFinite, SignInConstants
<1> QED BY <1>2, <1>4 DEF SessionsSafe, SessionsBounded

\* Of the sessions there were, fewer than the limit stay beside the new one.
LEMMA CreatingKeepsSessionsSafe ==
    ASSUME SessionsSafe, HandlersKnown, handler \in [Handlers -> Handler],
           NEW h \in Handlers, CreateSession(h)
    PROVE  SessionsSafe'
<1> DEFINE p == handler[h].owner
           row == [owner |-> p, status |-> "active", current |-> handler[h].current]
<1>1. PICK n \in 1..SessionBound, kept \in SUBSET Active(p) :
        /\ Cardinality(kept) < MaxSessions
        /\ session' = [m \in 1..SessionBound |->
              IF m = n THEN row ELSE IF m \in Active(p) \ kept THEN PastSession ELSE session[m]]
        /\ Next1(session, n)
  BY DEF CreateSession
<1>2. p \in People
  BY DEF CreateSession, HandlersKnown
<1>3. row.owner = p /\ row.status = "active"
  BY <1>2
<1>4. session[n].status = "none" /\ session \in [1..SessionBound -> Session]
  BY <1>1 DEF Next1, SessionsSafe
<1>5. \A q \in People : session[n].owner = q => n \notin Active(q)
  BY <1>4 DEF Active
<1>6. row \in Session
  <2>1. handler[h].current \in BOOLEAN
    BY DEF Handler
  <2> QED BY <1>2, <2>1 DEF Session
<1> HIDE DEF p, row
<1>7. /\ session'[n] = row
      /\ \A m \in 1..SessionBound : m # n =>
            session'[m] = IF m \in Active(p) \ kept THEN PastSession ELSE session[m]
  BY <1>1
<1>8. \A m \in 1..SessionBound : m # n =>
         session'[m] \in Session /\ (session'[m].status = "active" => session'[m] = session[m])
  <2>1. ASSUME NEW m \in 1..SessionBound, m # n
        PROVE  session'[m] \in Session /\ (session'[m].status = "active" => session'[m] = session[m])
    <3>1. session[m] \in Session /\ (session'[m] = session[m] \/ session'[m] = PastSession)
      BY <1>4, <1>7, <2>1
    <3> QED BY <3>1, PastSessionIsOver
  <2> QED BY <2>1
<1>10. ASSUME NEW q \in People PROVE Cardinality(Active(q)') <= MaxSessions
  <2>1. CASE q = p
    <3>1. Active(q)' \subseteq kept \cup {n}
      <4>1. ASSUME NEW m \in Active(q)', m # n PROVE m \in kept
        <5>1. m \in 1..SessionBound /\ session'[m].status = "active" /\ session'[m].owner = q
          BY <4>1 DEF Active
        <5>2. session'[m] = session[m] /\ m \notin Active(p) \ kept
          BY <1>7, <4>1, <5>1, PastSessionIsOver
        <5>3. m \in Active(p)
          BY <2>1, <5>1, <5>2 DEF Active
        <5> QED BY <5>2, <5>3
      <4> QED BY <4>1
    <3>2. IsFiniteSet(kept) /\ Cardinality(kept) \in Nat
      BY <1>1, ActiveFinite, FS_Subset, FS_CardinalityType
    <3>3. /\ IsFiniteSet(kept \cup {n}) /\ Cardinality(kept \cup {n}) <= Cardinality(kept) + 1
          /\ Cardinality(kept \cup {n}) \in Nat
      <4>1. Cardinality(kept \cup {n}) = IF n \in kept THEN Cardinality(kept) ELSE Cardinality(kept) + 1
        BY <3>2, FS_AddElement
      <4> QED BY <3>2, <4>1, FS_AddElement, FS_CardinalityType
    <3>4. Cardinality(Active(q)') <= Cardinality(kept \cup {n}) /\ Cardinality(Active(q)') \in Nat
      BY <3>1, <3>3, FS_Subset, FS_CardinalityType
    <3> QED BY <1>1, <2>1, <3>2, <3>3, <3>4, SignInConstants
  <2>2. CASE q # p
    <3>1. Active(q)' \subseteq Active(q)
      BY <1>3, <1>7, <1>8, <2>2 DEF Active
    <3>2. Cardinality(Active(q)') <= Cardinality(Active(q)) /\ Cardinality(Active(q)') \in Nat
      BY <3>1, ActiveFinite, FS_Subset, FS_CardinalityType
    <3>3. Cardinality(Active(q)) <= MaxSessions
      BY DEF SessionsSafe, SessionsBounded
    <3> QED BY <3>2, <3>3, ActiveFinite, SignInConstants
  <2> QED BY <2>1, <2>2
<1>11. session' \in [1..SessionBound -> Session]
  BY <1>1, <1>6, <1>7, <1>8
<1> QED BY <1>10, <1>11 DEF SessionsSafe, SessionsBounded

LEMMA SessionsPreserved ==
    ASSUME SessionsSafe, HandlersKnown, handler \in [Handlers -> Handler], SessionStep \/ UNCHANGED session
    PROVE  SessionsSafe'
<1>1. ASSUME NEW p, NEW keep, EndSessions(p, keep) PROVE SessionsSafe'
  BY <1>1, EndingKeepsSessionsSafe DEF EndSessions
<1>2. ASSUME NEW h \in Handlers, NEW n \in 1..TokenBound, CompleteReset(h, n) PROVE SessionsSafe'
  BY <1>1, <1>2 DEF CompleteReset
<1>3. ASSUME NEW n \in 1..SessionBound, EndSession(n) PROVE SessionsSafe'
  <2>1. session' = [session EXCEPT ![n] = PastSession] /\ session \in [1..SessionBound -> Session]
    BY <1>3 DEF EndSession, SessionsSafe
  <2> QED BY <2>1, EndingKeepsSessionsSafe
<1>4. ASSUME UNCHANGED session PROVE SessionsSafe'
  BY <1>4 DEF SessionsSafe, SessionsBounded, Active
<1>5. ASSUME NEW n \in 1..SessionBound, NEW others \in BOOLEAN, SetPassword(n, others) PROVE SessionsSafe'
  BY <1>1, <1>4, <1>5 DEF SetPassword
<1>6. ASSUME NEW p \in People, EndAllSessions(p) PROVE SessionsSafe'
  BY <1>1, <1>6 DEF EndAllSessions
<1> QED BY <1>2, <1>3, <1>4, <1>5, <1>6, CreatingKeepsSessionsSafe DEF SessionStep

----------------------------------------------------------------------------
(* What was proved before all sessions of an account were ended *)

OlderSafe == overtaken \in [People -> Nat] /\ OlderSignInsEnd

LEMMA OldFinite ==
    ASSUME NEW p
    PROVE  /\ IsFiniteSet(OldSessions(p)) /\ Cardinality(OldSessions(p)) \in Nat
           /\ IsFiniteSet(OldHandlers(p)) /\ Cardinality(OldHandlers(p)) \in Nat
           /\ IsFiniteSet(Waiting(p)) /\ Cardinality(Waiting(p)) \in Nat
<1>1. OldSessions(p) \subseteq 1..SessionBound /\ IsFiniteSet(1..SessionBound)
  BY FS_Interval, SignInConstants DEF OldSessions
<1>2. OldHandlers(p) \subseteq Handlers /\ Waiting(p) \subseteq Handlers
  BY DEF OldHandlers, Waiting
<1> QED BY <1>1, <1>2, HandlersFinite, FS_Subset, FS_CardinalityType

\* A step that outdates nothing and uses what is outdated for nothing new.
LEMMA FewerOldAreSafe ==
    ASSUME OlderSafe, UNCHANGED overtaken,
           \A p \in People : OldSessions(p)' \subseteq OldSessions(p) /\ OldHandlers(p)' \subseteq OldHandlers(p)
    PROVE  OlderSafe'
<1>1. ASSUME NEW p \in People
      PROVE  Cardinality(OldSessions(p)') + Cardinality(OldHandlers(p)') <= overtaken[p]
  <2>1. /\ Cardinality(OldSessions(p)') <= Cardinality(OldSessions(p)) /\ Cardinality(OldSessions(p)') \in Nat
        /\ Cardinality(OldHandlers(p)') <= Cardinality(OldHandlers(p)) /\ Cardinality(OldHandlers(p)') \in Nat
    BY OldFinite, FS_Subset, FS_CardinalityType
  <2>2. /\ Cardinality(OldSessions(p)) + Cardinality(OldHandlers(p)) <= overtaken[p]
        /\ overtaken[p] \in Nat
    BY DEF OlderSafe, OlderSignInsEnd
  <2> QED BY <2>1, <2>2, OldFinite
<1> QED BY <1>1 DEF OlderSafe, OlderSignInsEnd

\* While the loop is free, what is outdated with the sessions of p is just what
\* its callbacks that wait have proved.
LEMMA EndingKeepsOlderSafe ==
    ASSUME OlderSafe, SessionsSafe, HandlersKnown, handler \in [Handlers -> Handler], LoopFree,
           NEW p \in People, NEW keep, EndSessions(p, keep), keep = {} \/ p \in EmailUsers,
           \A g \in Handlers : \/ handler'[g] = Outdated(p)[g]
                               \/ handler'[g].owner = p /\ handler'[g].current
    PROVE  OlderSafe'
<1>1. overtaken' = [overtaken EXCEPT ![p] = Cardinality(Waiting(p))] /\ overtaken \in [People -> Nat]
  BY DEF EndSessions, OlderSafe
<1>2. overtaken' \in [People -> Nat]
  BY <1>1, OldFinite
<1>3. \A n \in 1..SessionBound :
         session'[n] = IF session[n].owner = p /\ n \notin keep THEN PastSession ELSE session[n]
  BY DEF EndSessions
<1>4. \A g \in Handlers : Outdated(p)[g] = IF handler[g].owner = p
                                            THEN [handler[g] EXCEPT !.current = FALSE]
                                            ELSE handler[g]
  BY DEF Outdated
<1>5. \A g \in Handlers : handler[g].owner = p => g \in Waiting(p)
  BY AccountsConstants DEF LoopFree, HandlersKnown, Waiting
<1>6. ASSUME p \in EmailUsers
      PROVE  Waiting(p) = {} /\ Cardinality(Waiting(p)) = 0 /\ OldSessions(p) = {}
  <2>1. Waiting(p) = {}
    BY <1>6, AccountsConstants DEF Waiting, HandlersKnown
  <2>2. Cardinality(OldSessions(p)) = 0
    BY <1>6, OldFinite DEF OlderSafe, OlderSignInsEnd
  <2> QED BY <2>1, <2>2, OldFinite, FS_EmptySet
<1>7. OldSessions(p)' = {}
  <2>1. ASSUME NEW n \in OldSessions(p)' PROVE FALSE
    <3>1. n \in 1..SessionBound /\ session'[n].owner = p /\ session'[n].status = "active" /\ ~session'[n].current
      BY DEF OldSessions
    <3>2. session'[n] = session[n]
      BY <1>3, <3>1, PastSessionIsOver
    <3>3. n \in keep /\ n \in OldSessions(p)
      BY <1>3, <3>1, <3>2, PastSessionIsOver DEF OldSessions
    <3> QED BY <1>6, <3>3
  <2> QED BY <2>1
<1>8. OldHandlers(p)' \subseteq Waiting(p)
  BY <1>4, <1>5 DEF OldHandlers, Handler
<1>9. ASSUME NEW q \in People, q # p
      PROVE  OldSessions(q)' \subseteq OldSessions(q) /\ OldHandlers(q)' \subseteq OldHandlers(q)
  <2>1. OldSessions(q)' \subseteq OldSessions(q)
    BY <1>3, PastSessionIsOver DEF OldSessions
  <2>2. ASSUME NEW g \in Handlers, handler'[g].owner = q, ~handler'[g].current
        PROVE  handler[g].owner = q /\ ~handler[g].current
    <3>1. handler[g] \in Handler /\ handler'[g] = Outdated(p)[g]
      BY <1>9, <2>2
    <3>2. CASE handler[g].owner = p
      <4>1. [handler[g] EXCEPT !.current = FALSE].owner = handler[g].owner
        BY <3>1 DEF Handler
      <4>2. handler'[g].owner = p
        BY <1>4, <3>1, <3>2, <4>1
      <4> QED BY <1>9, <2>2, <4>2
    <3>3. CASE handler[g].owner # p
      BY <1>4, <2>2, <3>1, <3>3
    <3> QED BY <3>2, <3>3
  <2>3. OldHandlers(q)' \subseteq OldHandlers(q)
    BY <2>2 DEF OldHandlers
  <2> QED BY <2>1, <2>3
<1>10. ASSUME NEW q \in People
       PROVE  /\ Cardinality(OldSessions(q)') + Cardinality(OldHandlers(q)') <= overtaken'[q]
              /\ q \in EmailUsers => overtaken'[q] = 0
  <2>1. CASE q = p
    <3>1. Cardinality(OldSessions(q)') = 0
      BY <1>7, <2>1, FS_EmptySet
    <3>2. /\ Cardinality(OldHandlers(q)') <= Cardinality(Waiting(p))
          /\ Cardinality(OldHandlers(q)') \in Nat
      BY <1>8, <2>1, OldFinite, FS_Subset, FS_CardinalityType
    <3>3. overtaken'[q] = Cardinality(Waiting(p))
      BY <1>1, <2>1
    <3> QED BY <1>6, <2>1, <3>1, <3>2, <3>3, OldFinite
  <2>2. CASE q # p
    <3>1. /\ Cardinality(OldSessions(q)') <= Cardinality(OldSessions(q)) /\ Cardinality(OldSessions(q)') \in Nat
          /\ Cardinality(OldHandlers(q)') <= Cardinality(OldHandlers(q)) /\ Cardinality(OldHandlers(q)') \in Nat
      BY <1>9, <2>2, OldFinite, FS_Subset, FS_CardinalityType
    <3>2. overtaken'[q] = overtaken[q] /\ overtaken[q] \in Nat
      BY <1>1, <2>2
    <3>3. /\ Cardinality(OldSessions(q)) + Cardinality(OldHandlers(q)) <= overtaken[q]
          /\ q \in EmailUsers => overtaken[q] = 0
      BY DEF OlderSafe, OlderSignInsEnd
    <3> QED BY <3>1, <3>2, <3>3, OldFinite
  <2> QED BY <2>1, <2>2
<1> QED BY <1>2, <1>10 DEF OlderSafe, OlderSignInsEnd

\* A callback that was overtaken turns into one session.
LEMMA CreatingKeepsOlderSafe ==
    ASSUME OlderSafe, SessionsSafe, HandlersKnown, handler \in [Handlers -> Handler],
           NEW h \in Handlers, CreateSession(h)
    PROVE  OlderSafe'
<1> DEFINE p == handler[h].owner
           row == [owner |-> p, status |-> "active", current |-> handler[h].current]
<1>1. PICK n \in 1..SessionBound, kept \in SUBSET Active(p) :
        session' = [m \in 1..SessionBound |->
              IF m = n THEN row ELSE IF m \in Active(p) \ kept THEN PastSession ELSE session[m]]
  BY DEF CreateSession
<1>2. /\ row.owner = p /\ row.current = handler[h].current /\ p \in People /\ p # Nobody
      /\ UNCHANGED overtaken
  BY AccountsConstants DEF CreateSession, HandlersKnown
<1>3. \A g \in Handlers : handler'[g] = IF g = h THEN IdleHandler ELSE handler[g]
  BY DEF CreateSession, Stop
<1>4. IdleHandler.owner = Nobody /\ Nobody \notin People
  BY AccountsConstants DEF IdleHandler
<1>5. \A m \in 1..SessionBound : m # n => session'[m] = session[m] \/ session'[m] = PastSession
  BY <1>1
<1>6. session'[n] = row
  BY <1>1
<1> HIDE DEF row
<1>7. ASSUME NEW q \in People
      PROVE  /\ OldHandlers(q)' = OldHandlers(q) \ {h}
             /\ OldSessions(q)' \subseteq OldSessions(q) \cup {n}
             /\ q # p \/ handler[h].current => OldSessions(q)' \subseteq OldSessions(q)
  <2>1. OldHandlers(q)' = OldHandlers(q) \ {h}
    BY <1>3, <1>4 DEF OldHandlers
  <2>2. ASSUME NEW m \in OldSessions(q)', m # n PROVE m \in OldSessions(q)
    BY <1>5, <2>2, PastSessionIsOver DEF OldSessions
  <2>3. q # p \/ handler[h].current => n \notin OldSessions(q)'
    BY <1>2, <1>6 DEF OldSessions
  <2> QED BY <2>1, <2>2, <2>3
<1>8. CASE handler[h].current
  BY <1>2, <1>7, <1>8, FewerOldAreSafe
<1>9. CASE ~handler[h].current
  <2> SUFFICES ASSUME NEW q \in People
               PROVE  Cardinality(OldSessions(q)') + Cardinality(OldHandlers(q)') <= overtaken[q]
    BY <1>2 DEF OlderSafe, OlderSignInsEnd
  <2>1. Cardinality(OldSessions(q)) + Cardinality(OldHandlers(q)) <= overtaken[q] /\ overtaken[q] \in Nat
    BY DEF OlderSafe, OlderSignInsEnd
  <2>2. CASE q = p
    <3>1. h \in OldHandlers(q)
      BY <1>9, <2>2 DEF OldHandlers
    <3>2. Cardinality(OldHandlers(q)') = Cardinality(OldHandlers(q)) - 1
      BY <1>7, <3>1, OldFinite, FS_RemoveElement
    <3>3. /\ Cardinality(OldSessions(q) \cup {n}) =
                IF n \in OldSessions(q) THEN Cardinality(OldSessions(q)) ELSE Cardinality(OldSessions(q)) + 1
          /\ IsFiniteSet(OldSessions(q) \cup {n})
      BY OldFinite, FS_AddElement
    <3>4. /\ Cardinality(OldSessions(q)') <= Cardinality(OldSessions(q) \cup {n})
          /\ Cardinality(OldSessions(q)') \in Nat
      BY <1>7, <3>3, FS_Subset, FS_CardinalityType
    <3> QED BY <2>1, <3>2, <3>3, <3>4, OldFinite
  <2>3. CASE q # p
    <3>1. OldSessions(q)' \subseteq OldSessions(q) /\ OldHandlers(q)' \subseteq OldHandlers(q)
      BY <1>7, <2>3
    <3>2. /\ Cardinality(OldSessions(q)') <= Cardinality(OldSessions(q)) /\ Cardinality(OldSessions(q)') \in Nat
          /\ Cardinality(OldHandlers(q)') <= Cardinality(OldHandlers(q)) /\ Cardinality(OldHandlers(q)') \in Nat
      BY <3>1, OldFinite, FS_Subset, FS_CardinalityType
    <3> QED BY <2>1, <3>2, OldFinite
  <2> QED BY <2>2, <2>3
<1> QED BY <1>8, <1>9

LEMMA OlderPreserved ==
    ASSUME OlderSafe, SignInTypeOK, SessionsSafe, HandlersKnown, SecretsKnown, [SignInNext]_signInVars
    PROVE  OlderSafe'
<1>1. handler \in [Handlers -> Handler] /\ session \in [1..SessionBound -> Session]
      /\ EmailUsers \subseteq People
  BY DEF SignInTypeOK, People
<1>2. ASSUME NEW h \in Handlers, NEW row, handler' = [handler EXCEPT ![h] = row],
             row.owner \notin People \/ row.current \/ (row.owner = handler[h].owner /\ row.current = handler[h].current),
             UNCHANGED <<session, overtaken>>
      PROVE  OlderSafe'
  <2>1. \A p \in People : OldSessions(p)' = OldSessions(p)
    BY <1>2 DEF OldSessions
  <2>2. \A p \in People : OldHandlers(p)' \subseteq OldHandlers(p)
    BY <1>1, <1>2 DEF OldHandlers
  <2> QED BY <1>2, <2>1, <2>2, FewerOldAreSafe
<1>3. ASSUME NEW h \in Handlers, Stop(h), UNCHANGED <<session, overtaken>> PROVE OlderSafe'
  <2>1. IdleHandler.owner \notin People
    BY AccountsConstants DEF IdleHandler
  <2> QED BY <1>2, <1>3, <2>1 DEF Stop
<1>4. ASSUME NEW h \in Handlers, NEW pc, NEW p, Goto(h, pc, p), UNCHANGED <<session, overtaken>> PROVE OlderSafe'
  BY <1>2, <1>4 DEF Goto
<1>5. ASSUME NEW p \in People, EndAllSessions(p) PROVE OlderSafe'
  BY <1>1, <1>5, EndingKeepsOlderSafe DEF EndAllSessions
<1>6. ASSUME UNCHANGED <<session, handler, overtaken>> PROVE OlderSafe'
  BY <1>6, FewerOldAreSafe DEF OldSessions, OldHandlers
<1>7. ASSUME NEW n \in 1..SessionBound, NEW others \in BOOLEAN, SetPassword(n, others) PROVE OlderSafe'
  <2>1. CASE others
    <3> DEFINE p == session[n].owner
    <3>1. p \in EmailUsers /\ p \in People /\ LoopFree /\ EndSessions(p, {n}) /\ handler' = Outdated(p)
      BY <1>1, <1>7, <2>1 DEF SetPassword
    <3> HIDE DEF p
    <3> QED BY <1>1, <3>1, EndingKeepsOlderSafe
  <2>2. CASE ~others
    BY <1>6, <1>7, <2>2 DEF SetPassword
  <2> QED BY <2>1, <2>2
<1>8. ASSUME NEW n \in 1..TokenBound, NEW h \in Handlers, CompleteReset(h, n) PROVE OlderSafe'
  <2> DEFINE p == token[n].email
             row == [pc |-> "session", owner |-> p, current |-> TRUE]
  <2>1. p \in People /\ LoopFree /\ EndSessions(p, {})
    BY <1>1, <1>8 DEF CompleteReset, Begin, SecretsKnown
  <2>2. row.owner = p /\ row.current /\ handler' = [Outdated(p) EXCEPT ![h] = row]
    BY <1>8 DEF CompleteReset
  <2> HIDE DEF row
  <2>3. \A g \in Handlers : handler'[g] = IF g = h THEN row ELSE Outdated(p)[g]
    BY <2>2 DEF Outdated
  <2> HIDE DEF p
  <2> QED BY <1>1, <2>1, <2>2, <2>3, EndingKeepsOlderSafe
<1>9. ASSUME NEW h \in Handlers, CreateSession(h) PROVE OlderSafe'
  BY <1>1, <1>9, CreatingKeepsOlderSafe
<1>10. ASSUME NEW h \in Handlers, HandlerStep(h) PROVE OlderSafe'
  <2>1. CASE RegisterAccount(h) \/ LoginByCode(h)
    <3>1. UNCHANGED <<session, overtaken>> /\ (Stop(h) \/ Goto(h, "session", handler[h].owner))
      BY <2>1 DEF RegisterAccount, LoginByCode, authVars
    <3> QED BY <1>3, <1>4, <3>1
  <2>2. CASE HandOutToken(h) \/ DiscordFails(h)
    BY <1>3, <2>2 DEF HandOutToken, DiscordFails, authVars
  <2>3. CASE DiscordAnswers(h)
    <3> DEFINE row == [handler[h] EXCEPT !.pc = "session"]
    <3>1. /\ handler' = [handler EXCEPT ![h] = row] /\ UNCHANGED <<session, overtaken>>
          /\ row.owner = handler[h].owner /\ row.current = handler[h].current
      BY <1>1, <2>3 DEF DiscordAnswers, authVars, Handler
    <3> HIDE DEF row
    <3> QED BY <1>2, <3>1
  <2> QED BY <1>9, <1>10, <2>1, <2>2, <2>3 DEF HandlerStep
<1>11. ASSUME NEW h \in Handlers, NEW p \in EmailUsers,
              LoginByPassword(h, p) \/ \E purpose \in Purposes : AcceptCode(h, p, purpose)
       PROVE  OlderSafe'
  BY <1>4, <1>11 DEF LoginByPassword, AcceptCode
<1>12. ASSUME NEW h \in Handlers, NEW x \in States, AcceptState(h, x) PROVE OlderSafe'
  BY <1>4, <1>12 DEF AcceptState
<1>13. ASSUME Crash PROVE OlderSafe'
  <2>1. \A p \in People : OldHandlers(p)' = {}
    BY <1>13, AccountsConstants DEF Crash, IdleHandler, OldHandlers
  <2>2. UNCHANGED <<session, overtaken>>
    BY <1>13 DEF Crash, authVars
  <2> QED BY <2>1, <2>2, FewerOldAreSafe DEF OldSessions
<1>14. ASSUME NEW n \in 1..SessionBound, EndSession(n) PROVE OlderSafe'
  <2>1. /\ \A m \in 1..SessionBound : session'[m] = session[m] \/ session'[m] = PastSession
        /\ UNCHANGED <<handler, overtaken>>
    BY <1>1, <1>14 DEF EndSession
  <2>2. \A p \in People : OldSessions(p)' \subseteq OldSessions(p)
    BY <2>1, PastSessionIsOver DEF OldSessions
  <2> QED BY <2>1, <2>2, FewerOldAreSafe DEF OldHandlers
<1>15. /\ SessionStep \/ UNCHANGED session
       /\ HandlerMoves \/ UNCHANGED handler
       /\ OvertakeStep \/ UNCHANGED overtaken
  BY WhoWritesWhat
<1>16. CASE HandlerMoves
  BY <1>5, <1>7, <1>8, <1>10, <1>11, <1>12, <1>13, <1>16 DEF HandlerMoves
<1>17. CASE SessionStep
  BY <1>5, <1>7, <1>8, <1>9, <1>14, <1>17 DEF SessionStep
<1>18. CASE OvertakeStep
  BY <1>5, <1>7, <1>8, <1>18 DEF OvertakeStep
<1> QED BY <1>6, <1>15, <1>16, <1>17, <1>18

----------------------------------------------------------------------------
(* The invariant *)

SignInParts ==
    /\ AccountsInv
    /\ HandlersKnown
    /\ handler \in [Handlers -> Handler]
    /\ CodesSafe
    /\ TokensSafe
    /\ StatesSafe
    /\ PasswordsSafe
    /\ SessionsSafe
    /\ OlderSafe

LEMMA SignInInvParts == SignInInv <=> SignInParts
<1> USE DEF SignInParts
<1>1. ASSUME SignInInv
      PROVE  SignInParts
  <2>1. AccountsInv /\ HandlersKnown /\ handler \in [Handlers -> Handler]
    BY <1>1 DEF SignInInv, SignInTypeOK, AccountsInv
  <2>2. CodesSafe
    BY <1>1 DEF SignInInv, SignInTypeOK, SecretsKnown, SecretsAdmitOnce, CodesSafe
  <2>3. TokensSafe
    BY <1>1 DEF SignInInv, SignInTypeOK, SecretsKnown, SecretsAdmitOnce, TokensSafe
  <2>4. StatesSafe
    BY <1>1 DEF SignInInv, SignInTypeOK, SecretsKnown, SecretsAdmitOnce, StatesSafe
  <2>5. PasswordsSafe /\ SessionsSafe /\ OlderSafe
    BY <1>1 DEF SignInInv, SignInTypeOK, PasswordsSafe, SessionsSafe, OlderSafe
  <2> QED BY <2>1, <2>2, <2>3, <2>4, <2>5
<1>2. ASSUME AccountsInv, HandlersKnown, handler \in [Handlers -> Handler],
             CodesSafe, TokensSafe, StatesSafe, PasswordsSafe, SessionsSafe, OlderSafe
      PROVE  SignInInv
  <2>1. SignInTypeOK
    BY <1>2 DEF SignInTypeOK, AccountsInv, CodesSafe, TokensSafe, StatesSafe, PasswordsSafe, SessionsSafe,
                OlderSafe
  <2>2. SecretsKnown
    BY <1>2 DEF SecretsKnown, CodesSafe, TokensSafe, StatesSafe
  <2>3. SecretsAdmitOnce
    BY <1>2 DEF SecretsAdmitOnce, CodesSafe, TokensSafe, StatesSafe
  <2>4. InvitationsMatchAccounts /\ BonusesPaidOnce /\ GuessesKnown /\ GuessesBounded
        /\ OlderSignInsEnd /\ SessionsBounded
    BY <1>2 DEF AccountsInv, PasswordsSafe, SessionsSafe, OlderSafe
  <2> QED BY <1>2, <2>1, <2>2, <2>3, <2>4 DEF SignInInv
<1> QED BY <1>1, <1>2

LEMMA SignInInitSafe == SignInInit => SignInParts
<1> SUFFICES ASSUME SignInInit PROVE SignInParts
  OBVIOUS
<1>1. AccountsInv
  BY AccountsInvInit DEF SignInInit
<1>2. HandlersKnown /\ handler \in [Handlers -> Handler]
  BY AccountsConstants DEF SignInInit, HandlersKnown, Handler, IdleHandler, People
<1>3. CodesSafe
  <2>1. NoCode \in Code /\ NoCode.email = Nobody /\ NoCode.status = "none" /\ NoCode.admitted = 0
    BY SignInConstants DEF NoCode, Code, Purposes
  <2> QED BY <2>1 DEF SignInInit, CodesSafe, FilledInOrder
<1>4. TokensSafe
  <2>1. NoToken \in Token /\ NoToken.email = Nobody /\ NoToken.status = "none" /\ NoToken.admitted = 0
    BY DEF NoToken, Token
  <2> QED BY <2>1 DEF SignInInit, TokensSafe, FilledInOrder
<1>5. StatesSafe
  BY DEF SignInInit, StatesSafe
<1>6. PasswordsSafe
  <2>1. /\ NoPassword \in Password /\ NoPassword.failed = NoPassword.guesses
        /\ NoPassword.guesses = 0 /\ NoPassword.unlocks = 0
    BY SignInConstants DEF NoPassword, PasswordRow, Password
  <2> QED BY <2>1, SignInConstants DEF SignInInit, PasswordsSafe, GuessesKnown, GuessesBounded
<1>7. SessionsSafe
  <2>1. NoSession \in Session /\ NoSession.status = "none"
    BY DEF NoSession, Session
  <2>2. \A p \in People : Active(p) = {}
    BY <2>1 DEF SignInInit, Active
  <2>3. SessionsBounded
    BY <2>2, FS_EmptySet, SignInConstants DEF SessionsBounded
  <2> QED BY <2>1, <2>3 DEF SignInInit, SessionsSafe
<1>8. OlderSafe
  <2>1. NoSession.status = "none" /\ IdleHandler.owner \notin People
    BY AccountsConstants DEF NoSession, IdleHandler
  <2>2. \A p \in People : OldSessions(p) = {} /\ OldHandlers(p) = {}
    BY <2>1 DEF SignInInit, OldSessions, OldHandlers
  <2>3. overtaken = [p \in People |-> 0]
    BY DEF SignInInit
  <2> QED BY <2>2, <2>3, FS_EmptySet DEF OlderSafe, OlderSignInsEnd
<1> QED BY <1>1, <1>2, <1>3, <1>4, <1>5, <1>6, <1>7, <1>8 DEF SignInParts

LEMMA SignInInvPreserved == SignInParts /\ [SignInNext]_signInVars => SignInParts'
<1> SUFFICES ASSUME SignInParts, [SignInNext]_signInVars PROVE SignInParts'
  OBVIOUS
<1>1. /\ AccountsInv /\ HandlersKnown /\ handler \in [Handlers -> Handler]
      /\ CodesSafe /\ TokensSafe /\ StatesSafe /\ PasswordsSafe /\ SessionsSafe /\ OlderSafe
  BY DEF SignInParts
<1>2. SignInTypeOK /\ SecretsKnown
  BY SignInInvParts DEF SignInInv
<1>3. /\ CodeStep \/ UNCHANGED code
      /\ PasswordStep \/ UNCHANGED password
      /\ TokenStep \/ UNCHANGED token
      /\ StateStep \/ UNCHANGED oauth
      /\ SessionStep \/ UNCHANGED session
  BY WhoWritesWhat
<1>4. AccountsInv'
  BY <1>1, AccountsInvPreserved, SignInStepIsAccountStep
<1>5. handler' \in [Handlers -> Handler] /\ HandlersKnown'
  BY <1>1, <1>2, HandlersPreserved
<1>6. CodesSafe' /\ TokensSafe' /\ StatesSafe' /\ PasswordsSafe' /\ SessionsSafe'
  BY <1>1, <1>3, CodesPreserved, TokensPreserved, StatesPreserved, PasswordsPreserved, SessionsPreserved
<1>7. OlderSafe'
  BY <1>1, <1>2, OlderPreserved
<1> QED BY <1>4, <1>5, <1>6, <1>7 DEF SignInParts

\* The invariants of signing in hold together, for any number of people, codes,
\* tokens, sessions and handlers, and any bounds.
THEOREM SignInInvHolds == SignInSpec => []SignInInv
<1>1. SignInParts => SignInInv
  BY SignInInvParts
<1> QED BY <1>1, SignInInitSafe, SignInInvPreserved, PTL DEF SignInSpec

\* Type correctness of the tables and the handlers.
THEOREM SignInTypesHold == SignInSpec => []SignInTypeOK
<1>1. SignInInv => SignInTypeOK
  BY DEF SignInInv
<1> QED BY <1>1, SignInInvHolds, PTL

\* A code, a reset token or an OAuth state lets in once, and only the newest of
\* an address does (create_secure_email_code, verify_secure_email_code,
\* consume_password_reset_token, consume_oauth_login_state).
THEOREM SecretsAreSpentOnce == SignInSpec => []SecretsAdmitOnce
<1>1. SignInInv => SecretsAdmitOnce
  BY DEF SignInInv
<1> QED BY <1>1, SignInInvHolds, PTL

\* The lock bounds the wrong passwords of the login and of the change of password
\* together (register_password_failure).
THEOREM GuessesStayBounded == SignInSpec => []GuessesBounded
<1>1. SignInInv => GuessesBounded
  BY DEF SignInInv
<1> QED BY <1>1, SignInInvHolds, PTL

\* Of those who proved to be the owner before a reset, a logout everywhere or a
\* change of password, only the Discord callbacks that waited at that moment get
\* in afterwards, each once (consume_password_reset_token,
\* revoke_all_account_sessions, discord_callback).
THEOREM OlderSignInsAreOver == SignInSpec => []OlderSignInsEnd
<1>1. SignInInv => OlderSignInsEnd
  BY DEF SignInInv
<1> QED BY <1>1, SignInInvHolds, PTL

\* Nobody has more sessions than the limit (enforce_account_session_limit).
THEOREM SessionsStayBounded == SignInSpec => []SessionsBounded
<1>1. SignInInv => SessionsBounded
  BY DEF SignInInv
<1> QED BY <1>1, SignInInvHolds, PTL
=============================================================================
