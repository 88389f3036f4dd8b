------------------------------ MODULE Accounts ------------------------------
(***************************************************************************)
(* Accounts and the credits they are given: the tables accounts,           *)
(* account_legacy_bindings, referral_codes and referral_relationships and  *)
(* the bonus rows of balance_ledger (app/db.py).  An account is made by    *)
(* registering an e-mail address (auth.py, register/verify-code) or by the *)
(* first return from Discord (auth.py, discord_callback), and whatever it  *)
(* is given is given in the transaction that makes it.  SignIn models how  *)
(* a request comes to be allowed to do either.                             *)
(***************************************************************************)
EXTENDS Integers, FiniteSets

CONSTANTS EmailUsers,    \* accounts of the provider email
          DiscordUsers,  \* accounts of the provider discord
          WelcomeBonus,  \* WELCOME_BONUS_CREDITS
          InviteeBonus,  \* referral_invitee_bonus_credits
          InviterBonus,  \* referral_inviter_bonus_credits
          Nobody

People == EmailUsers \cup DiscordUsers

ASSUME AccountsConstants ==
    /\ EmailUsers \cap DiscordUsers = {} /\ Nobody \notin People
    /\ WelcomeBonus \in Nat \ {0} /\ InviteeBonus \in Nat /\ InviterBonus \in Nat

ASSUME AccountsFinite == IsFiniteSet(People)

VARIABLES accounts,  \* who has an account, bound to a legacy user id of its own
          welcomed,  \* whose legacy user has a welcome_bonus row in the ledger
          coded,     \* who has a referral code
          inviter,   \* referral_relationships: by whom each account was invited
          bonus,     \* the bonus part of users.balance_fen
          campaign   \* referral_campaign_enabled, read when the server starts

accountVars == <<accounts, welcomed, coded, inviter, bonus, campaign>>

\* Some have an account; legacy users of the bot may have been welcomed before
\* they come here.
AccountsInit ==
    /\ accounts \in SUBSET People
    /\ \E before \in SUBSET DiscordUsers : welcomed = accounts \cup before
    /\ coded = {}
    /\ inviter = [p \in People |-> Nobody]
    /\ bonus = [p \in People |-> IF p \in welcomed THEN WelcomeBonus ELSE 0]
    /\ campaign \in BOOLEAN

----------------------------------------------------------------------------

\* grant_welcome_bonus_if_needed: what the legacy user of a new account is paid.
Welcome(p) == IF p \in welcomed THEN 0 ELSE WelcomeBonus

\* apply_referral_bonus_for_new_account pays when a code was given, while the
\* campaign runs and pays anything.
ReferralApplies(p, i) ==
    /\ campaign
    /\ i # Nobody
    /\ inviter[p] = Nobody
    /\ InviteeBonus > 0 \/ InviterBonus > 0

\* Mutant: the inviter is paid after the transaction, if at all.
NewAccountInviterLater(p, i) ==
    /\ p \notin accounts
    /\ accounts' = accounts \cup {p}
    /\ welcomed' = welcomed \cup {p}
    /\ inviter' = [inviter EXCEPT ![p] = IF ReferralApplies(p, i) THEN i ELSE @]
    /\ bonus' = [bonus EXCEPT ![p] = @ + Welcome(p) + (IF ReferralApplies(p, i) THEN InviteeBonus ELSE 0)]
    /\ UNCHANGED <<coded, campaign>>

\* The transaction that makes an account, with the code of i or with none.
NewAccount(p, i) ==
    /\ p \notin accounts
    /\ accounts' = accounts \cup {p}
    /\ welcomed' = welcomed \cup {p}
    /\ inviter' = [inviter EXCEPT ![p] = IF ReferralApplies(p, i) THEN i ELSE @]
    /\ bonus' = [q \in People |->
          bonus[q] + (IF q = p THEN Welcome(p) ELSE 0)
                   + (IF ReferralApplies(p, i) /\ q = p THEN InviteeBonus ELSE 0)
                   + (IF ReferralApplies(p, i) /\ q = i THEN InviterBonus ELSE 0)]
    /\ UNCHANGED <<coded, campaign>>

\* create_email_account; the code has to be somebody's, or the transaction is
\* rolled back as a whole.
NewEmailAccount(p, i) ==
    /\ p \in EmailUsers
    /\ i \in coded \cup {Nobody}
    /\ NewAccount(p, i)

\* find_or_create_discord_account with what discord_callback does for a new
\* one: a welcome, and no referral.
NewDiscordAccount(p) ==
    /\ p \in DiscordUsers
    /\ NewAccount(p, Nobody)

\* POST /api/profile/referral-code
ClaimReferralCode(p) ==
    /\ campaign
    /\ p \in accounts
    /\ coded' = coded \cup {p}
    /\ UNCHANGED <<accounts, welcomed, inviter, bonus, campaign>>

CampaignChanges ==
    /\ campaign' \in BOOLEAN
    /\ UNCHANGED <<accounts, welcomed, coded, inviter, bonus>>

AccountsNext ==
    \/ \E p \in EmailUsers, i \in People \cup {Nobody} : NewEmailAccount(p, i)
    \/ \E p \in DiscordUsers : NewDiscordAccount(p)
    \/ \E p \in People : ClaimReferralCode(p)
    \/ CampaignChanges

AccountsSpec == AccountsInit /\ [][AccountsNext]_accountVars

----------------------------------------------------------------------------
(* Properties *)

AccountsTypeOK ==
    /\ accounts \subseteq People
    /\ welcomed \subseteq People
    /\ coded \subseteq accounts
    /\ inviter \in [People -> People \cup {Nobody}]
    /\ bonus \in [People -> Nat]
    /\ campaign \in BOOLEAN

\* Whoever has an account has been welcomed; only somebody with an account was
\* invited, by somebody who had one first.
InvitationsMatchAccounts ==
    /\ accounts \subseteq welcomed
    /\ \A p \in People : inviter[p] # Nobody => p \in accounts /\ inviter[p] \in accounts /\ inviter[p] # p

Invited(p) == {q \in People : inviter[q] = p}

\* What anybody was given is one welcome, one bonus for having been invited and
\* one for each account invited, whatever is repeated, raced or rolled back.
BonusesPaidOnce ==
    \A p \in People :
        bonus[p] = (IF p \in welcomed THEN WelcomeBonus ELSE 0)
                   + (IF inviter[p] # Nobody THEN InviteeBonus ELSE 0)
                   + InviterBonus * Cardinality(Invited(p))

AccountsInv == AccountsTypeOK /\ InvitationsMatchAccounts /\ BonusesPaidOnce
=============================================================================
