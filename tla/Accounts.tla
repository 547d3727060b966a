------------------------------ MODULE Accounts ------------------------------
(***************************************************************************)
(* Login and moderation (auth/, admin/, shared/rpcn_api.py).  RPCN keeps   *)
(* the accounts; this service signs a token after RPCN has checked the     *)
(* password, believes a token until it expires, and passes a ban on to     *)
(* RPCN with the admin's name and password, for RPCN to judge again.       *)
(***************************************************************************)
EXTENDS Naturals, FiniteSets

CONSTANTS
  AccountNames,  \* accounts
  TokenTtl,    \* jwt_ttl_seconds
  ApiTimeout,  \* a bound on one call; rpcn_api_server_timeout_seconds bounds each phase of it
  MaxNow,      \* bound on the clock
  NoBan

ASSUME AccountsAssumption ==
  /\ TokenTtl \in Nat \ {0} /\ ApiTimeout \in Nat /\ MaxNow \in Nat
  /\ AccountNames # {} /\ NoBan \notin Nat

VARIABLES
  now,
  admins,      \* RPCN (external): accounts with the role
  bannedAt,    \* RPCN (external): when an account was banned, or Never
  logins,      \* answers of RPCN to a login, not signed yet: [user, admin, at]
  tokens,      \* tokens signed: [user, admin, exp]
  bans         \* bans asked for: [by, target]

avars == <<now, admins, bannedAt, logins, tokens, bans>>

Banned(u) == bannedAt[u] # NoBan
Active == {u \in admins : ~Banned(u)}

AccInit ==
  /\ now = 0
  /\ admins = AccountNames
  /\ bannedAt = [u \in AccountNames |-> NoBan]
  /\ logins = {} /\ tokens = {} /\ bans = {}

----------------------------------------------------------------------------

\* RPCN answers a right password with the role and the ban; the service refuses a
\* banned account, and no answer at all is an error.
Verify(u) ==
  /\ ~Banned(u)
  /\ ~\E l \in logins : l.user = u
  /\ logins' = logins \cup {[user |-> u, admin |-> u \in admins, at |-> now]}
  /\ UNCHANGED <<now, admins, bannedAt, tokens, bans>>

\* issue_token
Issue(l) ==
  /\ logins' = logins \ {l}
  /\ tokens' = tokens \cup {[user |-> l.user, admin |-> l.admin, exp |-> now + TokenTtl]}
  /\ UNCHANGED <<now, admins, bannedAt, bans>>

LoginFails(l) ==
  /\ logins' = logins \ {l}
  /\ UNCHANGED <<now, admins, bannedAt, tokens, bans>>

\* current_user, admin_user: the signature, the expiry and the claim are the check.
Valid(t) == now < t.exp

\* Anyone but nobody.
EnsureNotSelfWrong(by, target) == target \in AccountNames

\* ensure_not_self: names are unique regardless of case, and so compared.
EnsureNotSelf(by, target) == by # target

AskBan(t, target) ==
  /\ Valid(t) /\ t.admin
  /\ EnsureNotSelf(t.user, target)
  /\ bans' = bans \cup {[by |-> t.user, target |-> target]}
  /\ UNCHANGED <<now, admins, bannedAt, logins, tokens>>

\* RPCN bans for an active admin who knows the password and refuses anyone else.
DecideBan(b) ==
  /\ bans' = bans \ {b}
  /\ bannedAt' = IF b.by \in Active /\ ~Banned(b.target) THEN [bannedAt EXCEPT ![b.target] = now] ELSE bannedAt
  /\ UNCHANGED <<now, admins, logins, tokens>>

\* RPCN's operator gives and takes the role, and leaves one active admin.
ChangeRole(u) ==
  /\ Active # {u}
  /\ admins' = (admins \ {u}) \cup ({u} \ admins)
  /\ UNCHANGED <<now, bannedAt, logins, tokens, bans>>

\* An answer to a login that does not come in time is an error.
PassSecond ==
  /\ now < MaxNow
  /\ \A l \in logins : now < l.at + ApiTimeout
  /\ now' = now + 1
  /\ tokens' = {t \in tokens : now' < t.exp}
  /\ UNCHANGED <<admins, bannedAt, logins, bans>>

AccNext ==
  \/ \E u \in AccountNames : Verify(u) \/ ChangeRole(u)
  \/ \E l \in logins : Issue(l) \/ LoginFails(l)
  \/ \E t \in tokens, u \in AccountNames : AskBan(t, u)
  \/ \E b \in bans : DecideBan(b)
  \/ PassSecond

AccSpec == AccInit /\ [][AccNext]_avars

----------------------------------------------------------------------------
(* Properties *)

\* "A ban placed after login takes effect only when the token expires", and no later
\* than a token's life and one slow login after the ban; and however admins with
\* tokens older than their role go on banning each other, one stays who can.
BansHold ==
  /\ \A t \in tokens : Valid(t) /\ Banned(t.user) => now < bannedAt[t.user] + ApiTimeout + TokenTtl
  /\ Active # {}
=============================================================================
