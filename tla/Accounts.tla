------------------------------ MODULE Accounts ------------------------------
(***************************************************************************)
(* Accounts, the credentials that open them and the sessions they yield    *)
(* (src/bot/bot.py).  An account belongs to a Telegram chat or to a website*)
(* registration; a chat may be bound to an account that is not its own.    *)
(* HTTP requests and Telegram messages are served by threads, each on a    *)
(* SQLite connection of its own: what a request reads before its last      *)
(* write is a step of its own, what runs under BEGIN IMMEDIATE is one step.*)
(* Requests that are refused change nothing and are stuttering steps.      *)
(* Codes and sessions are drawn from sets of values used once.             *)
(***************************************************************************)
EXTENDS Naturals, FiniteSets, FiniteSetsExt

CONSTANTS
    Webs,        \* website account ids: 1 stands for -1, 2 for -2, ...
    Chats,       \* Telegram chat ids
    Emails,
    LinkCodes,   \* rows of link_codes: pairing codes for an application
    AppCodes,    \* rows of app_auth_codes: from the browser to the application
    BindCodes,   \* rows of telegram_link_codes: bind a chat to an account
    ResetCodes,  \* rows of password_reset_tokens
    Tokens,      \* rows of web_sessions
    Threads,
    Nobody, NoEmail, NoCode,
    MaxEra,      \* bound on password_version
    MaxCodes     \* bound: codes issued in one behaviour

ASSUME AccountsAssumption ==
    /\ Webs \subseteq Nat \ {0} /\ Chats \subseteq Nat \ {0} /\ Webs \cap Chats = {}
    /\ Nobody \notin Webs \cup Chats /\ NoEmail \notin Emails
    \* the four kinds of code are rows of four tables
    /\ LinkCodes \cap (AppCodes \cup BindCodes \cup ResetCodes) = {}
    /\ AppCodes \cap (BindCodes \cup ResetCodes) = {} /\ BindCodes \cap ResetCodes = {}
    /\ MaxEra \in Nat \ {0} /\ MaxCodes \in Nat

VARIABLES
    users,   \* users[a]: none, or a profile with (full) or without (bare) its feed link
    panel,   \* accounts the provider knows
    cred,    \* cred[w]: email and password version of a website account
    bound,   \* bound[c]: telegram_account_links
    code,    \* code[k]: account and state of any of the four kinds of code
    sess,    \* sess[t]: web_sessions
    req,     \* req[p]: the request thread p serves
    taken,   \* taken[k]: the account an application code was redeemed for
    crossed  \* chats that got a profile while bound, see BoundChatHasNoProfile

avars == <<users, panel, cred, bound, code, sess, req, taken, crossed>>

Accts == Webs \cup Chats
GrantCodes == LinkCodes \cup AppCodes
Codes == GrantCodes \cup BindCodes \cup ResetCodes
ChatEra == MaxEra + 1       \* what a chat vouches for is never outdated
NoCred == [email |-> NoEmail, ver |-> 0]
\* era: the password version behind a credential.  ex: a request or what came
\* of it is known to be overtaken, by a reset (see ResetRevokes) or by a binding
\* (see BoundChatHasNoProfile).
Fresh == [acct |-> Nobody, st |-> "new", era |-> 0, ex |-> FALSE]
Void == [acct |-> Nobody, st |-> "void", era |-> 0, ex |-> FALSE]
NoSession == [acct |-> Nobody, era |-> 0, ex |-> FALSE]
Serving(pc, a, era, ex) == [pc |-> pc, acct |-> a, era |-> era, ex |-> ex, from |-> NoCode]
Free == Serving("idle", Nobody, 0, FALSE)

AccountsInit ==
    /\ users = [a \in Accts |-> "none"] /\ panel = {}
    /\ cred = [w \in Webs |-> NoCred]
    /\ bound = [c \in Chats |-> Nobody]
    /\ code = [k \in Codes |-> Fresh]
    /\ sess = [t \in Tokens |-> NoSession]
    /\ req = [p \in Threads |-> Free]
    /\ taken = [k \in GrantCodes |-> Nobody]
    /\ crossed = {}
-----------------------------------------------------------------------------
Used(k) == [acct |-> code[k].acct, st |-> IF code[k].st = "used" THEN "again" ELSE "used",
            era |-> 0, ex |-> FALSE]
ResolveTelegramAccountId(a) == IF a \in Chats /\ bound[a] # Nobody THEN bound[a] ELSE a
GetUser(a) == users[ResolveTelegramAccountId(a)]
\* The chat a is bound to an account that is not its own.
BoundElsewhere(a) == a \in Chats /\ bound[a] \notin {Nobody, a}
GetWebSession(t) == sess[t].acct # Nobody

\* A thread takes up a request with what it read, and later ends it.
Begins(p, r) == req[p] = Free /\ req' = [req EXCEPT ![p] = r]
Ends(p) == req' = [req EXCEPT ![p] = Free]
BySession(p, t, pc) ==
    /\ GetWebSession(t)
    /\ Begins(p, Serving(pc, sess[t].acct, sess[t].era, sess[t].ex))
    /\ UNCHANGED <<users, panel, cred, bound, code, sess, taken, crossed>>

\* A value the generator has not drawn before.
Unused(k) == /\ code[k].st = "new"
             /\ Cardinality({j \in Codes : code[j].st # "new"}) < MaxCodes

\* The account's unused codes of this kind go, and a new one comes, in one
\* transaction.
Issue(kind, k, a, era, ex) ==
    /\ Unused(k)
    /\ code' = [j \in Codes |->
                  IF j = k THEN [acct |-> a, st |-> "live", era |-> era, ex |-> ex]
                  ELSE IF j \in kind /\ code[j].acct = a /\ code[j].st = "live"
                       THEN Void ELSE code[j]]
Expire(k) ==
    /\ code[k].st = "live"
    /\ code' = [code EXCEPT ![k] = Void]
    /\ UNCHANGED <<users, panel, cred, bound, sess, req, taken, crossed>>
-----------------------------------------------------------------------------
\* Password accounts.

AllocateWebsiteAccountId == Max({0} \cup {w \in Webs : users[w] # "none"}) + 1
\* The provider's account is made inside the local transaction.  Its answer
\* may be lost: the transaction is rolled back and the provider keeps a user
\* whose name every later registration draws again and is refused.
CreateWebsiteAccount(p, e, answered) ==
    LET w == AllocateWebsiteAccountId IN
    /\ w \in Webs /\ w \notin panel
    /\ \A v \in Webs : cred[v].email # e
    /\ panel' = panel \cup {w}
    /\ IF answered
       THEN /\ users' = [users EXCEPT ![w] = "full"]
            /\ cred' = [cred EXCEPT ![w] = [email |-> e, ver |-> 1]]
            /\ Begins(p, Serving("session", w, 1, FALSE))
       ELSE req[p] = Free /\ UNCHANGED <<users, cred, req>>
    /\ UNCHANGED <<bound, code, sess, taken, crossed>>

AuthenticateWebsiteAccount(p, e) ==
    \E w \in Webs :
        /\ cred[w].email = e /\ GetUser(w) # "none"
        /\ Begins(p, Serving("session", w, cred[w].ver, FALSE))
        /\ UNCHANGED <<users, panel, cred, bound, code, sess, taken, crossed>>

\* Same account, new address and password; the version stays as it is.
AttachWebsiteCredentials(p, e) ==
    /\ req[p].pc = "attach" /\ req[p].acct \in Webs
    /\ cred[req[p].acct] # NoCred
    /\ \A v \in Webs \ {req[p].acct} : cred[v].email # e
    /\ cred' = [cred EXCEPT ![req[p].acct].email = e]
    /\ Ends(p)
    /\ UNCHANGED <<users, panel, bound, code, sess, taken, crossed>>

IssuePasswordReset(e, k) ==
    /\ \E w \in Webs : cred[w].email = e /\ Issue(ResetCodes, k, w, 0, FALSE)
    /\ UNCHANGED <<users, panel, cred, bound, sess, req, taken, crossed>>

\* The reset ends the account's sessions and voids its browser codes.
RevokedSessions(a) == [t \in Tokens |-> IF sess[t].acct = a THEN NoSession ELSE sess[t]]
Reset(k, codes) ==
    LET a == code[k].acct IN
    /\ code[k].st = "live" /\ cred[a].ver < MaxEra
    /\ cred' = [cred EXCEPT ![a].ver = @ + 1]
    /\ code' = [j \in Codes |->
                  IF j = k THEN Used(j)
                  ELSE IF j \in codes /\ code[j].acct = a /\ code[j].st = "live"
                       THEN Void
                  ELSE IF j \in LinkCodes /\ code[j].acct = a THEN [code[j] EXCEPT !.ex = TRUE]
                  ELSE code[j]]
    /\ sess' = RevokedSessions(a)
    /\ req' = [p \in Threads |-> IF req[p].acct = a THEN [req[p] EXCEPT !.ex = TRUE] ELSE req[p]]
    /\ UNCHANGED <<users, panel, bound, taken, crossed>>
ResetKeepingCodes(k) == Reset(k, {})
ResetWebsitePassword(k) == Reset(k, AppCodes)
-----------------------------------------------------------------------------
\* Sessions and the codes that lead to them.

CreateWebSession(p, t) ==
    /\ req[p].pc = "session"
    /\ sess[t] = NoSession
    /\ sess' = [sess EXCEPT ![t] = [acct |-> req[p].acct, era |-> req[p].era, ex |-> req[p].ex]]
    /\ Ends(p)
    /\ UNCHANGED <<users, panel, cred, bound, code, taken, crossed>>
SessionExpires(t) ==
    /\ GetWebSession(t)
    /\ sess' = [sess EXCEPT ![t] = NoSession]
    /\ UNCHANGED <<users, panel, cred, bound, code, req, taken, crossed>>

\* A pairing code for the cabinet's own account, or for the chat's.
IssueLinkCode(p, k) ==
    /\ req[p].pc = "link" /\ users[ResolveTelegramAccountId(req[p].acct)] = "full"
    /\ Issue(LinkCodes, k, req[p].acct, req[p].era, req[p].ex)
    /\ Ends(p)
    /\ UNCHANGED <<users, panel, cred, bound, sess, taken, crossed>>
LinkCommand(p, c) ==
    /\ GetUser(c) # "none"
    /\ Begins(p, Serving("chatlink", c, ChatEra, FALSE))
    /\ UNCHANGED <<users, panel, cred, bound, code, sess, taken, crossed>>
\* The account is looked up again for what the chat asked for.
ChatResolves(p, asked, then) ==
    LET a == ResolveTelegramAccountId(req[p].acct) IN
    /\ req[p].pc = asked
    /\ req' = [req EXCEPT ![p] = Serving(then, a, ChatEra, BoundElsewhere(a))]
    /\ UNCHANGED <<users, panel, cred, bound, code, sess, taken, crossed>>
ChatIssuesLinkCode(p, k) ==
    /\ req[p].pc = "chatcode"
    /\ Issue(LinkCodes, k, req[p].acct, ChatEra, FALSE)
    /\ Ends(p)
    /\ UNCHANGED <<users, panel, cred, bound, sess, taken, crossed>>

\* The row is read, and burned by an UPDATE that requires it to be unused.
RedeemLinkCode(p, k) ==
    /\ code[k].st = "live"
    /\ Begins(p, [pc |-> "burn", acct |-> code[k].acct, era |-> code[k].era,
                  ex |-> code[k].ex, from |-> k])
    /\ UNCHANGED <<users, panel, cred, bound, code, sess, taken, crossed>>
Burned(p, k) ==
    /\ code' = [code EXCEPT ![k] = Used(k)]
    /\ taken' = [taken EXCEPT ![k] = req[p].acct]
    /\ \E checked \in BOOLEAN :   \* /api/link/redeem wants the profile's link, /api/session does not
          IF checked => GetUser(req[p].acct) = "full"
          THEN req' = [req EXCEPT ![p] = Serving("session", @.acct, @.era, @.ex)] ELSE Ends(p)
BurnUsed(p, k) ==
    IF code[k].st \in {"live", "used"} THEN Burned(p, k) ELSE Ends(p) /\ UNCHANGED <<code, taken>>
BurnWithdrawn(p, k) ==
    IF code[k].st \in {"live", "void"} THEN Burned(p, k) ELSE Ends(p) /\ UNCHANGED <<code, taken>>
Burn(p, k) ==
    IF code[k].st = "live" THEN Burned(p, k) ELSE Ends(p) /\ UNCHANGED <<code, taken>>
BurnLinkCode(p) ==
    /\ req[p].pc = "burn"
    /\ Burn(p, req[p].from)
    /\ UNCHANGED <<users, panel, cred, bound, sess, crossed>>

IssueAppAuthCode(p, k) ==
    /\ req[p].pc = "app"
    /\ Unused(k)
    /\ code' = [code EXCEPT ![k] = [acct |-> req[p].acct, st |-> "live",
                                    era |-> req[p].era, ex |-> req[p].ex]]
    /\ Ends(p)
    /\ UNCHANGED <<users, panel, cred, bound, sess, taken, crossed>>
\* Burned with its state in one transaction; then the profile is looked up.
RedeemAppAuthCode(p, k) ==
    /\ code[k].st = "live"
    /\ code' = [code EXCEPT ![k] = Used(k)]
    /\ taken' = [taken EXCEPT ![k] = code[k].acct]
    /\ IF GetUser(code[k].acct) = "full"
       THEN Begins(p, Serving("session", code[k].acct, code[k].era, code[k].ex))
       ELSE req[p] = Free /\ UNCHANGED req
    /\ UNCHANGED <<users, panel, cred, bound, sess, crossed>>
-----------------------------------------------------------------------------
\* Chats: the first /start, and the binding to another account.

IssueTelegramLinkCode(p, k) ==
    /\ req[p].pc = "bindcode"
    /\ Issue(BindCodes, k, req[p].acct, 0, FALSE)
    /\ Ends(p)
    /\ UNCHANGED <<users, panel, cred, bound, sess, taken, crossed>>

\* A chat is bound once, to an account nobody is bound to, and not if it has
\* a profile of its own.
MayBind(c, a) ==
    /\ bound[c] = Nobody /\ \A d \in Chats : bound[d] # a
    /\ c # a => users[c] = "none"
ClaimTelegramLinkCode(c, k) ==
    /\ code[k].st = "live"
    /\ MayBind(c, code[k].acct)
    /\ code' = [code EXCEPT ![k] = Used(k)]
    /\ bound' = [bound EXCEPT ![c] = code[k].acct]
    /\ req' = [p \in Threads |-> IF req[p].acct = c /\ req[p].pc \in {"welcome", "heal"}
                                 THEN [req[p] EXCEPT !.ex = TRUE] ELSE req[p]]
    /\ UNCHANGED <<users, panel, cred, sess, taken, crossed>>
UnlinkTelegramAccount(p) ==
    /\ req[p].pc = "unlink"
    /\ bound' = [c \in Chats |-> IF bound[c] = req[p].acct THEN Nobody ELSE bound[c]]
    /\ Ends(p)
    /\ UNCHANGED <<users, panel, cred, code, sess, taken, crossed>>

\* /start looks for the profile of the chat, or of the account it is bound to,
\* and makes one for the chat if there is none.
WithoutProfile(c) == BoundElsewhere(c) /\ GetUser(c) = "none"
SendWelcomeUnbound(p, c) ==
    /\ users[c] = "none"
    /\ Begins(p, Serving("welcome", c, ChatEra, WithoutProfile(c)))
    /\ UNCHANGED <<users, panel, cred, bound, code, sess, taken, crossed>>
SendWelcome(p, c) ==
    /\ GetUser(c) = "none"
    /\ Begins(p, Serving("welcome", c, ChatEra, WithoutProfile(c)))
    /\ UNCHANGED <<users, panel, cred, bound, code, sess, taken, crossed>>
\* A profile without its link is to be completed with what the provider says:
\* by /start and /profile under the id of the chat, by get_user_sub_url under
\* the id of the account.
FindsNoLink(p, c, id) ==
    /\ GetUser(c) = "bare"
    /\ Begins(p, Serving("heal", id, ChatEra, BoundElsewhere(id)))
    /\ UNCHANGED <<users, panel, cred, bound, code, sess, taken, crossed>>
ShowProfile(p, c) == FindsNoLink(p, c, c)
GetUserSubUrl(p, c) == FindsNoLink(p, c, ResolveTelegramAccountId(c))
\* The button for a new link, of the chat's account.
RotateConfirm(p, c) ==
    /\ GetUser(c) # "none"
    /\ Begins(p, Serving("rotate", c, ChatEra, FALSE))
    /\ UNCHANGED <<users, panel, cred, bound, code, sess, taken, crossed>>

SaveUser(a, profile, ex) ==
    /\ users' = [users EXCEPT ![a] = profile]
    /\ crossed' = IF ex /\ BoundElsewhere(a) THEN crossed \cup {a} ELSE crossed
\* With /start app the saved profile has no link if the provider had the user.
WelcomeSaves(p, profile) ==
    /\ req[p].pc = "welcome" /\ (req[p].acct \notin panel => profile = "full")
    /\ panel' = panel \cup {req[p].acct}
    /\ SaveUser(req[p].acct, profile, req[p].ex)
    /\ Ends(p)
    /\ UNCHANGED <<cred, bound, code, sess, taken>>
HealSaves(p) ==
    /\ req[p].pc = "heal"
    /\ SaveUser(req[p].acct, "full", req[p].ex)
    /\ Ends(p)
    /\ UNCHANGED <<panel, cred, bound, code, sess, taken>>
\* A paid invoice names the chat that asked for it, and so does the profile it
\* is saved in: the provider's user of the chat, or with Lava the account's.
\* An invite or a rotation under a session of a chat's own id saves as much.
InvoicePaid(c) ==
    /\ panel' \in {panel, panel \cup {c}} /\ (users[c] = "none" /\ ~BoundElsewhere(c) => c \in panel')
    /\ SaveUser(c, "full", TRUE)
    /\ UNCHANGED <<cred, bound, code, sess, req, taken>>
\* A request ends without its write: a refusal, an error, the process dies.
RequestFails(p) ==
    /\ req[p] # Free
    /\ Ends(p)
    /\ panel' = IF req[p].pc = "welcome" THEN panel \cup {req[p].acct} ELSE panel
    /\ UNCHANGED <<users, cred, bound, code, sess, taken, crossed>>

PasswordStep ==
    \/ \E p \in Threads, e \in Emails, b \in BOOLEAN : CreateWebsiteAccount(p, e, b)
    \/ \E p \in Threads, e \in Emails : AuthenticateWebsiteAccount(p, e) \/ AttachWebsiteCredentials(p, e)
    \/ \E e \in Emails, k \in ResetCodes : IssuePasswordReset(e, k)
    \/ \E k \in ResetCodes : ResetWebsitePassword(k)
SessionStep ==
    \/ \E p \in Threads, t \in Tokens :
          \/ CreateWebSession(p, t)
          \/ \E pc \in {"attach", "link", "app", "bindcode", "unlink"} : BySession(p, t, pc)
    \/ \E t \in Tokens : SessionExpires(t)
    \/ \E p \in Threads, k \in LinkCodes :
          IssueLinkCode(p, k) \/ ChatIssuesLinkCode(p, k) \/ RedeemLinkCode(p, k)
    \/ \E p \in Threads : BurnLinkCode(p) \/ RequestFails(p)
    \/ \E p \in Threads, k \in AppCodes : IssueAppAuthCode(p, k) \/ RedeemAppAuthCode(p, k)
    \/ \E k \in Codes : Expire(k)
ChatStep ==
    \/ \E p \in Threads, c \in Chats :
          \/ LinkCommand(p, c) \/ SendWelcome(p, c) \/ ShowProfile(p, c)
          \/ GetUserSubUrl(p, c) \/ RotateConfirm(p, c)
    \/ \E p \in Threads : ChatResolves(p, "chatlink", "chatcode") \/ ChatResolves(p, "rotate", "heal")
    \/ \E c \in Chats : InvoicePaid(c)
    \/ \E p \in Threads, k \in BindCodes : IssueTelegramLinkCode(p, k)
    \/ \E c \in Chats, k \in BindCodes : ClaimTelegramLinkCode(c, k)
    \/ \E p \in Threads : UnlinkTelegramAccount(p) \/ HealSaves(p)
    \/ \E p \in Threads, profile \in {"full", "bare"} : WelcomeSaves(p, profile)
AccountsNext == PasswordStep \/ SessionStep \/ ChatStep
AccountsSpec == AccountsInit /\ [][AccountsNext]_avars
-----------------------------------------------------------------------------
\* The variables have their types, and no code is used again.
AccountsTypeOK ==
    /\ users \in [Accts -> {"none", "bare", "full"}] /\ panel \subseteq Accts
    /\ bound \in [Chats -> Accts \cup {Nobody}]
    /\ \A k \in Codes : code[k].st \in {"new", "live", "used", "void"} /\ code[k].acct \in Accts \cup {Nobody}
    /\ cred \in [Webs -> [email : Emails \cup {NoEmail}, ver : 0..MaxEra]]

\* After a password reset no session stands on the old password, except one
\* whose request had read its evidence before the reset, or that came from a
\* pairing code issued before it; the reset does not reach either.
ResetRevokes ==
    \A t \in Tokens : sess[t].acct \in Webs /\ sess[t].era < cred[sess[t].acct].ver => sess[t].ex

\* A chat bound to another account has no profile of its own: its /start finds
\* the account's.  Except that a /start or a link's repair had begun before the
\* binding, or was made for an account without a profile, that the repair of
\* the account's missing link was begun under the chat's id, as /start and
\* /profile do, or that an invoice of the chat was paid or a session of the
\* chat's own id redeemed an invite or rotated a link.
BoundChatHasNoProfile ==
    \A c \in Chats : BoundElsewhere(c) /\ users[c] # "none" => c \in crossed

Grant == INSTANCE OneTimeGrant WITH
            Grants <- GrantCodes, Holders <- Accts,
            holder <- [k \in GrantCodes |-> IF code[k].st \in {"live", "used"} THEN code[k].acct ELSE Nobody],
            taker <- taken

\* Pairing codes and browser codes are one-time grants: however requests,
\* reissues, resets and expiries interleave, a code is taken once, and only
\* for the account it names at that moment.
CodesAreOneTimeGrants == Grant!GrantSpec
=============================================================================
