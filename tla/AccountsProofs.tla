--------------------------- MODULE AccountsProofs ---------------------------
(***************************************************************************)
(* Proofs about Accounts, for any number of accounts, chats, codes,        *)
(* sessions and threads: what a password reset leaves behind, who may have *)
(* a profile, and that pairing and browser codes are one-time grants.      *)
(***************************************************************************)
EXTENDS Accounts, TLAPS

Holders == Accts \cup {Nobody}
Requests == {"idle", "session", "attach", "link", "app", "bindcode", "unlink", "chatlink",
             "chatcode", "rotate", "burn", "welcome", "heal"}

\* The types of what AccountsTypeOK leaves open.
CodeRows == [acct : Holders, st : {"new", "live", "used", "void"}, era : Nat, ex : BOOLEAN]
ReqRows == [pc : Requests, acct : Holders, era : Nat, ex : BOOLEAN, from : LinkCodes \cup {NoCode}]
RecordsOK ==
    /\ code \in [Codes -> CodeRows]
    /\ sess \in [Tokens -> [acct : Holders, era : Nat, ex : BOOLEAN]]
    /\ req \in [Threads -> ReqRows]
    /\ taken \in [GrantCodes -> Holders] /\ crossed \subseteq Chats

\* A code that can be used names an account, a reset code a website's; a code that
\* was redeemed is marked used.
CodesOK ==
    /\ \A k \in Codes : code[k].st = "live" => code[k].acct \in Accts
    /\ \A k \in ResetCodes : code[k].st = "live" => code[k].acct \in Webs
    /\ \A k \in GrantCodes : taken[k] # Nobody => code[k].st = "used"

\* A request knows its account; the one that is about to burn a pairing code has
\* the account of that code, as long as the code can be used.
RequestsOK ==
    \A p \in Threads :
        /\ req[p].pc # "idle" => req[p].acct \in Accts
        /\ req[p].pc \in {"chatlink", "rotate", "welcome"} => req[p].acct \in Chats
        /\ req[p].pc = "burn" => /\ req[p].from \in LinkCodes
                                 /\ code[req[p].from].st # "new"
                                 /\ code[req[p].from].st = "live" =>
                                       code[req[p].from].acct = req[p].acct

\* Evidence x for a website account is as new as its password, or known to survive.
Vouched(x) == x.acct \in Webs => /\ x.era >= 1
                                 /\ x.era >= cred[x.acct].ver \/ x.ex

\* What a session stands on was evidence all along: in the request that made it,
\* in the code or the session that the request came from.
EvidenceOK ==
    /\ \A w \in Webs : cred[w] # NoCred => cred[w].ver >= 1
    /\ \A t \in Tokens : Vouched(sess[t])
    /\ \A p \in Threads : Vouched(req[p])
    /\ \A k \in GrantCodes : code[k].st = "live" => Vouched(code[k])

\* A request that is about to give a bound chat a profile knows it.
SavesOK ==
    \A p \in Threads :
        req[p].pc \in {"welcome", "heal"} /\ BoundElsewhere(req[p].acct) => req[p].ex

AccountsInv ==
    /\ AccountsTypeOK /\ RecordsOK /\ CodesOK /\ RequestsOK /\ EvidenceOK
    /\ SavesOK /\ BoundChatHasNoProfile

-----------------------------------------------------------------------------
(* The invariant is inductive                                              *)

\* What the operators of Accounts write, field by field.
LEMMA UsedWrites ==
    ASSUME NEW k \in Codes, code[k].st = "live"
    PROVE  Used(k) = [acct |-> code[k].acct, st |-> "used", era |-> 0, ex |-> FALSE]
BY DEF Used

\* Eras are counted, and the one of a chat comes after all others.
LEMMA ErasAreNumbers == ChatEra \in Nat /\ ChatEra > MaxEra /\ 0..MaxEra \subseteq Nat
BY AccountsAssumption DEF ChatEra

\* create_website_account makes an account and goes on to its session, or leaves
\* only the provider's user.
CreateEffect(p, e, w) ==
    /\ w \in Webs
    /\ panel' = panel \cup {w}
    /\ \/ /\ users' = [users EXCEPT ![w] = "full"]
          /\ cred' = [cred EXCEPT ![w] = [email |-> e, ver |-> 1]]
          /\ req' = [req EXCEPT ![p] = Serving("session", w, 1, FALSE)]
       \/ UNCHANGED <<users, cred, req>>
    /\ UNCHANGED <<bound, code, sess, taken, crossed>>

\* The account that is created is the one whose id was allocated.
LEMMA CreateWrites ==
    ASSUME NEW p \in Threads, NEW e \in Emails, NEW b \in BOOLEAN, CreateWebsiteAccount(p, e, b)
    PROVE  \E w \in Webs : CreateEffect(p, e, w)
<1>1. AllocateWebsiteAccountId \in Webs
  BY DEF CreateWebsiteAccount
<1>2. CreateEffect(p, e, AllocateWebsiteAccountId)
  <2>1. CASE b
    BY <1>1, <2>1 DEF CreateWebsiteAccount, CreateEffect, Begins
  <2>2. CASE ~b
    BY <1>1, <2>2 DEF CreateWebsiteAccount, CreateEffect
  <2> QED BY <2>1, <2>2
<1> QED BY <1>1, <1>2

\* burn: the code k is used and the request goes on to a session or ends; or the
\* code cannot be used any more and the request ends.
BurnEffect(p, k) ==
    /\ k \in LinkCodes /\ k \in GrantCodes /\ k \in Codes
    /\ req[p].pc = "burn" /\ req[p].from = k
    /\ \/ req' = [req EXCEPT ![p] = Free]
       \/ req' = [req EXCEPT ![p] = Serving("session", req[p].acct, req[p].era, req[p].ex)]
    /\ \/ /\ code[k].st = "live" /\ code[k].acct = req[p].acct
          /\ code' = [code EXCEPT ![k] = [acct |-> req[p].acct, st |-> "used", era |-> 0, ex |-> FALSE]]
          /\ taken' = [taken EXCEPT ![k] = req[p].acct]
       \/ UNCHANGED <<code, taken>>
    /\ UNCHANGED <<users, panel, cred, bound, sess, crossed>>

\* A code is burnt for the account that the request has read from it.
LEMMA BurnWrites ==
    ASSUME RequestsOK, NEW p \in Threads, BurnLinkCode(p)
    PROVE  BurnEffect(p, req[p].from)
<1> DEFINE k == req[p].from
<1>1. /\ req[p].pc = "burn" /\ k \in LinkCodes
      /\ code[k].st = "live" => code[k].acct = req[p].acct
  BY DEF BurnLinkCode, RequestsOK
<1>2. k \in Codes /\ k \in GrantCodes
  BY <1>1 DEF Codes, GrantCodes
<1>3. Burn(p, k) /\ UNCHANGED <<users, panel, cred, bound, sess, crossed>>
  BY DEF BurnLinkCode
<1> HIDE DEF k
<1>4. CASE code[k].st = "live"
  <2>1. Used(k) = [acct |-> req[p].acct, st |-> "used", era |-> 0, ex |-> FALSE]
    BY <1>1, <1>2, <1>4, UsedWrites
  <2>2. /\ code' = [code EXCEPT ![k] = Used(k)]
        /\ taken' = [taken EXCEPT ![k] = req[p].acct]
        /\ \/ req' = [req EXCEPT ![p] = Free]
           \/ req' = [req EXCEPT ![p] = Serving("session", req[p].acct, req[p].era, req[p].ex)]
    BY <1>3, <1>4 DEF Burn, Burned, Ends
  <2> QED BY <1>1, <1>2, <1>3, <1>4, <2>1, <2>2 DEF BurnEffect, k
<1>5. CASE code[k].st # "live"
  BY <1>1, <1>2, <1>3, <1>5 DEF Burn, Ends, BurnEffect, k
<1> QED BY <1>4, <1>5 DEF k

\* reset_website_password: a new version, its own code used, browser codes void,
\* pairing codes and requests under way marked, sessions ended.
ResetEffect(k, a) ==
    /\ a \in Webs /\ a \in Accts /\ k \in Codes
    /\ cred[a].ver < MaxEra
    /\ cred' = [cred EXCEPT ![a].ver = @ + 1]
    /\ code' = [j \in Codes |->
                  IF j = k THEN [acct |-> a, st |-> "used", era |-> 0, ex |-> FALSE]
                  ELSE IF j \in AppCodes /\ code[j].acct = a /\ code[j].st = "live" THEN Void
                  ELSE IF j \in LinkCodes /\ code[j].acct = a THEN [code[j] EXCEPT !.ex = TRUE]
                  ELSE code[j]]
    /\ sess' = [t \in Tokens |-> IF sess[t].acct = a THEN NoSession ELSE sess[t]]
    /\ req' = [p \in Threads |-> IF req[p].acct = a THEN [req[p] EXCEPT !.ex = TRUE] ELSE req[p]]
    /\ UNCHANGED <<users, panel, bound, taken, crossed>>

\* A reset changes the password of the account its code was sent to.
LEMMA ResetWrites ==
    ASSUME CodesOK, NEW k \in ResetCodes, ResetWebsitePassword(k)
    PROVE  ResetEffect(k, code[k].acct)
<1>1. code[k].acct \in Webs /\ code[k].acct \in Accts /\ k \in Codes /\ code[k].st = "live"
  BY DEF ResetWebsitePassword, Reset, CodesOK, Codes, Accts
<1>2. Used(k) = [acct |-> code[k].acct, st |-> "used", era |-> 0, ex |-> FALSE]
  BY <1>1, UsedWrites
<1> QED BY <1>1, <1>2 DEF ResetWebsitePassword, Reset, RevokedSessions, ResetEffect

\* A request at work is a record of its kind.
LEMMA ServingIsRow ==
    ASSUME NEW pc \in Requests, NEW a \in Holders, NEW era \in Nat, NEW ex \in BOOLEAN
    PROVE  Serving(pc, a, era, ex) \in ReqRows
BY DEF Serving, ReqRows

\* So is a code.
LEMMA CodeIsRow ==
    ASSUME NEW a \in Holders, NEW st \in {"new", "live", "used", "void"}, NEW era \in Nat, NEW ex \in BOOLEAN
    PROVE  [acct |-> a, st |-> st, era |-> era, ex |-> ex] \in CodeRows
BY DEF CodeRows

\* The fields of a request; it may have expired meanwhile.
LEMMA ReqRowFields ==
    ASSUME NEW r \in ReqRows
    PROVE  /\ r.pc \in Requests /\ r.acct \in Holders /\ r.era \in Nat /\ r.ex \in BOOLEAN
           /\ [r EXCEPT !.ex = TRUE] \in ReqRows
BY DEF ReqRows

\* The fields of a code; it may have expired meanwhile.
LEMMA CodeRowFields ==
    ASSUME NEW r \in CodeRows
    PROVE  /\ r.acct \in Holders /\ r.era \in Nat /\ r.ex \in BOOLEAN
           /\ [r EXCEPT !.ex = TRUE] \in CodeRows
BY DEF CodeRows

\* A claimed code is used, the chat is bound, and what is about to save a profile
\* for the chat is marked.
ClaimEffect(c, k) ==
    /\ k \in Codes /\ code[k].st = "live" /\ code[k].acct \in Accts
    /\ MayBind(c, code[k].acct)
    /\ code' = [code EXCEPT ![k] = [acct |-> code[k].acct, st |-> "used", era |-> 0, ex |-> FALSE]]
    /\ bound' = [bound EXCEPT ![c] = code[k].acct]
    /\ req' = [p \in Threads |-> IF req[p].acct = c /\ req[p].pc \in {"welcome", "heal"}
                                 THEN [req[p] EXCEPT !.ex = TRUE] ELSE req[p]]
    /\ UNCHANGED <<users, panel, cred, sess, taken, crossed>>

\* A code binds the chat to the account it was issued for.
LEMMA ClaimWrites ==
    ASSUME CodesOK, NEW c \in Chats, NEW k \in BindCodes, ClaimTelegramLinkCode(c, k)
    PROVE  ClaimEffect(c, k)
<1>1. k \in Codes /\ code[k].st = "live" /\ code[k].acct \in Accts
  BY DEF ClaimTelegramLinkCode, CodesOK, Codes
<1>2. Used(k) = [acct |-> code[k].acct, st |-> "used", era |-> 0, ex |-> FALSE]
  BY <1>1, UsedWrites
<1> QED BY <1>1, <1>2 DEF ClaimTelegramLinkCode, ClaimEffect

\* A chat's request has read what it asks for, or for whom: a request that is
\* about to save a profile knows whether that is a bound chat's.
ChatReads(p) ==
    \E pc \in {"chatlink", "rotate", "welcome", "heal", "chatcode"}, a \in Accts, ex \in BOOLEAN :
        /\ pc \in {"chatlink", "rotate", "welcome"} => a \in Chats
        /\ pc \in {"welcome", "heal"} /\ BoundElsewhere(a) => ex
        /\ req' = [req EXCEPT ![p] = Serving(pc, a, ChatEra, ex)]
        /\ UNCHANGED <<users, panel, cred, bound, code, sess, taken, crossed>>

\* The account of a chat is an account.
LEMMA ResolvesToAccount ==
    ASSUME AccountsTypeOK, NEW a \in Accts PROVE ResolveTelegramAccountId(a) \in Accts
BY DEF AccountsTypeOK, ResolveTelegramAccountId

\* A chat is bound elsewhere or not.
LEMMA BoundOrNot == ASSUME NEW a PROVE BoundElsewhere(a) \in BOOLEAN /\ WithoutProfile(a) \in BOOLEAN
BY DEF BoundElsewhere, WithoutProfile

\* Every command and button of a chat reads, and no more.
LEMMA CommandsRead ==
    ASSUME AccountsInv, NEW p \in Threads, NEW c \in Chats,
           \/ LinkCommand(p, c) \/ SendWelcome(p, c) \/ ShowProfile(p, c)
           \/ GetUserSubUrl(p, c) \/ RotateConfirm(p, c)
    PROVE  ChatReads(p)
<1>1. c \in Accts /\ ResolveTelegramAccountId(c) \in Accts
  BY ResolvesToAccount DEF Accts, AccountsInv
<1>2. CASE LinkCommand(p, c)
  BY <1>1, <1>2 DEF LinkCommand, Begins, ChatReads
<1>3. CASE RotateConfirm(p, c)
  BY <1>1, <1>3 DEF RotateConfirm, Begins, ChatReads
<1>4. CASE SendWelcome(p, c)
  <2>1. PICK ex \in BOOLEAN : ex = WithoutProfile(c)
    BY BoundOrNot
  <2>2. BoundElsewhere(c) => ex
    BY <1>4, <2>1 DEF SendWelcome, WithoutProfile
  <2> QED BY <1>1, <1>4, <2>1, <2>2 DEF SendWelcome, Begins, ChatReads
<1>5. ASSUME NEW a \in Accts, FindsNoLink(p, c, a) PROVE ChatReads(p)
  <2>1. PICK ex \in BOOLEAN : ex = BoundElsewhere(a)
    BY BoundOrNot
  <2> QED BY <1>5, <2>1 DEF FindsNoLink, Begins, ChatReads
<1> QED BY <1>1, <1>2, <1>3, <1>4, <1>5 DEF ShowProfile, GetUserSubUrl

\* What a chat's step does.
LEMMA ChatStepCases ==
    ASSUME AccountsInv, ChatStep
    PROVE  \/ \E p \in Threads : ChatReads(p)
           \/ \E p \in Threads, k \in BindCodes : IssueTelegramLinkCode(p, k)
           \/ \E c \in Chats, k \in BindCodes : ClaimTelegramLinkCode(c, k)
           \/ \E p \in Threads : UnlinkTelegramAccount(p)
           \/ \E p \in Threads : HealSaves(p)
           \/ \E p \in Threads, profile \in {"full", "bare"} : WelcomeSaves(p, profile)
           \/ \E c \in Chats : InvoicePaid(c)
<1>1. ASSUME NEW p \in Threads, NEW asked \in {"chatlink", "rotate"}, NEW then \in {"chatcode", "heal"},
             ChatResolves(p, asked, then)
      PROVE  ChatReads(p)
  <2>1. PICK a \in Accts : a = ResolveTelegramAccountId(req[p].acct)
    BY <1>1, ResolvesToAccount DEF ChatResolves, AccountsInv, RequestsOK
  <2>2. PICK ex \in BOOLEAN : ex = BoundElsewhere(a)
    BY BoundOrNot
  <2> QED BY <1>1, <2>1, <2>2 DEF ChatResolves, ChatReads
<1> QED BY <1>1, CommandsRead DEF ChatStep

\* Every step keeps the types, and uses a code at most once.
LEMMA AccountsTypesStep ==
    ASSUME AccountsInv, [AccountsNext]_avars PROVE AccountsTypeOK'
<1> USE AccountsAssumption DEF AccountsInv
<1>1. ASSUME NEW p \in Threads, NEW e \in Emails, NEW b \in BOOLEAN, CreateWebsiteAccount(p, e, b)
      PROVE  AccountsTypeOK'
  <2>1. PICK w \in Webs : CreateEffect(p, e, w)
    BY <1>1, CreateWrites
  <2>2. cred' \in [Webs -> [email : Emails \cup {NoEmail}, ver : 0..MaxEra]]
    <3>1. [email |-> e, ver |-> 1] \in [email : Emails \cup {NoEmail}, ver : 0..MaxEra]
      OBVIOUS
    <3> QED BY ZenonT(60), <2>1, <3>1 DEF CreateEffect, AccountsTypeOK
  <2>3. users' \in [Accts -> {"none", "bare", "full"}] /\ panel' \subseteq Accts
    BY <2>1 DEF CreateEffect, AccountsTypeOK, Accts
  <2> QED BY <2>1, <2>2, <2>3 DEF CreateEffect, AccountsTypeOK
<1>2. ASSUME NEW p \in Threads, NEW e \in Emails, AttachWebsiteCredentials(p, e)
      PROVE  AccountsTypeOK'
  BY <1>2 DEF AttachWebsiteCredentials, Ends, Serving, Free, Accts, Codes, GrantCodes,
              Holders, AccountsTypeOK, RecordsOK, CodeRows, ReqRows, CodesOK, RequestsOK
<1>3. ASSUME NEW e \in Emails, NEW k \in ResetCodes, IssuePasswordReset(e, k)
      PROVE  AccountsTypeOK'
  BY <1>3 DEF IssuePasswordReset, Issue, Unused, Void, Fresh, Accts, Codes, GrantCodes,
              Holders, AccountsTypeOK, RecordsOK, CodeRows, ReqRows, CodesOK, RequestsOK
<1>4. ASSUME NEW k \in ResetCodes, ResetWebsitePassword(k) PROVE AccountsTypeOK'
  <2>1. PICK a : a = code[k].acct /\ ResetEffect(k, a)
    BY <1>4, ResetWrites
  <2>2. cred' \in [Webs -> [email : Emails \cup {NoEmail}, ver : 0..MaxEra]]
    BY <2>1 DEF ResetEffect, AccountsTypeOK
  <2>3. \A j \in Codes : code'[j].st \in {"new", "live", "used", "void"} /\ code'[j].acct \in Holders
    BY <2>1 DEF ResetEffect, RecordsOK, CodeRows, ReqRows, Void, Holders, Accts
  <2>4. UNCHANGED <<users, panel, bound>>
    BY <2>1 DEF ResetEffect
  <2> QED BY <2>2, <2>3, <2>4 DEF AccountsTypeOK, Holders
<1>5. ASSUME NEW p \in Threads, NEW k \in LinkCodes, IssueLinkCode(p, k) PROVE AccountsTypeOK'
  BY <1>5 DEF IssueLinkCode, Issue, Unused, Void, Fresh, Ends, Serving, Free, Accts, Codes,
              GrantCodes, Holders, AccountsTypeOK, RecordsOK, CodeRows, ReqRows, CodesOK,
              RequestsOK
<1>6. ASSUME NEW p \in Threads, NEW k \in LinkCodes, ChatIssuesLinkCode(p, k)
      PROVE  AccountsTypeOK'
  <2>1. PICK a \in Accts : Issue(LinkCodes, k, a, ChatEra, FALSE)
    BY <1>6 DEF ChatIssuesLinkCode, RequestsOK
  <2>2. \A j \in Codes : code'[j].st \in {"new", "live", "used", "void"} /\ code'[j].acct \in Accts \cup {Nobody}
    BY <2>1 DEF Issue, Void, AccountsTypeOK
  <2> QED BY <1>6, <2>2 DEF ChatIssuesLinkCode, AccountsTypeOK
<1>7. ASSUME NEW p \in Threads, BurnLinkCode(p) PROVE AccountsTypeOK'
  <2>1. PICK k : k = req[p].from /\ BurnEffect(p, k)
    BY <1>7, BurnWrites
  <2>2. \A j \in Codes : code'[j].st \in {"new", "live", "used", "void"} /\ code'[j].acct \in Holders
    BY <2>1 DEF BurnEffect, RecordsOK, CodeRows, ReqRows
  <2> QED BY <2>1, <2>2 DEF BurnEffect, AccountsTypeOK, Holders
<1>8. ASSUME NEW p \in Threads, RequestFails(p) PROVE AccountsTypeOK'
  <2>1. panel' \subseteq Accts
    BY <1>8 DEF RequestFails, RequestsOK, AccountsTypeOK
  <2> QED BY <1>8, <2>1 DEF RequestFails, AccountsTypeOK
<1>9. ASSUME NEW p \in Threads, NEW k \in AppCodes, IssueAppAuthCode(p, k)
      PROVE  AccountsTypeOK'
  BY <1>9 DEF IssueAppAuthCode, Unused, Ends, Serving, Free, Accts, Codes, GrantCodes,
              Holders, AccountsTypeOK, RecordsOK, CodeRows, ReqRows, CodesOK, RequestsOK
<1>10. ASSUME NEW p \in Threads, NEW k \in AppCodes, RedeemAppAuthCode(p, k)
      PROVE  AccountsTypeOK'
  BY <1>10 DEF RedeemAppAuthCode, Used, Fresh, Begins, Serving, Free, Accts, Codes,
               GrantCodes, Holders, AccountsTypeOK, RecordsOK, CodeRows, ReqRows, CodesOK,
               RequestsOK
<1>11. ASSUME NEW k \in Codes, Expire(k) PROVE AccountsTypeOK'
  BY <1>11 DEF Expire, Void, Fresh, Accts, Codes, GrantCodes, Holders, AccountsTypeOK,
               RecordsOK, CodeRows, ReqRows, CodesOK, RequestsOK
<1>12. ASSUME NEW p \in Threads, NEW k \in BindCodes, IssueTelegramLinkCode(p, k)
      PROVE  AccountsTypeOK'
  BY <1>12 DEF IssueTelegramLinkCode, Issue, Unused, Void, Fresh, Ends, Serving, Free,
               Accts, Codes, GrantCodes, Holders, AccountsTypeOK, RecordsOK, CodeRows,
               ReqRows, CodesOK, RequestsOK
<1>13. ASSUME NEW c \in Chats, NEW k \in BindCodes, ClaimTelegramLinkCode(c, k)
      PROVE  AccountsTypeOK'
  <2>1. ClaimEffect(c, k)
    BY <1>13, ClaimWrites
  <2>2. \A j \in Codes : code'[j].st \in {"new", "live", "used", "void"} /\ code'[j].acct \in Accts \cup {Nobody}
    BY <2>1 DEF ClaimEffect, RecordsOK, CodeRows, AccountsTypeOK
  <2> QED BY <2>1, <2>2 DEF ClaimEffect, AccountsTypeOK
<1>14. ASSUME NEW p \in Threads, UnlinkTelegramAccount(p) PROVE AccountsTypeOK'
  BY <1>14 DEF UnlinkTelegramAccount, Ends, Serving, Free, Accts, Codes, GrantCodes,
               Holders, AccountsTypeOK, RecordsOK, CodeRows, ReqRows, CodesOK, RequestsOK
<1>15. ASSUME NEW p \in Threads, HealSaves(p) PROVE AccountsTypeOK'
  <2>1. req[p].acct \in Accts
    BY <1>15 DEF HealSaves, RequestsOK
  <2> QED BY <1>15, <2>1 DEF HealSaves, SaveUser, AccountsTypeOK
<1>16. ASSUME NEW p \in Threads, NEW profile \in {"full", "bare"}, WelcomeSaves(p, profile)
      PROVE  AccountsTypeOK'
  <2>1. req[p].acct \in Accts
    BY <1>16 DEF WelcomeSaves, RequestsOK
  <2> QED BY <1>16, <2>1 DEF WelcomeSaves, SaveUser, AccountsTypeOK
<1>17. CASE UNCHANGED <<users, panel, cred, bound, code>>
  BY <1>17 DEF AccountsTypeOK, Accts, Codes, GrantCodes
<1>18. ASSUME NEW c \in Chats, InvoicePaid(c) PROVE AccountsTypeOK'
  BY <1>18 DEF InvoicePaid, SaveUser, AccountsTypeOK, Accts
<1> QED
  BY <1>1, <1>2, <1>3, <1>4, <1>5, <1>6, <1>7, <1>8, <1>9, <1>10, <1>11, <1>12, <1>13, <1>14,
     <1>15, <1>16, <1>17, <1>18, ChatStepCases
     DEF AccountsNext, PasswordStep, SessionStep, avars, AuthenticateWebsiteAccount,
         CreateWebSession, BySession, SessionExpires, RedeemLinkCode, ChatReads

\* Every step keeps the types of codes, sessions and requests.
LEMMA AccountsRecordsStep ==
    ASSUME AccountsInv, [AccountsNext]_avars PROVE RecordsOK'
<1> USE AccountsAssumption DEF AccountsInv
<1>1. ASSUME NEW p \in Threads, NEW e \in Emails, NEW b \in BOOLEAN, CreateWebsiteAccount(p, e, b)
      PROVE  RecordsOK'
  <2>1. PICK w \in Webs : CreateEffect(p, e, w)
    BY <1>1, CreateWrites
  <2>2. Serving("session", w, 1, FALSE) \in ReqRows
    BY <2>1, ServingIsRow DEF Holders, Accts, Requests
  <2> QED BY <2>1, <2>2 DEF CreateEffect, RecordsOK
<1>2. ASSUME NEW p \in Threads, NEW e \in Emails, AuthenticateWebsiteAccount(p, e)
      PROVE  RecordsOK'
  <2>1. PICK w \in Webs : req' = [req EXCEPT ![p] = Serving("session", w, cred[w].ver, FALSE)]
    BY <1>2 DEF AuthenticateWebsiteAccount, Begins
  <2>2. cred[w].ver \in Nat /\ w \in Holders
    BY ErasAreNumbers DEF AccountsTypeOK, Holders, Accts
  <2>3. req' \in [Threads -> ReqRows]
    BY <2>1, <2>2 DEF Serving, RecordsOK, CodeRows, ReqRows, Requests
  <2> QED BY <1>2, <2>3 DEF AuthenticateWebsiteAccount, RecordsOK, CodeRows, ReqRows
<1>3. ASSUME NEW p \in Threads, NEW e \in Emails, AttachWebsiteCredentials(p, e)
      PROVE  RecordsOK'
  BY <1>3 DEF AttachWebsiteCredentials, Ends, Serving, Free, Accts, Codes, GrantCodes,
              Holders, AccountsTypeOK, RecordsOK, CodeRows, ReqRows, CodesOK, RequestsOK,
              Requests
<1>4. ASSUME NEW e \in Emails, NEW k \in ResetCodes, IssuePasswordReset(e, k) PROVE RecordsOK'
  <2>1. PICK w \in Webs : Issue(ResetCodes, k, w, 0, FALSE)
    BY <1>4 DEF IssuePasswordReset
  <2> QED BY <1>4, <2>1 DEF IssuePasswordReset, Issue, Void, RecordsOK, CodeRows, ReqRows, Holders, Accts
<1>5. ASSUME NEW k \in ResetCodes, ResetWebsitePassword(k) PROVE RecordsOK'
  <2>1. PICK a : a = code[k].acct /\ ResetEffect(k, a)
    BY <1>5, ResetWrites
  <2>2. code' \in [Codes -> CodeRows]
    <3>1. Void \in CodeRows /\ [acct |-> a, st |-> "used", era |-> 0, ex |-> FALSE] \in CodeRows
      BY <2>1, CodeIsRow DEF ResetEffect, Holders, Void
    <3>2. \A j \in Codes : code[j] \in CodeRows /\ [code[j] EXCEPT !.ex = TRUE] \in CodeRows
      BY CodeRowFields DEF RecordsOK
    <3> QED BY <2>1, <3>1, <3>2 DEF ResetEffect
  <2>3. sess' \in [Tokens -> [acct : Holders, era : Nat, ex : BOOLEAN]]
    BY <2>1 DEF ResetEffect, RecordsOK, CodeRows, ReqRows, NoSession, Holders
  <2>4. req' \in [Threads -> ReqRows]
    <3>1. \A p \in Threads : req[p] \in ReqRows /\ [req[p] EXCEPT !.ex = TRUE] \in ReqRows
      BY ReqRowFields DEF RecordsOK
    <3> QED BY <2>1, <3>1 DEF ResetEffect
  <2> QED BY <2>1, <2>2, <2>3, <2>4 DEF ResetEffect, RecordsOK, CodeRows, ReqRows
<1>6. ASSUME NEW p \in Threads, NEW t \in Tokens, CreateWebSession(p, t) PROVE RecordsOK'
  BY <1>6 DEF CreateWebSession, Ends, Serving, Free, Accts, Codes, GrantCodes, Holders,
              AccountsTypeOK, RecordsOK, CodeRows, ReqRows, CodesOK, RequestsOK, Requests
<1>7. ASSUME NEW p \in Threads, NEW t \in Tokens,
             NEW pc \in {"attach", "link", "app", "bindcode", "unlink"}, BySession(p, t, pc)
      PROVE  RecordsOK'
  BY <1>7 DEF BySession, GetWebSession, Begins, Serving, Free, Accts, Codes, GrantCodes,
              Holders, AccountsTypeOK, RecordsOK, CodeRows, ReqRows, CodesOK, RequestsOK,
              Requests
<1>8. ASSUME NEW t \in Tokens, SessionExpires(t) PROVE RecordsOK'
  BY <1>8 DEF SessionExpires, NoSession, Accts, Codes, GrantCodes, Holders, AccountsTypeOK,
              RecordsOK, CodeRows, ReqRows, CodesOK, RequestsOK, Requests
<1>9. ASSUME NEW p \in Threads, NEW k \in LinkCodes, IssueLinkCode(p, k) PROVE RecordsOK'
  BY <1>9 DEF IssueLinkCode, Issue, Unused, Void, Fresh, Ends, Serving, Free, Accts, Codes,
              GrantCodes, Holders, AccountsTypeOK, RecordsOK, CodeRows, ReqRows, CodesOK,
              RequestsOK, Requests
<1>10. ASSUME NEW p \in Threads, NEW k \in LinkCodes, ChatIssuesLinkCode(p, k) PROVE RecordsOK'
  <2>1. PICK a \in Holders : Issue(LinkCodes, k, a, ChatEra, FALSE)
    BY <1>10 DEF ChatIssuesLinkCode, ResolveTelegramAccountId, RecordsOK, CodeRows, ReqRows,
                 AccountsTypeOK, Holders
  <2> QED BY <1>10, <2>1, ErasAreNumbers
          DEF ChatIssuesLinkCode, Issue, Ends, Serving, Free, Void, RecordsOK, CodeRows, ReqRows,
              Holders, Accts, Requests
<1>11. ASSUME NEW p \in Threads, NEW k \in LinkCodes, RedeemLinkCode(p, k) PROVE RecordsOK'
  BY <1>11 DEF RedeemLinkCode, Begins, Serving, Free, Accts, Codes, GrantCodes, Holders,
               AccountsTypeOK, RecordsOK, CodeRows, ReqRows, CodesOK, RequestsOK, Requests
<1>12. ASSUME NEW p \in Threads, BurnLinkCode(p) PROVE RecordsOK'
  <2>1. PICK k : k = req[p].from /\ BurnEffect(p, k)
    BY <1>12, BurnWrites
  <2>2. req' \in [Threads -> ReqRows]
    <3>1. /\ req[p].acct \in Holders /\ req[p].era \in Nat /\ req[p].ex \in BOOLEAN
          /\ "idle" \in Requests /\ "session" \in Requests /\ Nobody \in Holders
      BY ReqRowFields DEF RecordsOK, Holders, Requests
    <3>2. Free \in ReqRows /\ Serving("session", req[p].acct, req[p].era, req[p].ex) \in ReqRows
      BY <3>1, ServingIsRow DEF Free
    <3> QED BY <2>1, <3>2 DEF BurnEffect, RecordsOK
  <2>3. /\ code' \in [Codes -> CodeRows]
        /\ taken' \in [GrantCodes -> Holders]
    <3>1. req[p].acct \in Holders
      BY ReqRowFields DEF RecordsOK
    <3>2. [acct |-> req[p].acct, st |-> "used", era |-> 0, ex |-> FALSE] \in CodeRows
      BY <3>1, CodeIsRow
    <3> QED BY <2>1, <3>1, <3>2 DEF BurnEffect, RecordsOK
  <2> QED BY <2>1, <2>2, <2>3 DEF BurnEffect, RecordsOK, CodeRows, ReqRows
<1>13. ASSUME NEW p \in Threads, RequestFails(p) PROVE RecordsOK'
  BY <1>13 DEF RequestFails, Ends, Serving, Free, Accts, Codes, GrantCodes, Holders,
               AccountsTypeOK, RecordsOK, CodeRows, ReqRows, CodesOK, RequestsOK, Requests
<1>14. ASSUME NEW p \in Threads, NEW k \in AppCodes, IssueAppAuthCode(p, k) PROVE RecordsOK'
  BY <1>14 DEF IssueAppAuthCode, Unused, Ends, Serving, Free, Accts, Codes, GrantCodes,
               Holders, AccountsTypeOK, RecordsOK, CodeRows, ReqRows, CodesOK, RequestsOK,
               Requests
<1>15. ASSUME NEW p \in Threads, NEW k \in AppCodes, RedeemAppAuthCode(p, k) PROVE RecordsOK'
  <2>1. k \in Codes /\ k \in GrantCodes /\ code[k].st = "live"
    BY <1>15 DEF RedeemAppAuthCode, Codes, GrantCodes
  <2>2. code[k].acct \in Holders /\ code[k].era \in Nat /\ code[k].ex \in BOOLEAN
    BY <2>1 DEF RecordsOK, CodeRows, ReqRows
  <2>3. \/ req' = req
        \/ req' = [req EXCEPT ![p] = Serving("session", code[k].acct, code[k].era, code[k].ex)]
    BY <1>15 DEF RedeemAppAuthCode, Begins
  <2>4. req' \in [Threads -> ReqRows]
    BY <2>2, <2>3 DEF Serving, RecordsOK, CodeRows, ReqRows, Requests
  <2>5. Used(k) = [acct |-> code[k].acct, st |-> "used", era |-> 0, ex |-> FALSE]
    BY <2>1, UsedWrites
  <2>6. code' \in [Codes -> CodeRows]
    <3>1. Used(k) \in CodeRows
      BY <2>2, <2>5, CodeIsRow
    <3> QED BY <1>15, <3>1 DEF RedeemAppAuthCode, RecordsOK
  <2>7. taken' \in [GrantCodes -> Holders]
    BY <1>15, <2>2 DEF RedeemAppAuthCode, RecordsOK, CodeRows, ReqRows
  <2> QED BY <1>15, <2>4, <2>6, <2>7 DEF RedeemAppAuthCode, RecordsOK, CodeRows, ReqRows
<1>16. ASSUME NEW k \in Codes, Expire(k) PROVE RecordsOK'
  BY <1>16 DEF Expire, Void, Fresh, Accts, Codes, GrantCodes, Holders, AccountsTypeOK,
               RecordsOK, CodeRows, ReqRows, CodesOK, RequestsOK, Requests
<1>17. ASSUME NEW p \in Threads, ChatReads(p) PROVE RecordsOK'
  <2>1. PICK pc \in Requests, a \in Holders, ex \in BOOLEAN :
             req' = [req EXCEPT ![p] = Serving(pc, a, ChatEra, ex)]
    BY <1>17 DEF ChatReads, Requests, Holders
  <2>2. Serving(pc, a, ChatEra, ex) \in ReqRows
    BY ErasAreNumbers, ServingIsRow
  <2> QED BY <1>17, <2>1, <2>2 DEF ChatReads, RecordsOK
<1>18. ASSUME NEW c \in Chats, InvoicePaid(c) PROVE RecordsOK'
  BY <1>18 DEF InvoicePaid, SaveUser, RecordsOK
<1>19. ASSUME NEW p \in Threads, NEW k \in BindCodes, IssueTelegramLinkCode(p, k)
      PROVE  RecordsOK'
  BY <1>19 DEF IssueTelegramLinkCode, Issue, Unused, Void, Fresh, Ends, Serving, Free,
               Accts, Codes, GrantCodes, Holders, AccountsTypeOK, RecordsOK, CodeRows,
               ReqRows, CodesOK, RequestsOK, Requests
<1>20. ASSUME NEW c \in Chats, NEW k \in BindCodes, ClaimTelegramLinkCode(c, k)
      PROVE  RecordsOK'
  <2>1. ClaimEffect(c, k)
    BY <1>20, ClaimWrites
  <2>2. [acct |-> code[k].acct, st |-> "used", era |-> 0, ex |-> FALSE] \in CodeRows
    BY <2>1, CodeIsRow DEF ClaimEffect, Holders
  <2>3. code' \in [Codes -> CodeRows]
    BY <2>1, <2>2 DEF ClaimEffect, RecordsOK
  <2>4. req' \in [Threads -> ReqRows]
    BY <2>1, ReqRowFields DEF ClaimEffect, RecordsOK
  <2> QED BY <2>1, <2>3, <2>4 DEF ClaimEffect, RecordsOK
<1>21. ASSUME NEW p \in Threads, UnlinkTelegramAccount(p) PROVE RecordsOK'
  BY <1>21 DEF UnlinkTelegramAccount, Ends, Serving, Free, Accts, Codes, GrantCodes,
               Holders, AccountsTypeOK, RecordsOK, CodeRows, ReqRows, CodesOK, RequestsOK,
               Requests
<1>22. ASSUME NEW p \in Threads, HealSaves(p) PROVE RecordsOK'
  <2>1. req[p].acct \in Accts /\ Free \in ReqRows
    BY <1>22, ServingIsRow DEF HealSaves, RequestsOK, Free, Holders, Requests
  <2>2. crossed' \subseteq Chats
    BY <1>22, <2>1 DEF HealSaves, SaveUser, BoundElsewhere, RecordsOK
  <2> QED BY <1>22, <2>1, <2>2 DEF HealSaves, Ends, RecordsOK
<1>23. ASSUME NEW p \in Threads, NEW profile \in {"full", "bare"}, WelcomeSaves(p, profile)
      PROVE  RecordsOK'
  <2>1. req[p].acct \in Chats /\ Free \in ReqRows
    BY <1>23, ServingIsRow DEF WelcomeSaves, RequestsOK, Free, Holders, Requests
  <2>2. crossed' \subseteq Chats
    BY <1>23, <2>1 DEF WelcomeSaves, SaveUser, RecordsOK
  <2> QED BY <1>23, <2>1, <2>2 DEF WelcomeSaves, Ends, RecordsOK
<1>24. CASE UNCHANGED <<code, sess, req, taken, crossed>>
  BY <1>24 DEF RecordsOK, Accts, Codes, GrantCodes
<1> QED
  BY <1>1, <1>2, <1>3, <1>4, <1>5, <1>6, <1>7, <1>8, <1>9, <1>10, <1>11, <1>12, <1>13, <1>14,
     <1>15, <1>16, <1>17, <1>18, <1>19, <1>20, <1>21, <1>22, <1>23, <1>24, ChatStepCases
     DEF AccountsNext, PasswordStep, SessionStep, avars

\* Every step leaves each usable code with its account and each redeemed one used.
LEMMA AccountsCodesStep ==
    ASSUME AccountsInv, [AccountsNext]_avars PROVE CodesOK'
<1> USE AccountsAssumption DEF AccountsInv
<1>1. ASSUME NEW e \in Emails, NEW k \in ResetCodes, IssuePasswordReset(e, k) PROVE CodesOK'
  BY <1>1 DEF IssuePasswordReset, Issue, Unused, Void, Fresh, Accts, Codes, GrantCodes,
              Holders, AccountsTypeOK, RecordsOK, CodeRows, ReqRows, CodesOK, RequestsOK
<1>2. ASSUME NEW k \in ResetCodes, ResetWebsitePassword(k) PROVE CodesOK'
  <2>1. PICK a : a = code[k].acct /\ ResetEffect(k, a)
    BY <1>2, ResetWrites
  <2>2. \A j \in Codes : code'[j].st = "live" => code[j].st = "live" /\ code'[j].acct = code[j].acct
    BY <2>1 DEF ResetEffect, RecordsOK, CodeRows, ReqRows, Void
  <2>3. \A j \in GrantCodes : code[j].st = "used" => code'[j].st = "used"
    BY <2>1 DEF ResetEffect, RecordsOK, CodeRows, ReqRows, Codes, GrantCodes
  <2> QED BY <2>1, <2>2, <2>3 DEF ResetEffect, CodesOK, Codes
<1>3. ASSUME NEW p \in Threads, NEW k \in LinkCodes, IssueLinkCode(p, k) PROVE CodesOK'
  BY <1>3 DEF IssueLinkCode, Issue, Unused, Void, Fresh, Ends, Serving, Free, Accts, Codes,
              GrantCodes, Holders, AccountsTypeOK, RecordsOK, CodeRows, ReqRows, CodesOK,
              RequestsOK
<1>4. ASSUME NEW p \in Threads, NEW k \in LinkCodes, ChatIssuesLinkCode(p, k) PROVE CodesOK'
  <2>1. PICK a \in Accts : Issue(LinkCodes, k, a, ChatEra, FALSE)
    BY <1>4 DEF ChatIssuesLinkCode, RequestsOK
  <2>2. \A j \in Codes : \/ code'[j] = code[j] \/ code'[j].st = "void"
                         \/ j = k /\ code'[j].st = "live" /\ code'[j].acct = a
    BY <2>1 DEF Issue, Void
  <2>3. \A j \in Codes : code[j].st = "used" => code'[j] = code[j]
    BY <2>1 DEF Issue, Unused
  <2>4. k \notin ResetCodes /\ taken' = taken
    BY <1>4 DEF ChatIssuesLinkCode
  <2> QED BY <2>2, <2>3, <2>4 DEF CodesOK, Codes, GrantCodes
<1>5. ASSUME NEW p \in Threads, BurnLinkCode(p) PROVE CodesOK'
  <2>1. PICK k : k = req[p].from /\ BurnEffect(p, k)
    BY <1>5, BurnWrites
  <2>2. \A j \in Codes : code'[j].st = "live" => code'[j] = code[j]
    BY <2>1 DEF BurnEffect, RecordsOK, CodeRows, ReqRows
  <2>3. \A j \in GrantCodes : taken'[j] # Nobody => code'[j].st = "used"
    BY <2>1 DEF BurnEffect, RecordsOK, CodeRows, ReqRows, CodesOK, Codes, GrantCodes
  <2> QED BY <2>2, <2>3 DEF CodesOK, Codes
<1>6. ASSUME NEW p \in Threads, NEW k \in AppCodes, IssueAppAuthCode(p, k) PROVE CodesOK'
  BY <1>6 DEF IssueAppAuthCode, Unused, Ends, Serving, Free, Accts, Codes, GrantCodes,
              Holders, AccountsTypeOK, RecordsOK, CodeRows, ReqRows, CodesOK, RequestsOK
<1>7. ASSUME NEW p \in Threads, NEW k \in AppCodes, RedeemAppAuthCode(p, k) PROVE CodesOK'
  BY <1>7 DEF RedeemAppAuthCode, Used, Fresh, Begins, Serving, Free, Accts, Codes,
              GrantCodes, Holders, AccountsTypeOK, RecordsOK, CodeRows, ReqRows, CodesOK,
              RequestsOK
<1>8. ASSUME NEW k \in Codes, Expire(k) PROVE CodesOK'
  BY <1>8 DEF Expire, Void, Fresh, Accts, Codes, GrantCodes, Holders, AccountsTypeOK,
              RecordsOK, CodeRows, ReqRows, CodesOK, RequestsOK
<1>9. ASSUME NEW p \in Threads, NEW k \in BindCodes, IssueTelegramLinkCode(p, k) PROVE CodesOK'
  BY <1>9 DEF IssueTelegramLinkCode, Issue, Unused, Void, Fresh, Ends, Serving, Free, Accts,
              Codes, GrantCodes, Holders, AccountsTypeOK, RecordsOK, CodeRows, ReqRows,
              CodesOK, RequestsOK
<1>10. ASSUME NEW c \in Chats, NEW k \in BindCodes, ClaimTelegramLinkCode(c, k) PROVE CodesOK'
  <2>1. ClaimEffect(c, k)
    BY <1>10, ClaimWrites
  <2>2. \A j \in Codes : j # k => code'[j] = code[j]
    BY <2>1 DEF ClaimEffect
  <2>3. code'[k].st = "used"
    BY <2>1 DEF ClaimEffect, RecordsOK
  <2> QED BY <2>1, <2>2, <2>3 DEF ClaimEffect, CodesOK, Codes, GrantCodes
<1>11. CASE UNCHANGED <<code, taken>>
  BY <1>11 DEF CodesOK, Accts, Codes, GrantCodes
<1> QED
  BY <1>1, <1>2, <1>3, <1>4, <1>5, <1>6, <1>7, <1>8, <1>9, <1>10, <1>11, ChatStepCases
     DEF AccountsNext, PasswordStep, SessionStep, avars, CreateWebsiteAccount,
         AuthenticateWebsiteAccount, AttachWebsiteCredentials, CreateWebSession, BySession,
         SessionExpires, RedeemLinkCode, RequestFails, ChatReads,
         UnlinkTelegramAccount, HealSaves, WelcomeSaves, InvoicePaid

\* Every step leaves requests with the account of their code.
LEMMA AccountsRequestsStep ==
    ASSUME AccountsInv, [AccountsNext]_avars PROVE RequestsOK'
<1> USE AccountsAssumption DEF AccountsInv
<1>1. ASSUME NEW p \in Threads, NEW e \in Emails, NEW b \in BOOLEAN, CreateWebsiteAccount(p, e, b)
      PROVE  RequestsOK'
  <2>1. PICK w \in Webs : CreateEffect(p, e, w)
    BY <1>1, CreateWrites
  <2>2. code' = code
    BY <2>1 DEF CreateEffect
  <2>3. \A q \in Threads : req'[q] = req[q] \/ (req'[q].pc = "session" /\ req'[q].acct = w)
    BY <2>1 DEF CreateEffect, Serving, RecordsOK, CodeRows, ReqRows
  <2> QED BY <2>2, <2>3 DEF RequestsOK, Accts
<1>2. ASSUME NEW p \in Threads, NEW e \in Emails, AuthenticateWebsiteAccount(p, e)
      PROVE  RequestsOK'
  BY <1>2 DEF AuthenticateWebsiteAccount, Begins, Serving, Free, Accts, Codes, GrantCodes,
              Holders, AccountsTypeOK, RecordsOK, CodeRows, ReqRows, CodesOK, RequestsOK,
              Requests
<1>3. ASSUME NEW p \in Threads, NEW e \in Emails, AttachWebsiteCredentials(p, e)
      PROVE  RequestsOK'
  BY <1>3 DEF AttachWebsiteCredentials, Ends, Serving, Free, Accts, Codes, GrantCodes,
              Holders, AccountsTypeOK, RecordsOK, CodeRows, ReqRows, CodesOK, RequestsOK,
              Requests
<1>4. ASSUME NEW e \in Emails, NEW k \in ResetCodes, IssuePasswordReset(e, k) PROVE RequestsOK'
  BY <1>4 DEF IssuePasswordReset, Issue, Unused, Void, Fresh, Accts, Codes, GrantCodes,
              Holders, AccountsTypeOK, RecordsOK, CodeRows, ReqRows, CodesOK, RequestsOK,
              Requests
<1>5. ASSUME NEW k \in ResetCodes, ResetWebsitePassword(k) PROVE RequestsOK'
  <2>1. PICK a : a = code[k].acct /\ ResetEffect(k, a)
    BY <1>5, ResetWrites
  <2>2. \A p \in Threads : /\ req'[p].pc = req[p].pc /\ req'[p].acct = req[p].acct
                           /\ req'[p].from = req[p].from
    BY <2>1 DEF ResetEffect, RecordsOK, CodeRows, ReqRows
  <2>3. \A j \in LinkCodes : code'[j].st = code[j].st /\ code'[j].acct = code[j].acct
    BY <2>1 DEF ResetEffect, RecordsOK, CodeRows, ReqRows, Codes, GrantCodes
  <2> QED BY <2>2, <2>3 DEF RequestsOK
<1>6. ASSUME NEW p \in Threads, NEW t \in Tokens, CreateWebSession(p, t) PROVE RequestsOK'
  BY <1>6 DEF CreateWebSession, Ends, Serving, Free, Accts, Codes, GrantCodes, Holders,
              AccountsTypeOK, RecordsOK, CodeRows, ReqRows, CodesOK, RequestsOK, Requests
<1>7. ASSUME NEW p \in Threads, NEW t \in Tokens,
             NEW pc \in {"attach", "link", "app", "bindcode", "unlink"}, BySession(p, t, pc)
      PROVE  RequestsOK'
  BY <1>7 DEF BySession, GetWebSession, Begins, Serving, Free, Accts, Codes, GrantCodes,
              Holders, AccountsTypeOK, RecordsOK, CodeRows, ReqRows, CodesOK, RequestsOK,
              Requests
<1>8. ASSUME NEW p \in Threads, NEW k \in LinkCodes, IssueLinkCode(p, k) PROVE RequestsOK'
  BY <1>8 DEF IssueLinkCode, Issue, Unused, Void, Fresh, Ends, Serving, Free, Accts, Codes,
              GrantCodes, Holders, AccountsTypeOK, RecordsOK, CodeRows, ReqRows, CodesOK,
              RequestsOK, Requests
<1>9. ASSUME NEW p \in Threads, NEW k \in LinkCodes, ChatIssuesLinkCode(p, k) PROVE RequestsOK'
  <2>1. PICK a : Issue(LinkCodes, k, a, ChatEra, FALSE)
    BY <1>9 DEF ChatIssuesLinkCode
  <2>2. k \in Codes /\ code[k].st = "new"
    BY <2>1 DEF Issue, Unused, Codes, GrantCodes
  <2>3. \A j \in Codes : j # k => code'[j] = code[j] \/ code'[j].st = "void"
    BY <2>1 DEF Issue, Void
  <2>4. \A q \in Threads : req'[q] = req[q] \/ req'[q].pc = "idle"
    BY <1>9 DEF ChatIssuesLinkCode, Ends, Free, Serving, RecordsOK
  <2>5. LinkCodes \subseteq Codes
    BY DEF Codes, GrantCodes
  <2> QED BY <2>2, <2>3, <2>4, <2>5 DEF RequestsOK
<1>10. ASSUME NEW p \in Threads, NEW k \in LinkCodes, RedeemLinkCode(p, k) PROVE RequestsOK'
  BY <1>10 DEF RedeemLinkCode, Begins, Serving, Free, Accts, Codes, GrantCodes, Holders,
               AccountsTypeOK, RecordsOK, CodeRows, ReqRows, CodesOK, RequestsOK, Requests
<1>11. ASSUME NEW p \in Threads, BurnLinkCode(p) PROVE RequestsOK'
  <2>1. PICK k : k = req[p].from /\ BurnEffect(p, k)
    BY <1>11, BurnWrites
  <2>2. \A j \in Codes : /\ code'[j].st = "new" => code[j].st = "new"
                         /\ code'[j].st = "live" => code'[j] = code[j]
    BY <2>1 DEF BurnEffect, RecordsOK, CodeRows, ReqRows
  <2>3. \A q \in Threads : \/ req'[q] = req[q]
                           \/ req'[q].pc = "idle"
                           \/ req'[q].pc = "session" /\ req[q].pc = "burn" /\ req'[q].acct = req[q].acct
    BY <2>1 DEF BurnEffect, RecordsOK, CodeRows, ReqRows, Serving, Free
  <2>4. req[p].pc = "burn" /\ LinkCodes \subseteq Codes
    BY <2>1 DEF BurnEffect, Codes, GrantCodes
  <2>5. ASSUME NEW q \in Threads
        PROVE  /\ req'[q].pc # "idle" => req'[q].acct \in Accts
               /\ req'[q].pc \in {"chatlink", "rotate", "welcome"} => req'[q].acct \in Chats
               /\ req'[q].pc = "burn" => /\ req'[q].from \in LinkCodes
                                         /\ code'[req'[q].from].st # "new"
                                         /\ code'[req'[q].from].st = "live" =>
                                               code'[req'[q].from].acct = req'[q].acct
    <3>1. CASE req'[q] = req[q]
      <4>1. PICK r : r = req[q] /\ r = req'[q]
        BY <3>1
      <4>2. /\ r.pc # "idle" => r.acct \in Accts
            /\ r.pc \in {"chatlink", "rotate", "welcome"} => r.acct \in Chats
            /\ r.pc = "burn" => /\ r.from \in LinkCodes
                                /\ code[r.from].st # "new"
                                /\ code[r.from].st = "live" => code[r.from].acct = r.acct
        BY <4>1 DEF RequestsOK
      <4>3. r.pc = "burn" => /\ code'[r.from].st # "new"
                             /\ code'[r.from].st = "live" => code'[r.from].acct = r.acct
        BY <2>2, <2>4, <4>2
      <4> QED BY <4>1, <4>2, <4>3, Zenon
    <3>2. CASE req'[q].pc = "idle"
      BY <3>2
    <3>3. CASE req'[q].pc = "session" /\ req[q].pc = "burn" /\ req'[q].acct = req[q].acct
      BY <3>3 DEF RequestsOK
    <3> QED BY <2>3, <3>1, <3>2, <3>3
  <2> QED BY <2>5 DEF RequestsOK
<1>12. ASSUME NEW p \in Threads, RequestFails(p) PROVE RequestsOK'
  BY <1>12 DEF RequestFails, Ends, Serving, Free, Accts, Codes, GrantCodes, Holders,
               AccountsTypeOK, RecordsOK, CodeRows, ReqRows, CodesOK, RequestsOK, Requests
<1>13. ASSUME NEW p \in Threads, NEW k \in AppCodes, IssueAppAuthCode(p, k) PROVE RequestsOK'
  BY <1>13 DEF IssueAppAuthCode, Unused, Ends, Serving, Free, Accts, Codes, GrantCodes,
               Holders, AccountsTypeOK, RecordsOK, CodeRows, ReqRows, CodesOK, RequestsOK,
               Requests
<1>14. ASSUME NEW p \in Threads, NEW k \in AppCodes, RedeemAppAuthCode(p, k) PROVE RequestsOK'
  <2>1. k \in Codes /\ code[k].st = "live" /\ code[k].acct \in Accts
    BY <1>14 DEF RedeemAppAuthCode, CodesOK, Codes, GrantCodes
  <2>2. \A j \in LinkCodes : code'[j] = code[j]
    BY <1>14 DEF RedeemAppAuthCode, RecordsOK, CodeRows, ReqRows, Codes, GrantCodes
  <2>3. \/ req' = req
        \/ req' = [req EXCEPT ![p] = Serving("session", code[k].acct, code[k].era, code[k].ex)]
    BY <1>14 DEF RedeemAppAuthCode, Begins
  <2>4. \A q \in Threads : req'[q] = req[q] \/ (req'[q].pc = "session" /\ req'[q].acct = code[k].acct)
    BY <2>3 DEF Serving, RecordsOK, CodeRows, ReqRows
  <2> QED BY <2>1, <2>2, <2>4 DEF RequestsOK
<1>15. ASSUME NEW k \in Codes, Expire(k) PROVE RequestsOK'
  BY <1>15 DEF Expire, Void, Fresh, Accts, Codes, GrantCodes, Holders, AccountsTypeOK,
               RecordsOK, CodeRows, ReqRows, CodesOK, RequestsOK, Requests
<1>16. ASSUME NEW p \in Threads, ChatReads(p) PROVE RequestsOK'
  <2>1. PICK pc \in {"chatlink", "rotate", "welcome", "heal", "chatcode"}, a \in Accts, ex \in BOOLEAN :
             /\ pc \in {"chatlink", "rotate", "welcome"} => a \in Chats
             /\ req' = [req EXCEPT ![p] = Serving(pc, a, ChatEra, ex)]
    BY <1>16 DEF ChatReads
  <2>2. \A q \in Threads : req'[q] = req[q] \/ (req'[q].pc = pc /\ req'[q].acct = a)
    BY <2>1 DEF Serving, RecordsOK
  <2>3. code' = code
    BY <1>16 DEF ChatReads
  <2> QED BY <2>1, <2>2, <2>3 DEF RequestsOK
<1>17. ASSUME NEW c \in Chats, InvoicePaid(c) PROVE RequestsOK'
  BY <1>17 DEF InvoicePaid, RequestsOK
<1>18. ASSUME NEW p \in Threads, NEW k \in BindCodes, IssueTelegramLinkCode(p, k)
      PROVE  RequestsOK'
  BY <1>18 DEF IssueTelegramLinkCode, Issue, Unused, Void, Fresh, Ends, Serving, Free,
               Accts, Codes, GrantCodes, Holders, AccountsTypeOK, RecordsOK, CodeRows,
               ReqRows, CodesOK, RequestsOK, Requests
<1>19. ASSUME NEW c \in Chats, NEW k \in BindCodes, ClaimTelegramLinkCode(c, k)
      PROVE  RequestsOK'
  <2>1. ClaimEffect(c, k)
    BY <1>19, ClaimWrites
  <2>2. \A q \in Threads : /\ req'[q].pc = req[q].pc /\ req'[q].acct = req[q].acct
                           /\ req'[q].from = req[q].from
    BY <2>1 DEF ClaimEffect, RecordsOK, ReqRows
  <2>3. \A j \in LinkCodes : code'[j] = code[j]
    BY <2>1 DEF ClaimEffect, RecordsOK, Codes, GrantCodes
  <2> QED BY <2>2, <2>3 DEF RequestsOK
<1>20. ASSUME NEW p \in Threads, UnlinkTelegramAccount(p) PROVE RequestsOK'
  BY <1>20 DEF UnlinkTelegramAccount, Ends, Serving, Free, Accts, Codes, GrantCodes,
               Holders, AccountsTypeOK, RecordsOK, CodeRows, ReqRows, CodesOK, RequestsOK,
               Requests
<1>21. ASSUME NEW p \in Threads, HealSaves(p) PROVE RequestsOK'
  BY <1>21 DEF HealSaves, SaveUser, Ends, Serving, Free, Accts, Codes, GrantCodes, Holders,
               AccountsTypeOK, RecordsOK, CodeRows, ReqRows, CodesOK, RequestsOK, Requests
<1>22. ASSUME NEW p \in Threads, NEW profile \in {"full", "bare"}, WelcomeSaves(p, profile)
      PROVE  RequestsOK'
  BY <1>22 DEF WelcomeSaves, SaveUser, Ends, Serving, Free, Accts, Codes, GrantCodes,
               Holders, AccountsTypeOK, RecordsOK, CodeRows, ReqRows, CodesOK, RequestsOK,
               Requests
<1>23. CASE UNCHANGED <<req, code>>
  BY <1>23 DEF RequestsOK, Accts, Codes, GrantCodes
<1> QED
  BY <1>1, <1>2, <1>3, <1>4, <1>5, <1>6, <1>7, <1>8, <1>9, <1>10, <1>11, <1>12, <1>13, <1>14,
     <1>15, <1>16, <1>17, <1>18, <1>19, <1>20, <1>21, <1>22, <1>23, ChatStepCases
     DEF AccountsNext, PasswordStep, SessionStep, avars, SessionExpires

\* Every step hands evidence on as it was read, and a reset marks what it does not end.
LEMMA AccountsEvidenceStep ==
    ASSUME AccountsInv, [AccountsNext]_avars PROVE EvidenceOK'
<1> USE AccountsAssumption DEF AccountsInv
<1>1. ASSUME NEW p \in Threads, NEW e \in Emails, NEW b \in BOOLEAN, CreateWebsiteAccount(p, e, b)
      PROVE  EvidenceOK'
  <2>1. PICK w \in Webs : CreateEffect(p, e, w)
    BY <1>1, CreateWrites
  <2>2. UNCHANGED <<sess, code>>
    BY <2>1 DEF CreateEffect
  <2>3. CASE UNCHANGED <<cred, req>>
    BY <2>2, <2>3 DEF EvidenceOK, Vouched
  <2>4. CASE /\ cred' = [cred EXCEPT ![w] = [email |-> e, ver |-> 1]]
             /\ req' = [req EXCEPT ![p] = Serving("session", w, 1, FALSE)]
    <3>1. \A v \in Webs : cred'[v].ver = (IF v = w THEN 1 ELSE cred[v].ver) /\ (v # w => cred'[v] = cred[v])
      BY <2>4 DEF AccountsTypeOK
    <3>2. /\ \A t \in Tokens : Vouched(sess[t])'
          /\ \A j \in GrantCodes : code'[j].st = "live" => Vouched(code[j])'
      BY <2>2, <3>1 DEF EvidenceOK, Vouched
    <3>3. \A q \in Threads : \/ req'[q] = req[q]
                             \/ req'[q].acct = w /\ req'[q].era = 1
      BY <2>4 DEF RecordsOK, CodeRows, ReqRows, Serving
    <3>4. \A q \in Threads : Vouched(req[q])'
      <4> SUFFICES ASSUME NEW q \in Threads, req'[q].acct \in Webs
                   PROVE  req'[q].era >= 1 /\ (req'[q].era >= cred'[req'[q].acct].ver \/ req'[q].ex)
        BY DEF Vouched
      <4>1. CASE req'[q].acct = w /\ req'[q].era = 1
        BY <3>1, <4>1
      <4>2. CASE req'[q] = req[q]
        <5>1. Vouched(req[q]) /\ req[q].era \in Nat
          BY ReqRowFields DEF EvidenceOK, RecordsOK
        <5>2. CASE req[q].acct = w
          BY <3>1, <4>2, <5>1, <5>2 DEF Vouched
        <5>3. CASE req[q].acct # w
          BY <3>1, <4>2, <5>1, <5>3 DEF Vouched
        <5> QED BY <5>2, <5>3
      <4> QED BY <3>3, <4>1, <4>2
    <3>5. \A v \in Webs : cred'[v] # NoCred => cred'[v].ver >= 1
      BY <3>1 DEF EvidenceOK
    <3> QED BY <3>2, <3>4, <3>5 DEF EvidenceOK
  <2> QED BY <2>1, <2>3, <2>4 DEF CreateEffect
<1>2. ASSUME NEW p \in Threads, NEW e \in Emails, AuthenticateWebsiteAccount(p, e)
      PROVE  EvidenceOK'
  BY <1>2 DEF AuthenticateWebsiteAccount, Begins, Serving, Free, Accts, Codes, GrantCodes,
              Holders, AccountsTypeOK, RecordsOK, CodeRows, ReqRows, CodesOK, RequestsOK,
              EvidenceOK, Vouched, NoCred
<1>3. ASSUME NEW p \in Threads, NEW e \in Emails, AttachWebsiteCredentials(p, e)
      PROVE  EvidenceOK'
  BY <1>3 DEF AttachWebsiteCredentials, Ends, Serving, Free, Accts, Codes, GrantCodes,
              Holders, AccountsTypeOK, RecordsOK, CodeRows, ReqRows, CodesOK, RequestsOK,
              EvidenceOK, Vouched, NoCred
<1>4. ASSUME NEW e \in Emails, NEW k \in ResetCodes, IssuePasswordReset(e, k) PROVE EvidenceOK'
  <2>1. PICK a : Issue(ResetCodes, k, a, 0, FALSE)
    BY <1>4 DEF IssuePasswordReset
  <2>2. cred' = cred /\ sess' = sess /\ req' = req
    BY <1>4 DEF IssuePasswordReset
  <2>3. \A j \in GrantCodes : code'[j].st = "live" => code'[j] = code[j]
    BY <2>1, AccountsAssumption DEF Issue, Void, Codes, GrantCodes
  <2> QED BY <2>2, <2>3 DEF EvidenceOK, Vouched
<1>5. ASSUME NEW k \in ResetCodes, ResetWebsitePassword(k) PROVE EvidenceOK'
  <2>1. PICK a : a = code[k].acct /\ ResetEffect(k, a)
    BY <1>5, ResetWrites
  <2>2. \A v \in Webs : /\ v # a => cred'[v] = cred[v]
                        /\ v = a => cred'[v].ver = cred[v].ver + 1
                        /\ cred[v].ver \in Nat
    BY <2>1, ErasAreNumbers DEF ResetEffect, AccountsTypeOK
  <2>3. \A t \in Tokens : Vouched(sess[t])'
    <3>1. \A t \in Tokens : sess'[t].acct = Nobody \/ (sess[t].acct # a /\ sess'[t] = sess[t])
      BY <2>1 DEF ResetEffect, NoSession
    <3> QED BY ZenonT(60), <2>2, <3>1 DEF EvidenceOK, Vouched, Accts
  <2>4. \A p \in Threads : Vouched(req[p])'
    <3>1. \A p \in Threads : /\ req'[p].acct = req[p].acct /\ req'[p].era = req[p].era
                             /\ req[p].acct = a => req'[p].ex
                             /\ req[p].acct # a => req'[p] = req[p]
      BY <2>1 DEF ResetEffect, RecordsOK, ReqRows
    <3> QED BY ZenonT(60), <2>2, <3>1 DEF EvidenceOK, Vouched
  <2>5. \A j \in GrantCodes : code'[j].st = "live" => Vouched(code[j])'
    <3>1. \A j \in GrantCodes : code'[j].st = "live" =>
             /\ code[j].st = "live" /\ code'[j].acct = code[j].acct /\ code'[j].era = code[j].era
             /\ code[j].acct = a => code'[j].ex
             /\ code[j].acct # a => code'[j] = code[j]
      <4> SUFFICES ASSUME NEW j \in GrantCodes, code'[j].st = "live"
                   PROVE  /\ code[j].st = "live" /\ code'[j].acct = code[j].acct /\ code'[j].era = code[j].era
                          /\ code[j].acct = a => code'[j].ex
                          /\ code[j].acct # a => code'[j] = code[j]
        OBVIOUS
      <4>1. j \in Codes /\ code[j] \in CodeRows
        BY DEF Codes, RecordsOK
      <4>2. code'[j] = IF j = k THEN [acct |-> a, st |-> "used", era |-> 0, ex |-> FALSE]
                       ELSE IF j \in AppCodes /\ code[j].acct = a /\ code[j].st = "live" THEN Void
                       ELSE IF j \in LinkCodes /\ code[j].acct = a THEN [code[j] EXCEPT !.ex = TRUE]
                       ELSE code[j]
        BY <2>1, <4>1 DEF ResetEffect
      <4> QED BY <4>1, <4>2 DEF GrantCodes, CodeRows, Void
    <3> SUFFICES ASSUME NEW j \in GrantCodes, code'[j].st = "live", code'[j].acct \in Webs
                 PROVE  code'[j].era >= 1 /\ (code'[j].era >= cred'[code'[j].acct].ver \/ code'[j].ex)
      BY DEF Vouched
    <3>2. Vouched(code[j]) /\ code'[j].acct = code[j].acct /\ code'[j].era = code[j].era
      BY <3>1 DEF EvidenceOK
    <3>3. CASE code[j].acct = a
      BY <3>1, <3>2, <3>3 DEF Vouched
    <3>4. CASE code[j].acct # a
      <4>1. code'[j] = code[j] /\ cred'[code[j].acct] = cred[code[j].acct]
        BY <2>2, <3>1, <3>2, <3>4
      <4> QED BY <3>2, <4>1 DEF Vouched
    <3> QED BY <3>3, <3>4
  <2>6. \A v \in Webs : cred'[v] # NoCred => cred'[v].ver >= 1
    BY <2>2 DEF EvidenceOK
  <2> QED BY <2>3, <2>4, <2>5, <2>6 DEF EvidenceOK
<1>6. ASSUME NEW p \in Threads, NEW t \in Tokens, CreateWebSession(p, t) PROVE EvidenceOK'
  BY <1>6 DEF CreateWebSession, Ends, Serving, Free, Accts, Codes, GrantCodes, Holders,
              AccountsTypeOK, RecordsOK, CodeRows, ReqRows, CodesOK, RequestsOK, EvidenceOK,
              Vouched, NoCred
<1>7. ASSUME NEW p \in Threads, NEW t \in Tokens,
             NEW pc \in {"attach", "link", "app", "bindcode", "unlink"}, BySession(p, t, pc)
      PROVE  EvidenceOK'
  BY <1>7 DEF BySession, GetWebSession, Begins, Serving, Free, Accts, Codes, GrantCodes,
              Holders, AccountsTypeOK, RecordsOK, CodeRows, ReqRows, CodesOK, RequestsOK,
              EvidenceOK, Vouched, NoCred
<1>8. ASSUME NEW t \in Tokens, SessionExpires(t) PROVE EvidenceOK'
  BY <1>8 DEF SessionExpires, NoSession, Accts, Codes, GrantCodes, Holders, AccountsTypeOK,
              RecordsOK, CodeRows, ReqRows, CodesOK, RequestsOK, EvidenceOK, Vouched, NoCred
<1>9. ASSUME NEW p \in Threads, NEW k \in LinkCodes, IssueLinkCode(p, k) PROVE EvidenceOK'
  <2>1. /\ Issue(LinkCodes, k, req[p].acct, req[p].era, req[p].ex)
        /\ cred' = cred /\ sess' = sess /\ req' = [req EXCEPT ![p] = Free]
    BY <1>9 DEF IssueLinkCode, Ends
  <2>2. \A j \in GrantCodes : code'[j].st = "live" =>
           \/ code'[j] = code[j]
           \/ code'[j] = [acct |-> req[p].acct, st |-> "live", era |-> req[p].era, ex |-> req[p].ex]
    BY <2>1 DEF Issue, Void, Codes, GrantCodes
  <2>3. \A q \in Threads : req'[q] = req[q] \/ req'[q] = Free
    BY <2>1 DEF RecordsOK
  <2>4. Free.acct \notin Webs
    BY AccountsAssumption DEF Free, Serving
  <2> QED BY <2>1, <2>2, <2>3, <2>4 DEF EvidenceOK, Vouched
<1>10. ASSUME NEW p \in Threads, NEW k \in LinkCodes, ChatIssuesLinkCode(p, k)
      PROVE  EvidenceOK'
  <2>1. PICK a : Issue(LinkCodes, k, a, ChatEra, FALSE)
    BY <1>10 DEF ChatIssuesLinkCode
  <2>2. cred' = cred /\ sess' = sess /\ \A w \in Webs : ChatEra >= 1 /\ ChatEra >= cred[w].ver
    BY <1>10, ErasAreNumbers DEF AccountsTypeOK, ChatIssuesLinkCode
  <2>3. \A j \in GrantCodes : code'[j].st = "live" =>
           \/ code[j].st = "live" /\ code'[j] = code[j]
           \/ code'[j].era = ChatEra
    BY <2>1 DEF Issue, Void, Codes
  <2>4. \A j \in GrantCodes : code'[j].st = "live" => Vouched(code[j])'
    BY <2>2, <2>3 DEF EvidenceOK, Vouched
  <2>5. \A q \in Threads : req'[q] = req[q] \/ req'[q].acct = Nobody
    BY <1>10 DEF ChatIssuesLinkCode, Ends, Serving, Free, RecordsOK, CodeRows, ReqRows
  <2> QED BY <2>2, <2>4, <2>5 DEF EvidenceOK, Vouched, Accts
<1>11. ASSUME NEW p \in Threads, NEW k \in LinkCodes, RedeemLinkCode(p, k) PROVE EvidenceOK'
  BY <1>11 DEF RedeemLinkCode, Begins, Serving, Free, Accts, Codes, GrantCodes, Holders,
               AccountsTypeOK, RecordsOK, CodeRows, ReqRows, CodesOK, RequestsOK,
               EvidenceOK, Vouched, NoCred
<1>12. ASSUME NEW p \in Threads, BurnLinkCode(p) PROVE EvidenceOK'
  <2>1. PICK k : k = req[p].from /\ BurnEffect(p, k)
    BY <1>12, BurnWrites
  <2>2. \A j \in GrantCodes : code'[j].st = "live" => code'[j] = code[j]
    BY <2>1 DEF BurnEffect, RecordsOK, CodeRows, ReqRows, Codes
  <2>3. \A q \in Threads : \/ req'[q].acct = Nobody
                           \/ req'[q].acct = req[q].acct /\ req'[q].era = req[q].era /\ req'[q].ex = req[q].ex
    <3>1. PICK r : /\ req' = [req EXCEPT ![p] = r]
                   /\ \/ r.acct = Nobody
                      \/ r.acct = req[p].acct /\ r.era = req[p].era /\ r.ex = req[p].ex
      BY <2>1 DEF BurnEffect, Serving, Free
    <3> QED BY <3>1 DEF RecordsOK
  <2>4. cred' = cred /\ sess' = sess
    BY <2>1 DEF BurnEffect
  <2> QED BY <2>2, <2>3, <2>4 DEF EvidenceOK, Vouched, Accts
<1>13. ASSUME NEW p \in Threads, RequestFails(p) PROVE EvidenceOK'
  BY <1>13 DEF RequestFails, Ends, Serving, Free, Accts, Codes, GrantCodes, Holders,
               AccountsTypeOK, RecordsOK, CodeRows, ReqRows, CodesOK, RequestsOK,
               EvidenceOK, Vouched, NoCred
<1>14. ASSUME NEW p \in Threads, NEW k \in AppCodes, IssueAppAuthCode(p, k) PROVE EvidenceOK'
  BY <1>14 DEF IssueAppAuthCode, Unused, Ends, Serving, Free, Accts, Codes, GrantCodes,
               Holders, AccountsTypeOK, RecordsOK, CodeRows, ReqRows, CodesOK, RequestsOK,
               EvidenceOK, Vouched, NoCred
<1>15. ASSUME NEW p \in Threads, NEW k \in AppCodes, RedeemAppAuthCode(p, k) PROVE EvidenceOK'
  <2>1. k \in GrantCodes /\ k \in Codes /\ code[k].st = "live"
    BY <1>15 DEF RedeemAppAuthCode, GrantCodes, Codes
  <2>2. Used(k) = [acct |-> code[k].acct, st |-> "used", era |-> 0, ex |-> FALSE]
    BY <2>1, UsedWrites
  <2>3. \A j \in GrantCodes : code'[j].st = "live" => code'[j] = code[j]
    BY <1>15, <2>1, <2>2 DEF RedeemAppAuthCode, RecordsOK, CodeRows, ReqRows, Codes
  <2>4. \/ req' = req
        \/ req' = [req EXCEPT ![p] = Serving("session", code[k].acct, code[k].era, code[k].ex)]
    BY <1>15 DEF RedeemAppAuthCode, Begins
  <2>5. \A q \in Threads : \/ req'[q] = req[q]
                           \/ /\ req'[q].acct = code[k].acct /\ req'[q].era = code[k].era
                              /\ req'[q].ex = code[k].ex
    BY <2>4 DEF Serving, RecordsOK, CodeRows, ReqRows
  <2>6. cred' = cred /\ sess' = sess
    BY <1>15 DEF RedeemAppAuthCode
  <2> QED BY <2>1, <2>3, <2>5, <2>6 DEF EvidenceOK, Vouched
<1>16. ASSUME NEW k \in Codes, Expire(k) PROVE EvidenceOK'
  BY <1>16 DEF Expire, Void, Fresh, Accts, Codes, GrantCodes, Holders, AccountsTypeOK,
               RecordsOK, CodeRows, ReqRows, CodesOK, RequestsOK, EvidenceOK, Vouched,
               NoCred
<1>17. ASSUME NEW p \in Threads, ChatReads(p) PROVE EvidenceOK'
  <2>1. PICK pc \in {"chatlink", "rotate", "welcome", "heal", "chatcode"}, a \in Accts, ex \in BOOLEAN :
             req' = [req EXCEPT ![p] = Serving(pc, a, ChatEra, ex)]
    BY <1>17 DEF ChatReads
  <2>2. \A q \in Threads : req'[q] = req[q] \/ req'[q].era = ChatEra
    BY <2>1 DEF Serving, RecordsOK
  <2>3. \A w \in Webs : ChatEra >= 1 /\ ChatEra >= cred[w].ver
    BY ErasAreNumbers DEF AccountsTypeOK
  <2>4. UNCHANGED <<cred, sess, code>>
    BY <1>17 DEF ChatReads
  <2> QED BY <2>2, <2>3, <2>4 DEF EvidenceOK, Vouched
<1>18. ASSUME NEW c \in Chats, InvoicePaid(c) PROVE EvidenceOK'
  BY <1>18 DEF InvoicePaid, EvidenceOK, Vouched
<1>19. ASSUME NEW p \in Threads, NEW k \in BindCodes, IssueTelegramLinkCode(p, k)
      PROVE  EvidenceOK'
  <2>1. /\ Issue(BindCodes, k, req[p].acct, 0, FALSE)
        /\ cred' = cred /\ sess' = sess /\ req' = [req EXCEPT ![p] = Free]
    BY <1>19 DEF IssueTelegramLinkCode, Ends
  <2>2. \A j \in GrantCodes : code'[j].st = "live" => code'[j] = code[j]
    BY <2>1, AccountsAssumption DEF Issue, Void, Codes, GrantCodes
  <2>3. \A q \in Threads : req'[q] = req[q] \/ req'[q] = Free
    BY <2>1 DEF RecordsOK
  <2>4. Free.acct \notin Webs
    BY AccountsAssumption DEF Free, Serving
  <2> QED BY <2>1, <2>2, <2>3, <2>4 DEF EvidenceOK, Vouched
<1>20. ASSUME NEW c \in Chats, NEW k \in BindCodes, ClaimTelegramLinkCode(c, k)
      PROVE  EvidenceOK'
  <2>1. ClaimEffect(c, k)
    BY <1>20, ClaimWrites
  <2>2. \A q \in Threads : /\ req'[q].acct = req[q].acct /\ req'[q].era = req[q].era
                           /\ req[q].ex => req'[q].ex
    BY <2>1 DEF ClaimEffect, RecordsOK, ReqRows
  <2>3. \A j \in GrantCodes : code'[j] = code[j]
    BY <2>1 DEF ClaimEffect, RecordsOK, Codes, GrantCodes
  <2>4. UNCHANGED <<cred, sess>>
    BY <2>1 DEF ClaimEffect
  <2> QED BY <2>2, <2>3, <2>4 DEF EvidenceOK, Vouched
<1>21. ASSUME NEW p \in Threads, UnlinkTelegramAccount(p) PROVE EvidenceOK'
  BY <1>21 DEF UnlinkTelegramAccount, Ends, Serving, Free, Accts, Codes, GrantCodes,
               Holders, AccountsTypeOK, RecordsOK, CodeRows, ReqRows, CodesOK, RequestsOK,
               EvidenceOK, Vouched, NoCred
<1>22. ASSUME NEW p \in Threads, HealSaves(p) PROVE EvidenceOK'
  BY <1>22 DEF HealSaves, SaveUser, Ends, Serving, Free, Accts, Codes, GrantCodes, Holders,
               AccountsTypeOK, RecordsOK, CodeRows, ReqRows, CodesOK, RequestsOK,
               EvidenceOK, Vouched, NoCred
<1>23. ASSUME NEW p \in Threads, NEW profile \in {"full", "bare"}, WelcomeSaves(p, profile)
      PROVE  EvidenceOK'
  BY <1>23 DEF WelcomeSaves, SaveUser, Ends, Serving, Free, Accts, Codes, GrantCodes,
               Holders, AccountsTypeOK, RecordsOK, CodeRows, ReqRows, CodesOK, RequestsOK,
               EvidenceOK, Vouched, NoCred
<1>24. CASE UNCHANGED <<cred, sess, req, code>>
  BY <1>24 DEF EvidenceOK, Accts, Codes, GrantCodes, Vouched
<1> QED
  BY <1>1, <1>2, <1>3, <1>4, <1>5, <1>6, <1>7, <1>8, <1>9, <1>10, <1>11, <1>12, <1>13, <1>14,
     <1>15, <1>16, <1>17, <1>18, <1>19, <1>20, <1>21, <1>22, <1>23, <1>24, ChatStepCases
     DEF AccountsNext, PasswordStep, SessionStep, avars

\* A step that binds no chat, and whose requests are the old ones, know that
\* they save for a bound chat, or save nothing, keeps that.
LEMMA SavesKept ==
    ASSUME SavesOK, bound' = bound,
           \A p \in Threads : \/ req'[p].pc \notin {"welcome", "heal"}
                              \/ BoundElsewhere(req'[p].acct) => req'[p].ex
                              \/ /\ req'[p].pc = req[p].pc /\ req'[p].acct = req[p].acct
                                 /\ req[p].ex => req'[p].ex
    PROVE  SavesOK'
BY DEF SavesOK, BoundElsewhere

\* Every request that is about to save for a bound chat knows it.
LEMMA AccountsSavesStep ==
    ASSUME AccountsInv, [AccountsNext]_avars PROVE SavesOK'
<1> USE AccountsAssumption DEF AccountsInv
<1>1. ASSUME NEW p \in Threads, NEW r, req' = [req EXCEPT ![p] = r], bound' = bound,
             r.pc \notin {"welcome", "heal"} \/ (BoundElsewhere(r.acct) => r.ex)
      PROVE  SavesOK'
  <2>1. \A q \in Threads : req'[q] = IF q = p THEN r ELSE req[q]
    BY <1>1 DEF RecordsOK
  <2> QED BY <1>1, <2>1, SavesKept
<1>2. ASSUME NEW p \in Threads, Ends(p), bound' = bound PROVE SavesOK'
  <2>1. Free.pc = "idle"
    BY DEF Free, Serving
  <2> QED BY <1>1, <1>2, <2>1 DEF Ends
<1>3. ASSUME NEW p \in Threads, NEW pc \in Requests \ {"welcome", "heal"}, NEW a, NEW era, NEW ex,
             req' = [req EXCEPT ![p] = Serving(pc, a, era, ex)], bound' = bound
      PROVE  SavesOK'
  <2>1. Serving(pc, a, era, ex).pc = pc
    BY DEF Serving
  <2> QED BY <1>1, <1>3, <2>1
<1>4. ASSUME req' = req, bound' = bound PROVE SavesOK'
  BY <1>4, SavesKept
<1>5. ASSUME NEW p \in Threads, NEW e \in Emails, NEW b \in BOOLEAN, CreateWebsiteAccount(p, e, b)
      PROVE  SavesOK'
  <2>1. PICK w \in Webs : CreateEffect(p, e, w)
    BY <1>5, CreateWrites
  <2> QED BY <1>3, <1>4, <2>1 DEF CreateEffect, Requests
<1>6. ASSUME NEW p \in Threads, NEW e \in Emails, AuthenticateWebsiteAccount(p, e) PROVE SavesOK'
  BY <1>3, <1>6 DEF AuthenticateWebsiteAccount, Begins, Requests
<1>7. ASSUME NEW k \in ResetCodes, ResetWebsitePassword(k) PROVE SavesOK'
  <2>1. PICK a : ResetEffect(k, a)
    BY <1>7, ResetWrites
  <2>2. \A q \in Threads : /\ req'[q].pc = req[q].pc /\ req'[q].acct = req[q].acct
                           /\ req[q].ex => req'[q].ex
    BY <2>1 DEF ResetEffect, RecordsOK, ReqRows
  <2> QED BY <2>1, <2>2, SavesKept DEF ResetEffect
<1>8. ASSUME NEW p \in Threads, NEW t \in Tokens, NEW pc \in {"attach", "link", "app", "bindcode", "unlink"},
             BySession(p, t, pc)
      PROVE  SavesOK'
  BY <1>3, <1>8 DEF BySession, Begins, Requests
<1>9. ASSUME NEW p \in Threads, NEW k \in LinkCodes, RedeemLinkCode(p, k) PROVE SavesOK'
  BY <1>1, <1>9 DEF RedeemLinkCode, Begins
<1>10. ASSUME NEW p \in Threads, BurnLinkCode(p) PROVE SavesOK'
  <2>1. PICK k : BurnEffect(p, k)
    BY <1>10, BurnWrites
  <2> QED BY <1>2, <1>3, <2>1 DEF BurnEffect, Requests, Ends
<1>11. ASSUME NEW p \in Threads, NEW k \in AppCodes, RedeemAppAuthCode(p, k) PROVE SavesOK'
  BY <1>3, <1>4, <1>11 DEF RedeemAppAuthCode, Begins, Requests
<1>12. ASSUME NEW p \in Threads, ChatReads(p) PROVE SavesOK'
  <2>1. PICK pc \in {"chatlink", "rotate", "welcome", "heal", "chatcode"}, a \in Accts, ex \in BOOLEAN :
             /\ pc \in {"welcome", "heal"} /\ BoundElsewhere(a) => ex
             /\ req' = [req EXCEPT ![p] = Serving(pc, a, ChatEra, ex)]
             /\ bound' = bound
    BY <1>12 DEF ChatReads
  <2>2. /\ Serving(pc, a, ChatEra, ex).pc = pc /\ Serving(pc, a, ChatEra, ex).acct = a
        /\ Serving(pc, a, ChatEra, ex).ex = ex
    BY DEF Serving
  <2> QED BY <1>1, <2>1, <2>2
<1>13. ASSUME NEW c \in Chats, NEW k \in BindCodes, ClaimTelegramLinkCode(c, k) PROVE SavesOK'
  <2>1. ClaimEffect(c, k)
    BY <1>13, ClaimWrites
  <2>2. \A q \in Threads : /\ req'[q].pc = req[q].pc /\ req'[q].acct = req[q].acct
                           /\ req[q].ex => req'[q].ex
                           /\ req[q].pc \in {"welcome", "heal"} /\ req[q].acct = c => req'[q].ex
    BY <2>1 DEF ClaimEffect, RecordsOK, ReqRows
  <2>3. \A a \in Chats \ {c} : bound'[a] = bound[a]
    BY <2>1 DEF ClaimEffect, AccountsTypeOK
  <2>4. ASSUME NEW q \in Threads, req'[q].pc \in {"welcome", "heal"}, BoundElsewhere(req[q].acct)'
        PROVE  req'[q].ex
    <3>1. CASE req[q].acct = c
      BY <2>2, <2>4, <3>1
    <3>2. CASE req[q].acct # c
      <4>1. BoundElsewhere(req[q].acct)
        BY <2>2, <2>3, <2>4, <3>2 DEF BoundElsewhere
      <4> QED BY <2>2, <2>4, <4>1 DEF SavesOK
    <3> QED BY <3>1, <3>2
  <2> QED BY <2>4 DEF SavesOK
<1>14. ASSUME NEW p \in Threads, UnlinkTelegramAccount(p) PROVE SavesOK'
  <2>1. \A q \in Threads : req'[q] = req[q] \/ req'[q].pc = "idle"
    BY <1>14 DEF UnlinkTelegramAccount, Ends, Free, Serving, RecordsOK
  <2>2. \A a \in Chats : bound'[a] \in {bound[a], Nobody}
    BY <1>14 DEF UnlinkTelegramAccount
  <2> QED BY <2>1, <2>2 DEF SavesOK, BoundElsewhere
<1> QED
  BY <1>2, <1>4, <1>5, <1>6, <1>7, <1>8, <1>9, <1>10, <1>11, <1>12, <1>13, <1>14, ChatStepCases
     DEF AccountsNext, PasswordStep, SessionStep, avars, AttachWebsiteCredentials,
         IssuePasswordReset, CreateWebSession, SessionExpires, IssueLinkCode, ChatIssuesLinkCode,
         RequestFails, IssueAppAuthCode, Expire, IssueTelegramLinkCode, HealSaves, WelcomeSaves,
         InvoicePaid

\* What save_user writes for an account, when what asked for it knows whether
\* that is a bound chat: the profile is on record.
LEMMA SavesOnRecord ==
    ASSUME AccountsTypeOK, BoundChatHasNoProfile, bound' = bound,
           NEW a \in Accts, NEW profile, NEW ex, BoundElsewhere(a) => ex, SaveUser(a, profile, ex)
    PROVE  BoundChatHasNoProfile'
<1>1. \A c \in Chats : c # a => users'[c] = users[c]
  BY DEF SaveUser, AccountsTypeOK, Accts
<1>2. crossed \subseteq crossed' /\ (BoundElsewhere(a) => a \in crossed')
  BY DEF SaveUser
<1> QED BY <1>1, <1>2 DEF BoundChatHasNoProfile, BoundElsewhere

\* Every step that gives a bound chat a profile is on record.
LEMMA AccountsProfilesStep ==
    ASSUME AccountsInv, [AccountsNext]_avars PROVE BoundChatHasNoProfile'
<1> USE AccountsAssumption DEF AccountsInv
<1>1. ASSUME NEW p \in Threads, NEW e \in Emails, NEW b \in BOOLEAN, CreateWebsiteAccount(p, e, b)
      PROVE  BoundChatHasNoProfile'
  <2>1. PICK w \in Webs : CreateEffect(p, e, w)
    BY <1>1, CreateWrites
  <2>2. \A c \in Chats : c # w
    BY <2>1 DEF CreateEffect
  <2>3. \A c \in Chats : users'[c] = users[c]
    BY <2>1, <2>2 DEF CreateEffect, AccountsTypeOK, Accts
  <2>4. bound' = bound /\ crossed' = crossed
    BY <2>1 DEF CreateEffect
  <2> QED BY <2>3, <2>4 DEF BoundChatHasNoProfile, BoundElsewhere
<1>2. ASSUME NEW c \in Chats, NEW k \in BindCodes, ClaimTelegramLinkCode(c, k)
      PROVE  BoundChatHasNoProfile'
  <2>1. ClaimEffect(c, k)
    BY <1>2, ClaimWrites
  <2>2. \A a \in Chats \ {c} : bound'[a] = bound[a]
    BY <2>1 DEF ClaimEffect, AccountsTypeOK
  <2>3. bound'[c] # c => users'[c] = "none"
    BY <2>1 DEF ClaimEffect, MayBind, AccountsTypeOK
  <2> QED BY <2>1, <2>2, <2>3 DEF ClaimEffect, BoundChatHasNoProfile, BoundElsewhere
<1>3. ASSUME NEW p \in Threads, UnlinkTelegramAccount(p) PROVE BoundChatHasNoProfile'
  <2>1. \A a \in Chats : bound'[a] \in {bound[a], Nobody}
    BY <1>3 DEF UnlinkTelegramAccount
  <2> QED BY <1>3, <2>1 DEF UnlinkTelegramAccount, BoundChatHasNoProfile, BoundElsewhere
<1>4. ASSUME NEW p \in Threads, HealSaves(p) PROVE BoundChatHasNoProfile'
  <2>1. req[p].acct \in Accts /\ (BoundElsewhere(req[p].acct) => req[p].ex)
    BY <1>4 DEF HealSaves, RequestsOK, SavesOK
  <2> QED BY <1>4, <2>1, SavesOnRecord DEF HealSaves
<1>5. ASSUME NEW p \in Threads, NEW profile \in {"full", "bare"}, WelcomeSaves(p, profile)
      PROVE  BoundChatHasNoProfile'
  <2>1. req[p].acct \in Accts /\ (BoundElsewhere(req[p].acct) => req[p].ex)
    BY <1>5 DEF WelcomeSaves, RequestsOK, SavesOK
  <2> QED BY <1>5, <2>1, SavesOnRecord DEF WelcomeSaves
<1>6. ASSUME NEW c \in Chats, InvoicePaid(c) PROVE BoundChatHasNoProfile'
  <2>1. c \in Accts
    BY DEF Accts
  <2> QED BY <1>6, <2>1, SavesOnRecord DEF InvoicePaid
<1>7. CASE UNCHANGED <<users, bound, crossed>>
  BY <1>7 DEF BoundChatHasNoProfile, BoundElsewhere
<1> QED
  BY <1>1, <1>2, <1>3, <1>4, <1>5, <1>6, <1>7, ChatStepCases
     DEF AccountsNext, PasswordStep, SessionStep, avars, AuthenticateWebsiteAccount,
         AttachWebsiteCredentials, IssuePasswordReset, ResetWebsitePassword, CreateWebSession,
         BySession, SessionExpires, IssueLinkCode, ChatIssuesLinkCode, RedeemLinkCode,
         BurnLinkCode, RequestFails, IssueAppAuthCode, RedeemAppAuthCode, Expire, ChatReads,
         IssueTelegramLinkCode, Reset

\* Nobody has an account, a session or a code at the beginning.
LEMMA AccountsInitInv == AccountsInit => AccountsInv
<1> SUFFICES ASSUME AccountsInit PROVE AccountsInv
  OBVIOUS
<1> USE AccountsAssumption
<1>1. AccountsTypeOK
  BY DEF AccountsInit, AccountsTypeOK, NoCred, Fresh
<1>2. RecordsOK
  <2>1. Fresh \in CodeRows /\ Free \in ReqRows
    BY CodeIsRow, ServingIsRow DEF Fresh, Free, Holders, Requests
  <2> QED BY <2>1 DEF AccountsInit, RecordsOK, NoSession, Holders
<1>3. CodesOK /\ RequestsOK
  BY DEF AccountsInit, CodesOK, RequestsOK, Fresh, Serving, Free, Codes
<1>4. EvidenceOK
  BY DEF AccountsInit, EvidenceOK, Vouched, Fresh, Serving, Free, NoSession, Codes, Accts
<1>5. SavesOK /\ BoundChatHasNoProfile
  BY DEF AccountsInit, SavesOK, BoundChatHasNoProfile, BoundElsewhere, Free, Serving
<1> QED BY <1>1, <1>2, <1>3, <1>4, <1>5 DEF AccountsInv

\* Every behaviour keeps the inductive invariant: the lemmas above, one conjunct
\* each, over every request, code, session and chat step.
THEOREM AccountsInvariant == AccountsSpec => []AccountsInv
<1>1. AccountsInv /\ [AccountsNext]_avars => AccountsInv'
  BY AccountsTypesStep, AccountsRecordsStep, AccountsCodesStep, AccountsRequestsStep,
     AccountsEvidenceStep, AccountsSavesStep, AccountsProfilesStep DEF AccountsInv
<1> QED BY AccountsInitInv, <1>1, PTL DEF AccountsSpec

\* The types, and with them: no pairing, browser, binding or reset code is used twice.
THEOREM AccountsTypes == AccountsSpec => []AccountsTypeOK
BY AccountsInvariant, PTL DEF AccountsInv

\* A session that outlives a password reset is one the reset is known not to
\* reach: made by a request that had read its evidence before, or from a pairing
\* code issued before.
THEOREM ResetLeavesNoOther == AccountsSpec => []ResetRevokes
<1>1. AccountsInv => ResetRevokes
  <2> SUFFICES ASSUME AccountsInv, NEW t \in Tokens, sess[t].acct \in Webs,
                      sess[t].era < cred[sess[t].acct].ver
               PROVE  sess[t].ex
    BY DEF ResetRevokes
  <2>1. sess[t].era \in Nat /\ cred[sess[t].acct].ver \in Nat
    BY ErasAreNumbers DEF AccountsInv, RecordsOK, AccountsTypeOK
  <2>2. Vouched(sess[t])
    BY DEF AccountsInv, EvidenceOK
  <2> QED BY <2>1, <2>2 DEF Vouched
<1> QED BY AccountsInvariant, <1>1, PTL

\* A chat bound to another account has a profile of its own only when a request
\* saved it that had begun before the binding, or knew that the account had no
\* profile or no link, or when an invoice of the chat was paid.
THEOREM BoundChats == AccountsSpec => []BoundChatHasNoProfile
BY AccountsInvariant, PTL DEF AccountsInv

-----------------------------------------------------------------------------
(* Pairing codes and browser codes are one-time grants                     *)

Standing(k) == IF code[k].st \in {"live", "used"} THEN code[k].acct ELSE Nobody

\* A step that takes no code and gives no code a new account is a withdrawal.
LEMMA GrantsWithdrawn ==
    ASSUME AccountsInv', taken' = taken,
           \A k \in GrantCodes : code'[k].st = "void" \/ Standing(k)' = Standing(k)
    PROVE  Grant!GrantNext
<1>1. \A k \in GrantCodes : Standing(k)' \in {Standing(k), Nobody}
  BY DEF Standing
<1>2. [k \in GrantCodes |-> Standing(k)]' \in [GrantCodes -> Accts \cup {Nobody}]
  BY DEF AccountsInv, AccountsTypeOK, Standing, Codes
<1> QED BY <1>1, <1>2 DEF Grant!GrantNext, Grant!Withdraw, Grant!Void, Standing

\* A new code for a, whatever codes of its kind it replaces, binds a grant.
LEMMA GrantBound ==
    ASSUME AccountsInv, AccountsInv', taken' = taken,
           NEW k \in GrantCodes, NEW a \in Accts, code[k].st = "new", Standing(k)' = a,
           \A j \in GrantCodes \ {k} : code'[j].st = "void" \/ Standing(j)' = Standing(j)
    PROVE  Grant!GrantNext
<1>1. \A j \in GrantCodes \ {k} : Standing(j)' \in {Standing(j), Nobody}
  BY DEF Standing
<1>2. [j \in GrantCodes |-> Standing(j)]' \in [GrantCodes -> Accts \cup {Nobody}]
  BY DEF AccountsInv, AccountsTypeOK, Standing, Codes
<1>3. taken[k] = Nobody
  BY DEF AccountsInv, CodesOK
<1>4. Grant!Bind(k, a)
  BY <1>1, <1>2, <1>3 DEF Grant!Bind, Grant!Void, Standing
<1> QED BY <1>4 DEF Grant!GrantNext

\* A code that is used for the account it names takes the grant.
LEMMA GrantTaken ==
    ASSUME AccountsInv, NEW k \in GrantCodes, code[k].st = "live",
           code' = [code EXCEPT ![k] = [acct |-> code[k].acct, st |-> "used", era |-> 0, ex |-> FALSE]],
           taken' = [taken EXCEPT ![k] = code[k].acct]
    PROVE  Grant!GrantNext
<1>1. taken[k] = Nobody /\ code[k].acct \in Accts /\ code[k].acct # Nobody
  BY AccountsAssumption DEF AccountsInv, CodesOK, Codes, Accts
<1>2. \A j \in GrantCodes : Standing(j)' = Standing(j)
  BY DEF AccountsInv, RecordsOK, Standing, Codes
<1>3. Standing(k) = code[k].acct
  BY DEF Standing
<1>4. Grant!Take(k)
  BY <1>1, <1>2, <1>3 DEF Grant!Take, Standing
<1> QED BY <1>4 DEF Grant!GrantNext

\* A code that is issued is bound to its account, and the ones it replaces are
\* withdrawn.
LEMMA IssueBinds ==
    ASSUME AccountsInv, AccountsInv', NEW k \in LinkCodes, NEW a \in Accts, NEW era, NEW ex,
           Issue(LinkCodes, k, a, era, ex), taken' = taken
    PROVE  Grant!GrantNext
<1>1. k \in GrantCodes /\ code[k].st = "new"
  BY DEF GrantCodes, Issue, Unused
<1>2. Standing(k)' = a
  BY <1>1 DEF Issue, Standing, Codes
<1>3. \A j \in GrantCodes \ {k} : code'[j].st = "void" \/ Standing(j)' = Standing(j)
  BY DEF Issue, Void, Standing, Codes
<1> QED BY <1>1, <1>2, <1>3, GrantBound

\* Every behaviour of the account steps is a behaviour of the abstract grants:
\* issues bind, redemptions take, expiry, reset and reissue withdraw.
THEOREM AccountsRefineGrant == AccountsSpec => CodesAreOneTimeGrants
<1>1. AccountsInit => Grant!GrantInit
  BY DEF AccountsInit, Grant!GrantInit, Fresh, Codes
<1>2. AccountsInv /\ AccountsInv' /\ [AccountsNext]_avars => [Grant!GrantNext]_(Grant!gvars)
  <2> SUFFICES ASSUME AccountsInv, AccountsInv', [AccountsNext]_avars
               PROVE  [Grant!GrantNext]_(Grant!gvars)
    OBVIOUS
  <2> USE AccountsAssumption
  <2>1. ASSUME NEW e \in Emails, NEW k \in ResetCodes, IssuePasswordReset(e, k) PROVE Grant!GrantNext
    <3>1. taken' = taken /\ \A j \in GrantCodes : code'[j] = code[j]
      BY <2>1 DEF IssuePasswordReset, Issue, Codes, GrantCodes
    <3> QED BY <3>1, GrantsWithdrawn DEF Standing
  <2>2. ASSUME NEW k \in ResetCodes, ResetWebsitePassword(k) PROVE Grant!GrantNext
    <3>1. PICK a : ResetEffect(k, a)
      BY <2>2, ResetWrites DEF AccountsInv
    <3>2. taken' = taken
      BY <3>1 DEF ResetEffect
    <3>3. ASSUME NEW j \in GrantCodes
          PROVE  code'[j].st = "void" \/ (code'[j].st = code[j].st /\ code'[j].acct = code[j].acct)
      <4>1. j \in Codes /\ code[j] \in CodeRows /\ j # k
        BY DEF Codes, GrantCodes, AccountsInv, RecordsOK
      <4>2. \/ code'[j] = Void \/ code'[j] = [code[j] EXCEPT !.ex = TRUE] \/ code'[j] = code[j]
        BY <3>1, <4>1 DEF ResetEffect
      <4> QED BY <4>1, <4>2 DEF Void, CodeRows
    <3> QED BY <3>2, <3>3, GrantsWithdrawn DEF Standing
  <2>3. ASSUME NEW p \in Threads, NEW k \in LinkCodes, IssueLinkCode(p, k) PROVE Grant!GrantNext
    <3>1. req[p].acct \in Accts
      BY <2>3 DEF IssueLinkCode, AccountsInv, RequestsOK
    <3> QED BY <2>3, <3>1, IssueBinds DEF IssueLinkCode
  <2>4. ASSUME NEW p \in Threads, NEW k \in LinkCodes, ChatIssuesLinkCode(p, k) PROVE Grant!GrantNext
    <3>1. PICK a \in Accts : Issue(LinkCodes, k, a, ChatEra, FALSE)
      BY <2>4 DEF ChatIssuesLinkCode, AccountsInv, RequestsOK
    <3> QED BY <2>4, <3>1, IssueBinds DEF ChatIssuesLinkCode
  <2>5. ASSUME NEW p \in Threads, BurnLinkCode(p) PROVE Grant!GrantNext
    <3>1. PICK k : BurnEffect(p, k)
      BY <2>5, BurnWrites DEF AccountsInv
    <3>2. CASE UNCHANGED <<code, taken>>
      BY <3>2, GrantsWithdrawn DEF Standing
    <3>3. CASE /\ code[k].st = "live" /\ code[k].acct = req[p].acct
               /\ code' = [code EXCEPT ![k] = [acct |-> req[p].acct, st |-> "used", era |-> 0, ex |-> FALSE]]
               /\ taken' = [taken EXCEPT ![k] = req[p].acct]
      <4>1. k \in GrantCodes
        BY <3>1 DEF BurnEffect
      <4> QED BY <3>3, <4>1, GrantTaken
    <3> QED BY <3>1, <3>2, <3>3 DEF BurnEffect
  <2>6. ASSUME NEW p \in Threads, NEW k \in AppCodes, IssueAppAuthCode(p, k) PROVE Grant!GrantNext
    <3>1. /\ k \in GrantCodes /\ code[k].st = "new" /\ taken' = taken
          /\ req[p].acct \in Accts
      BY <2>6 DEF IssueAppAuthCode, Unused, GrantCodes, AccountsInv, RequestsOK
    <3>2. Standing(k)' = req[p].acct
      BY <2>6, <3>1 DEF IssueAppAuthCode, Standing, AccountsInv, RecordsOK, Codes
    <3>3. \A j \in GrantCodes \ {k} : Standing(j)' = Standing(j)
      BY <2>6 DEF IssueAppAuthCode, Standing, AccountsInv, RecordsOK, Codes
    <3> QED BY <3>1, <3>2, <3>3, GrantBound
  <2>7. ASSUME NEW p \in Threads, NEW k \in AppCodes, RedeemAppAuthCode(p, k) PROVE Grant!GrantNext
    <3>1. k \in GrantCodes /\ k \in Codes /\ code[k].st = "live"
      BY <2>7 DEF RedeemAppAuthCode, GrantCodes, Codes
    <3>2. Used(k) = [acct |-> code[k].acct, st |-> "used", era |-> 0, ex |-> FALSE]
      BY <3>1, UsedWrites
    <3> QED BY <2>7, <3>1, <3>2, GrantTaken DEF RedeemAppAuthCode
  <2>8. ASSUME NEW k \in Codes, Expire(k) PROVE Grant!GrantNext
    <3>1. taken' = taken /\ \A j \in GrantCodes : code'[j] = code[j] \/ code'[j].st = "void"
      BY <2>8 DEF Expire, Void, AccountsInv, RecordsOK, Codes
    <3> QED BY <3>1, GrantsWithdrawn DEF Standing
  <2>9. ASSUME NEW p \in Threads, NEW k \in BindCodes, IssueTelegramLinkCode(p, k) PROVE Grant!GrantNext
    <3>1. taken' = taken /\ \A j \in GrantCodes : code'[j] = code[j]
      BY <2>9 DEF IssueTelegramLinkCode, Issue, Codes, GrantCodes
    <3> QED BY <3>1, GrantsWithdrawn DEF Standing
  <2>10. ASSUME NEW c \in Chats, NEW k \in BindCodes, ClaimTelegramLinkCode(c, k) PROVE Grant!GrantNext
    <3>1. ClaimEffect(c, k)
      BY <2>10, ClaimWrites DEF AccountsInv
    <3>2. taken' = taken /\ \A j \in GrantCodes : code'[j] = code[j]
      BY <3>1 DEF ClaimEffect, AccountsInv, RecordsOK, Codes, GrantCodes
    <3> QED BY <3>2, GrantsWithdrawn DEF Standing
  <2>11. CASE UNCHANGED <<code, taken>>
    BY <2>11 DEF Grant!gvars
  <2> QED
    BY <2>1, <2>2, <2>3, <2>4, <2>5, <2>6, <2>7, <2>8, <2>9, <2>10, <2>11, ChatStepCases
       DEF AccountsNext, PasswordStep, SessionStep, avars, CreateWebsiteAccount,
           AuthenticateWebsiteAccount, AttachWebsiteCredentials, CreateWebSession, BySession,
           SessionExpires, RedeemLinkCode, RequestFails, ChatReads,
           UnlinkTelegramAccount, HealSaves, WelcomeSaves, InvoicePaid
<1> QED BY <1>1, <1>2, AccountsInvariant, PTL DEF AccountsSpec, CodesAreOneTimeGrants, Grant!GrantSpec
=============================================================================
