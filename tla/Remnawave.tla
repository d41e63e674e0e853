------------------------------ MODULE Remnawave ------------------------------
(***************************************************************************)
(* The VPN panel (Remnawave) and the bot's client for it (bot/bot.py,      *)
(* api_get_user, api_create_user and api_extend_user).                     *)
(*                                                                         *)
(* The panel keeps one expiry date per user name.  It has no operation     *)
(* that adds days: api_extend_user reads the date in one request and       *)
(* writes the new date in another one, so other threads may write between  *)
(* them.  A request may be refused, and it may fail on the network or be   *)
(* answered with an error, with or without having had its effect.          *)
(*                                                                         *)
(* Dates are counted in days from now, which stands still: the modelled    *)
(* steps take seconds.  A negative date lies in the past.                  *)
(***************************************************************************)
EXTENDS Integers

CONSTANTS Threads,      \* threads of the bot that call the panel
          Users,        \* user names
          NoUser

VARIABLES
    known,      \* the panel's users
    expiry,     \* the panel's expireAt of a user (0 for one it does not know)
    step,       \* where a thread stands in its calls
    user,       \* the user name its calls are about, or NoUser
    seen,       \* the expireAt that api_extend_user has read
    answer      \* what the calls returned: an object, None or an exception

panelVars  == <<known, expiry>>
clientVars == <<step, user, seen, answer>>
rvars      == <<panelVars, clientVars>>

Steps   == {"idle", "lookup", "read", "patch", "create", "answered", "saved"}
Answers == {"ok", "none", "raise"}

PanelTypeOK ==
    /\ known \subseteq Users
    /\ expiry \in [Users -> Int]
    /\ step \in [Threads -> Steps]
    /\ user \in [Threads -> Users \cup {NoUser}]
    /\ seen \in [Threads -> Int]
    /\ answer \in [Threads -> Answers]

Answer(t, a) ==
    /\ step' = [step EXCEPT ![t] = "answered"]
    /\ answer' = [answer EXCEPT ![t] = a]

\* The sequence of calls starts, for user u.
BeginCalls(t, u) ==
    /\ step' = [step EXCEPT ![t] = "lookup"]
    /\ user' = [user EXCEPT ![t] = u]
    /\ UNCHANGED <<seen, answer, panelVars>>

\* The calls are over.  What they left behind is never read again.
EndCalls(t) ==
    /\ step' = [step EXCEPT ![t] = "idle"]
    /\ user' = [user EXCEPT ![t] = NoUser]
    /\ seen' = [seen EXCEPT ![t] = 0]
    /\ answer' = [answer EXCEPT ![t] = "none"]
    /\ UNCHANGED panelVars

\* The caller's own api_get_user.  A request that fails looks like an unknown
\* user, and the caller goes on with create or gives up.
Lookup(t, create) ==
    /\ step[t] = "lookup"
    /\ \/ /\ user[t] \in known
          /\ step' = [step EXCEPT ![t] = "read"]
          /\ UNCHANGED answer
       \/ /\ create
          /\ step' = [step EXCEPT ![t] = "create"]
          /\ UNCHANGED answer
       \/ /\ ~create
          /\ Answer(t, "none")
    /\ UNCHANGED <<user, seen, panelVars>>

\* The api_get_user inside api_extend_user.
ExtendRead(t) ==
    /\ step[t] = "read"
    /\ \/ /\ user[t] \in known
          /\ seen' = [seen EXCEPT ![t] = expiry[user[t]]]
          /\ step' = [step EXCEPT ![t] = "patch"]
          /\ UNCHANGED answer
       \/ /\ Answer(t, "none")
          /\ UNCHANGED seen
    /\ UNCHANGED <<user, panelVars>>

\* Bug: the new date forgets what is left of the old one.
ExtendedFromNow(e, days) == days

\* An expired subscription starts again from now.
Extended(e, days) == IF e < 0 THEN days ELSE e + days

\* What a write request may come to: an object implies the effect.  A timeout or
\* a lost connection, which is raised, leaves it open, and so does None: the
\* client returns it for every other failure, among them a gateway's 502 or 504
\* and a body that breaks off after the panel has done its work.  The effect
\* comes before the caller goes on or not at all.
WriteOutcomes == {w \in [effect : BOOLEAN, reply : Answers] : w.reply = "ok" => w.effect}

\* The PATCH of api_extend_user writes the date computed from what was read.
ExtendPatch(t, days, outcome) ==
    /\ step[t] = "patch"
    /\ outcome \in WriteOutcomes
    /\ expiry' = IF outcome.effect THEN [expiry EXCEPT ![user[t]] = Extended(seen[t], days)] ELSE expiry
    /\ Answer(t, outcome.reply)
    /\ UNCHANGED <<known, user, seen>>

\* api_create_user.  The panel refuses a user name that it knows.
CreateUser(t, days, outcome) ==
    /\ step[t] = "create"
    /\ outcome \in WriteOutcomes
    /\ outcome.effect => user[t] \notin known
    /\ known' = IF outcome.effect THEN known \cup {user[t]} ELSE known
    /\ expiry' = IF outcome.effect THEN [expiry EXCEPT ![user[t]] = days] ELSE expiry
    /\ Answer(t, outcome.reply)
    /\ UNCHANGED <<user, seen>>

\* A new process has no calls under way.
DropCalls ==
    /\ step' = [t \in Threads |-> "idle"]
    /\ user' = [t \in Threads |-> NoUser]
    /\ seen' = [t \in Threads |-> 0]
    /\ answer' = [t \in Threads |-> "none"]
    /\ UNCHANGED panelVars
=============================================================================
