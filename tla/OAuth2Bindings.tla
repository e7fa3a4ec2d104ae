--------------------------- MODULE OAuth2Bindings ---------------------------
(***************************************************************************)
(* Logging in and binding an account of another site (plugin/oauth2): the  *)
(* state that accompanies the user there and back, kept in Redis, and the  *)
(* rows that bind the site's accounts to users.  One site.                 *)
(*                                                                         *)
(* A callback reads the state, deletes it, looks up bindings and users,    *)
(* and writes what it decided when its transaction commits.                *)
(***************************************************************************)
EXTENDS Naturals, FiniteSets

CONSTANTS
    Users, Accounts,  \* users, also those to come; accounts at the site
    MailOf,           \* MailOf[x]: the address of a user (Users) or of an account
    Members,          \* the users there are at first
    States,           \* uuids for states
    Callbacks,        \* requests that come back from the site
    MaxDeletions,     \* bound: users deleted
    None

\* What the constants are.
OAuthAssumption == Members \subseteq Users /\ MaxDeletions \in Nat /\ None \notin Users

VARIABLES
    user,       \* user[u]: "none", "live" or "deleted"
    mail,       \* mail[u]: the address in the user's row
    bindings,   \* live rows of sys_user_social: [user, account]
    state,      \* state[s]: None, or [type, user] that OAUTH2_STATE_REDIS_PREFIX:{s} holds
    pc,
    asks,       \* asks[r]: [state, account] of a callback
    info,       \* info[r]: the state's content as it was read
    target,     \* target[r]: the user it is about to bind
    spent,      \* history: states deleted by the callbacks they let through
    before,     \* history: before[r], spent when the callback began
    reused,     \* history: a callback went through with a state spent before it
    orphans,    \* history: users deleted while a binding for them was under way
    deletions

vars == <<user, mail, bindings, state, pc, asks, info, target, spent, before, reused, orphans, deletions>>
tables == <<user, mail, bindings>>
history == <<spent, before, reused, orphans>>

Goes(r, to) == pc' = [pc EXCEPT ![r] = to]
Live == {u \in Users : user[u] = "live"}
Unused(s) == state[s] = None /\ s \notin spent

-----------------------------------------------------------------------------
GetAuthUrl(s) ==
    /\ Unused(s)
    /\ state' = [state EXCEPT ![s] = [type |-> "login", user |-> None]]
    /\ UNCHANGED <<tables, pc, asks, info, target, history, deletions>>

GetBindingAuthUrl(s, u) ==
    /\ Unused(s) /\ user[u] = "live"
    /\ state' = [state EXCEPT ![s] = [type |-> "binding", user |-> u]]
    /\ UNCHANGED <<tables, pc, asks, info, target, history, deletions>>

ExpireState(s) ==
    /\ state[s] # None
    /\ state' = [state EXCEPT ![s] = None]
    /\ spent' = spent \cup {s}
    /\ UNCHANGED <<tables, pc, asks, info, target, before, reused, orphans, deletions>>

Callback(r) ==
    /\ pc[r] = "idle"
    /\ \E s \in States, a \in Accounts : asks' = [asks EXCEPT ![r] = [state |-> s, account |-> a]]
    /\ before' = [before EXCEPT ![r] = spent]
    /\ Goes(r, "state")
    /\ UNCHANGED <<tables, state, info, target, spent, reused, orphans, deletions>>

ReadState(r) ==
    /\ pc[r] = "state"
    /\ LET s == asks[r].state IN
       /\ Goes(r, IF state[s] = None THEN "failed" ELSE "spend")
       /\ info' = [info EXCEPT ![r] = state[s]]
       /\ reused' = (reused \/ (state[s] # None /\ s \in before[r]))
    /\ UNCHANGED <<tables, state, asks, target, spent, before, orphans, deletions>>

SpendState(r) ==
    /\ pc[r] = "spend"
    /\ state' = [state EXCEPT ![asks[r].state] = None]
    /\ spent' = spent \cup {asks[r].state}
    /\ Goes(r, info[r].type)
    /\ UNCHANGED <<tables, asks, info, target, before, reused, orphans, deletions>>

BoundTo(u) == {b \in bindings : b.user = u}
BindingsOf(a) == {b \in bindings : b.account = a}

\* The user who asked is bound, whether his row is still live or not.
BindingWithOauth2(r) ==
    /\ pc[r] = "binding"
    /\ IF BoundTo(info[r].user) = {} /\ BindingsOf(asks[r].account) = {}
       THEN Goes(r, "write") /\ target' = [target EXCEPT ![r] = info[r].user]
       ELSE Goes(r, "failed") /\ UNCHANGED target
    /\ UNCHANGED <<tables, state, asks, info, history, deletions>>

\* A bound account logs its user in, and fails when there is no such user;
\* another is bound to the user of its address, or to a new one.
Login(r) ==
    /\ pc[r] = "login"
    /\ LET a == asks[r].account
           known == {u \in Live : mail[u] = MailOf[a] /\ MailOf[a] # None}
           owners == {b.user : b \in BindingsOf(a)} IN
       IF owners # {}
       THEN Goes(r, IF owners \subseteq Live THEN "in" ELSE "failed") /\ UNCHANGED target
       ELSE /\ Goes(r, "write")
            /\ \E u \in IF known # {} THEN known
                        ELSE {v \in Users : user[v] = "none" /\ \A q \in Callbacks : target[q] # v} :
                  target' = [target EXCEPT ![r] = u]
    /\ UNCHANGED <<tables, state, asks, info, history, deletions>>

\* The unique keys on the user, on the account and on the address fail the
\* request, and so may anything else before its commit.
Commit(r) ==
    /\ pc[r] = "write"
    /\ LET u == target[r]
           a == asks[r].account
           new == user[u] = "none" IN
       \/ /\ BoundTo(u) = {} /\ BindingsOf(a) = {}
          /\ new => MailOf[a] = None \/ \A v \in Live : mail[v] # MailOf[a]
          /\ bindings' = bindings \cup {[user |-> u, account |-> a]}
          /\ user' = IF new THEN [user EXCEPT ![u] = "live"] ELSE user
          /\ mail' = IF new THEN [mail EXCEPT ![u] = MailOf[a]] ELSE mail
          /\ Goes(r, "in")
       \/ Goes(r, "failed") /\ UNCHANGED tables
    /\ target' = [target EXCEPT ![r] = None]
    /\ UNCHANGED <<state, asks, info, history, deletions>>

Unbinding(u) ==
    /\ user[u] = "live" /\ BoundTo(u) # {}
    /\ bindings' = bindings \ BoundTo(u)
    /\ UNCHANGED <<user, mail, state, pc, asks, info, target, history, deletions>>

\* Mutant: the bindings of a deleted user stay.
DeleteUserBound(u) ==
    /\ user[u] = "live"
    /\ deletions < MaxDeletions /\ deletions' = deletions + 1
    /\ user' = [user EXCEPT ![u] = "deleted"]
    /\ LET asked == \E s \in States : state[s] # None /\ state[s].user = u
           going == \E r \in Callbacks : \/ target[r] = u
                                         \/ pc[r] \in {"spend", "binding"} /\ info[r].user = u
       IN orphans' = IF asked \/ going THEN orphans \cup {u} ELSE orphans
    /\ UNCHANGED <<bindings, mail, state, pc, asks, info, target, spent, before, reused>>

DeleteUser(u) ==
    /\ user[u] = "live"
    /\ deletions < MaxDeletions /\ deletions' = deletions + 1
    /\ user' = [user EXCEPT ![u] = "deleted"]
    /\ bindings' = bindings \ BoundTo(u)
    /\ LET asked == \E s \in States : state[s] # None /\ state[s].user = u
           going == \E r \in Callbacks : \/ target[r] = u
                                         \/ pc[r] \in {"spend", "binding"} /\ info[r].user = u
       IN orphans' = IF asked \/ going THEN orphans \cup {u} ELSE orphans
    /\ UNCHANGED <<mail, state, pc, asks, info, target, spent, before, reused>>

Init ==
    /\ user = [u \in Users |-> IF u \in Members THEN "live" ELSE "none"]
    /\ mail = [u \in Users |-> IF u \in Members THEN MailOf[u] ELSE None]
    /\ bindings = {}
    /\ state = [s \in States |-> None]
    /\ pc = [r \in Callbacks |-> "idle"]
    /\ asks = [r \in Callbacks |-> None]
    /\ info = [r \in Callbacks |-> None]
    /\ target = [r \in Callbacks |-> None]
    /\ spent = {} /\ before = [r \in Callbacks |-> {}]
    /\ reused = FALSE /\ orphans = {} /\ deletions = 0

Next ==
    \/ \E s \in States : GetAuthUrl(s) \/ ExpireState(s) \/ \E u \in Users : GetBindingAuthUrl(s, u)
    \/ \E r \in Callbacks :
          Callback(r) \/ ReadState(r) \/ SpendState(r) \/ BindingWithOauth2(r) \/ Login(r) \/ Commit(r)
    \/ \E u \in Users : Unbinding(u) \/ DeleteUser(u)

Spec == Init /\ [][Next]_vars

-----------------------------------------------------------------------------
Infos == [type : {"login", "binding"}, user : Users \cup {None}]

TypeOK ==
    /\ user \in [Users -> {"none", "live", "deleted"}]
    /\ bindings \subseteq [user : Users, account : Accounts]
    /\ state \in [States -> Infos \cup {None}]
    /\ pc \in [Callbacks -> {"idle", "state", "spend", "binding", "login", "write", "in", "failed"}]
    /\ asks \in [Callbacks -> [state : States, account : Accounts] \cup {None}]
    /\ info \in [Callbacks -> Infos \cup {None}]
    /\ target \in [Callbacks -> Users \cup {None}]
    /\ before \in [Callbacks -> SUBSET States]
    /\ spent \subseteq States /\ orphans \subseteq Users

\* A state brings one callback through, and those that overlap with it:
\* login_or_binding reads it and deletes it in two commands.
StateSpent == ~reused

\* An account is bound to a user that is live, so that its login finds him,
\* unless he was deleted between asking for the binding and the end of the
\* callback: crud_user.delete takes the bindings along, binding_with_oauth2
\* does not look whether the user is there.
BoundToLive == \A b \in bindings : user[b.user] = "live" \/ b.user \in orphans
=============================================================================
