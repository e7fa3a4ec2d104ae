--------------------------- MODULE TokenSessions ---------------------------
(***************************************************************************)
(* The login sessions of one user: the Redis keys that                     *)
(* common/security/token.py keeps for them and the requests that race on   *)
(* them (admin/service/auth_service.py, admin/service/user_service.py,     *)
(* plugin/oauth2, the online monitor).                                     *)
(*                                                                         *)
(* An operation is one request, run once, by coroutines of any number of   *)
(* processes: every await on Redis or on the database is a step.  A login  *)
(* gives its session its own name; a token is named by the operation that  *)
(* wrote it.  A pipeline is one step: redis-py sends it in one write.      *)
(* The UPDATE of the user's row holds the row until the request commits.   *)
(***************************************************************************)
EXTENDS Naturals, FiniteSets

CONSTANTS
    Logins,      \* POST /login: password login, under the row lock
    OAuths,      \* OAuth2 login: it touches the row only after the tokens
    Swaggers,    \* POST /login/swagger
    Refreshes,   \* POST /refresh
    Logouts,     \* POST /logout, DELETE /sessions/{pk}: one session is revoked
    Resets,      \* password reset or change, user deletion: all are revoked
    Toggles,     \* update_permission(multi_login)
    Casts,       \* bounds: [ops, expiries, aborts], the operations of a behaviour, how
                 \* many keys expire in it, and how many requests fail half way
    None

Ops == Logins \cup OAuths \cup Swaggers \cup Refreshes \cup Logouts \cup Resets \cup Toggles
Sessions == Logins \cup OAuths \cup Swaggers
Formal == Logins \cup OAuths
Writers == Formal \cup Refreshes
Locking == Sessions \cup Resets \cup Toggles

ASSUME TokenAssumption ==
    /\ None \notin Ops
    /\ Casts \subseteq [ops : SUBSET Ops, expiries : Nat, aborts : Nat]
    /\ LET kinds == <<Logins, OAuths, Swaggers, Refreshes, Logouts, Resets, Toggles>>
       IN \A i, j \in 1..7 : i # j => kinds[i] \cap kinds[j] = {}

VARIABLES
    multi,      \* the committed is_multi_login of the user's row
    rowLock,    \* the request whose UPDATE holds the row
    access,     \* access[s]: the operation that wrote the access token of s
    refresh,    \* refresh[s]: the operation that wrote the refresh token of s
    index,      \* {prefix}:{user_id}, the formal sessions
    swagger,    \* {prefix}:{user_id}:swagger
    users,      \* the user is in {prefix}:users
    pc,         \* where an operation is
    goal,       \* what it reads the sessions for: "remote" or "revoke"
    flag,       \* the is_multi_login it works with
    sess,       \* the session it is about, or keeps
    tok,        \* the refresh token presented to a refresh
    snap,       \* the index as it read it
    found,      \* the sessions it found alive, then those it revokes
    before,     \* history: before[o], the operations that ended before o began
    expiries, aborts   \* keys that may yet expire, requests that may yet fail

redisVars == <<access, refresh, index, swagger, users>>
dbVars == <<multi, rowLock>>
opVars == <<pc, goal, flag, sess, tok, snap, found, before>>
vars == <<redisVars, dbVars, opVars, expiries, aborts>>

Ended == {"done", "failed"}
Steps == {"idle", "lock", "snap", "probe", "prune", "swagger", "redeem", "delete",
          "srem", "check", "unlist", "access", "refresh", "commit"} \cup Ended

\* Exactly the request between its UPDATE and its end holds the row.
RowHeld ==
    \A o \in Locking :
        rowLock = o <=> IF o \in OAuths THEN pc[o] = "commit"
                        ELSE pc[o] \notin {"idle", "lock"} \cup Ended

TypeOK ==
    /\ RowHeld
    /\ multi \in BOOLEAN
    /\ rowLock \in Locking \cup {None}
    /\ access \in [Sessions -> Sessions \cup Refreshes \cup {None}]
    /\ refresh \in [Sessions -> Writers \cup {None}]
    /\ index \subseteq Formal
    /\ swagger \subseteq Swaggers
    /\ users \in BOOLEAN
    /\ pc \in [Ops -> Steps]
    /\ goal \in [Ops -> {"remote", "revoke"}]
    /\ flag \in [Ops -> BOOLEAN]
    /\ sess \in [Ops -> Sessions \cup {None}]
    /\ tok \in [Ops -> Writers \cup {None}]
    /\ snap \in [Ops -> SUBSET Formal]
    /\ found \in [Ops -> SUBSET Sessions]
    /\ before \in [Ops -> SUBSET Ops]
    /\ expiries \in Nat /\ aborts \in Nat

Init ==
    /\ multi \in BOOLEAN
    /\ rowLock = None
    /\ access = [s \in Sessions |-> None]
    /\ refresh = [s \in Sessions |-> None]
    /\ index = {}
    /\ swagger = {}
    /\ users = FALSE
    /\ \E cast \in Casts :
          /\ pc = [o \in Ops |-> IF o \in cast.ops THEN "idle" ELSE "failed"]
          /\ expiries = cast.expiries
          /\ aborts = cast.aborts
    /\ goal = [o \in Ops |-> "revoke"]
    /\ flag = [o \in Ops |-> FALSE]
    /\ sess = [o \in Ops |-> None]
    /\ tok = [o \in Ops |-> None]
    /\ snap = [o \in Ops |-> {}]
    /\ found = [o \in Ops |-> {}]
    /\ before = [o \in Ops |-> {}]

-----------------------------------------------------------------------------
(* How the requests begin.                                                 *)

Goto(o, step) == pc' = [pc EXCEPT ![o] = step]

\* The request arrives: what ended before it is remembered.
Begin(o) ==
    /\ pc[o] = "idle"
    /\ before' = [before EXCEPT ![o] = {q \in Ops : pc[q] \in Ended}]

\* Mutant: the other sessions are never revoked.
FirstStepStay(mayStay) == "access"

\* create_access_token: a formal login of a user without is_multi_login first
\* revokes the other sessions.
FirstStep(mayStay) == IF mayStay THEN "access" ELSE "snap"

\* Mutant: the UPDATE does not wait for the row.
RowFreeAlways == TRUE

\* No other transaction has updated the row and not ended.
RowFree == rowLock = None

\* login, swagger_login: user_verify has accepted the password, and the
\* UPDATE of update_login_time is to come.
BeginLogin(o) ==
    /\ o \in Logins \cup Swaggers
    /\ Begin(o)
    /\ sess' = [sess EXCEPT ![o] = o]
    /\ Goto(o, "lock")
    /\ UNCHANGED <<redisVars, dbVars, goal, flag, tok, snap, found, expiries, aborts>>

\* The UPDATE, then db.refresh(user), which reads the row now locked.
LockLogin(o) ==
    /\ o \in Logins \cup Swaggers
    /\ pc[o] = "lock"
    /\ RowFree
    /\ rowLock' = o
    /\ flag' = [flag EXCEPT ![o] = multi]
    /\ Goto(o, FirstStep(multi \/ o \in Swaggers))
    /\ UNCHANGED <<redisVars, multi, goal, sess, tok, snap, found, before, expiries, aborts>>

\* OAuth2Service.login: the row is read, not locked, before the tokens.  (A
\* missing avatar is filled in first, which only makes some others wait.)
BeginOAuth(o) ==
    /\ o \in OAuths
    /\ Begin(o)
    /\ sess' = [sess EXCEPT ![o] = o]
    /\ flag' = [flag EXCEPT ![o] = multi]
    /\ Goto(o, FirstStep(multi))
    /\ UNCHANGED <<redisVars, dbVars, goal, tok, snap, found, expiries, aborts>>

\* update_login_time after the tokens: the UPDATE waits for the row.
LockOAuth(o) ==
    /\ o \in OAuths
    /\ pc[o] = "lock"
    /\ RowFree
    /\ rowLock' = o
    /\ Goto(o, "commit")
    /\ UNCHANGED <<redisVars, multi, goal, flag, sess, tok, snap, found, before,
                   expiries, aborts>>

\* refresh_token, with a refresh token some operation handed out.
BeginRefresh(o) ==
    /\ o \in Refreshes
    /\ Begin(o)
    /\ \E w \in Writers :
        /\ pc[w] = "done"
        /\ tok' = [tok EXCEPT ![o] = w]
        /\ sess' = [sess EXCEPT ![o] = sess[w]]
    /\ flag' = [flag EXCEPT ![o] = multi]
    /\ goal' = [goal EXCEPT ![o] = "remote"]
    /\ Goto(o, IF multi THEN "redeem" ELSE "snap")
    /\ UNCHANGED <<redisVars, dbVars, snap, found, expiries, aborts>>

\* logout and delete_session: revoke_token of one session, seen by its client
\* or in the list of online sessions.
BeginLogout(o) ==
    /\ o \in Logouts
    /\ Begin(o)
    /\ \E s \in Sessions :
        /\ access[s] # None \/ pc[s] = "done"
        /\ sess' = [sess EXCEPT ![o] = s]
        /\ found' = [found EXCEPT ![o] = {s}]
    /\ Goto(o, "delete")
    /\ UNCHANGED <<redisVars, dbVars, goal, flag, tok, snap, expiries, aborts>>

\* reset_password, update_password, delete: the old row is read and checked.
BeginReset(o) ==
    /\ o \in Resets
    /\ Begin(o)
    /\ Goto(o, "lock")
    /\ UNCHANGED <<redisVars, dbVars, goal, flag, sess, tok, snap, found, expiries, aborts>>

\* update_permission: another user's flag is read from the row; one's own
\* comes from request.user, which the user cache may have kept from before.
BeginToggle(o) ==
    /\ o \in Toggles
    /\ Begin(o)
    /\ \/ flag' = [flag EXCEPT ![o] = ~multi] /\ UNCHANGED sess
       \/ \E s \in Sessions, b \in BOOLEAN :
            /\ access[s] # None
            /\ sess' = [sess EXCEPT ![o] = s]
            /\ flag' = [flag EXCEPT ![o] = b]
    /\ Goto(o, "lock")
    /\ UNCHANGED <<redisVars, dbVars, goal, tok, snap, found, expiries, aborts>>

\* The UPDATE of the row.  A flag that allows several sessions revokes none.
LockUpdate(o) ==
    /\ o \in Resets \cup Toggles
    /\ pc[o] = "lock"
    /\ RowFree
    /\ rowLock' = o
    /\ Goto(o, IF o \in Toggles /\ flag[o] THEN "commit" ELSE "snap")
    /\ UNCHANGED <<redisVars, multi, goal, flag, sess, tok, snap, found, before,
                   expiries, aborts>>

-----------------------------------------------------------------------------
(* get_user_sessions                                                       *)

Alive(s) == access[s] # None \/ refresh[s] # None

\* SMEMBERS of the index.
ReadIndex(o) ==
    /\ pc[o] = "snap"
    /\ snap' = [snap EXCEPT ![o] = index]
    /\ found' = [found EXCEPT ![o] = {}]
    /\ Goto(o, IF index = {} THEN "prune" ELSE "probe")
    /\ UNCHANGED <<redisVars, dbVars, goal, flag, sess, tok, before, expiries, aborts>>

\* MGET of the keys of the members.
Probe(o) ==
    /\ pc[o] = "probe"
    /\ found' = [found EXCEPT ![o] = {s \in snap[o] : Alive(s)}]
    /\ Goto(o, "prune")
    /\ UNCHANGED <<redisVars, dbVars, goal, flag, sess, tok, snap, before, expiries, aborts>>

\* Where an operation continues when its revocation is over.
AfterRevoke(o) ==
    IF o \in Writers THEN "access" ELSE IF o \in Logouts THEN "done" ELSE "commit"

\* The index as the pipeline leaves it: DEL when nothing was found alive,
\* which also drops what was added since it was read.
PrunedIndex(o) == IF found[o] = {} THEN {} ELSE index \ (snap[o] \ found[o])

Targets(o) == found[o] \ {sess[o]}

\* The pipeline, and what the caller does with the sessions it gets.
Prune(o) ==
    /\ pc[o] = "prune"
    /\ index' = PrunedIndex(o)
    /\ users' = (found[o] # {})
    /\ snap' = [snap EXCEPT ![o] = {}]
    /\ found' = [found EXCEPT ![o] = IF goal[o] = "remote" THEN {} ELSE Targets(o)]
    /\ goal' = [goal EXCEPT ![o] = "revoke"]
    /\ Goto(o, IF goal[o] = "remote" THEN IF Targets(o) # {} THEN "failed" ELSE "redeem"
               ELSE IF o \notin Writers THEN "swagger"
               ELSE IF Targets(o) = {} THEN "access" ELSE "delete")
    /\ UNCHANGED <<access, refresh, swagger, dbVars, flag, sess, tok, before,
                   expiries, aborts>>

\* Mutant: the swagger sessions are not revoked.
AllTargetsFormal(o) == found[o]

AllTargets(o) == (found[o] \cup swagger) \ {sess[o]}

\* revoke_user_tokens with include_swagger: SMEMBERS of the swagger sessions.
ReadSwagger(o) ==
    /\ pc[o] = "swagger"
    /\ found' = [found EXCEPT ![o] = AllTargets(o)]
    /\ Goto(o, IF AllTargets(o) = {} THEN AfterRevoke(o) ELSE "delete")
    /\ UNCHANGED <<redisVars, dbVars, goal, flag, sess, tok, snap, before, expiries, aborts>>

-----------------------------------------------------------------------------
(* _revoke_sessions                                                        *)

\* Mutant: the refresh tokens are left.
RevokedRefreshKeep(o) == refresh

RevokedRefresh(o) == [s \in Sessions |-> IF s \in found[o] THEN None ELSE refresh[s]]

\* DEL of the access, extra and refresh keys.
DeleteKeys(o) ==
    /\ pc[o] = "delete"
    /\ access' = [s \in Sessions |-> IF s \in found[o] THEN None ELSE access[s]]
    /\ refresh' = RevokedRefresh(o)
    /\ Goto(o, "srem")
    /\ UNCHANGED <<index, swagger, users, dbVars, goal, flag, sess, tok, snap, found, before,
                   expiries, aborts>>

\* SREM from both indexes.
RemoveMembers(o) ==
    /\ pc[o] = "srem"
    /\ index' = index \ found[o]
    /\ swagger' = swagger \ found[o]
    /\ found' = [found EXCEPT ![o] = {}]
    /\ Goto(o, "check")
    /\ UNCHANGED <<access, refresh, users, dbVars, goal, flag, sess, tok, snap, before,
                   expiries, aborts>>

\* SMEMBERS of the index: is the user still online?
CheckIndex(o) ==
    /\ pc[o] = "check"
    /\ Goto(o, IF index = {} THEN "unlist" ELSE AfterRevoke(o))
    /\ UNCHANGED <<redisVars, dbVars, goal, flag, sess, tok, snap, found, before,
                   expiries, aborts>>

\* SREM of the user from the users.
Unlist(o) ==
    /\ pc[o] = "unlist"
    /\ users' = FALSE
    /\ Goto(o, AfterRevoke(o))
    /\ UNCHANGED <<access, refresh, index, swagger, dbVars, goal, flag, sess, tok, snap,
                   found, before, expiries, aborts>>

-----------------------------------------------------------------------------
(* The tokens are written.                                                 *)

\* Mutant: any refresh token is taken.
RedeemableAny(o) == TRUE

\* create_new_token: GET of the refresh token and the comparison.
Redeemable(o) == refresh[sess[o]] = tok[o]

Redeem(o) ==
    /\ pc[o] = "redeem"
    /\ Goto(o, IF Redeemable(o) THEN FirstStep(flag[o]) ELSE "failed")
    /\ UNCHANGED <<redisVars, dbVars, goal, flag, sess, tok, snap, found, before,
                   expiries, aborts>>

\* Mutant: the session is not put into the index.
IndexedNot(s) == index

Indexed(s) == index \cup {s}

\* The pipeline of create_access_token.
WriteAccess(o) ==
    /\ pc[o] = "access"
    /\ access' = [access EXCEPT ![sess[o]] = o]
    /\ IF o \in Swaggers
       THEN /\ swagger' = swagger \cup {sess[o]}
            /\ UNCHANGED <<index, users>>
            /\ Goto(o, "commit")
       ELSE /\ index' = Indexed(sess[o])
            /\ users' = TRUE
            /\ UNCHANGED swagger
            /\ Goto(o, "refresh")
    /\ UNCHANGED <<refresh, dbVars, goal, flag, sess, tok, snap, found, before,
                   expiries, aborts>>

\* Mutant: a refresh hands out its access token only.
NewRefreshKept(o) == IF o \in Refreshes THEN tok[o] ELSE o

NewRefresh(o) == o

\* The pipeline of create_refresh_token.
WriteRefresh(o) ==
    /\ pc[o] = "refresh"
    /\ refresh' = [refresh EXCEPT ![sess[o]] = NewRefresh(o)]
    /\ index' = Indexed(sess[o])
    /\ users' = TRUE
    /\ Goto(o, IF o \in Logins THEN "commit" ELSE IF o \in OAuths THEN "lock" ELSE "done")
    /\ UNCHANGED <<access, swagger, dbVars, goal, flag, sess, tok, snap, found, before,
                   expiries, aborts>>

\* The transaction of the request commits when its handler has returned.
Commit(o) ==
    /\ pc[o] = "commit"
    /\ rowLock' = None
    /\ multi' = IF o \in Toggles THEN flag[o] ELSE multi
    /\ Goto(o, "done")
    /\ UNCHANGED <<redisVars, goal, flag, sess, tok, snap, found, before, expiries, aborts>>

\* Redis, the database or the client fails: the transaction is rolled back,
\* what was done in Redis stays.
Abort(o) ==
    /\ aborts > 0
    /\ pc[o] \notin Ended \cup {"idle"}
    /\ aborts' = aborts - 1
    /\ rowLock' = IF rowLock = o THEN None ELSE rowLock
    /\ snap' = [snap EXCEPT ![o] = {}]
    /\ found' = [found EXCEPT ![o] = {}]
    /\ Goto(o, "failed")
    /\ UNCHANGED <<redisVars, multi, goal, flag, sess, tok, before, expiries>>

-----------------------------------------------------------------------------
(* Redis lets keys expire: an access token after TOKEN_EXPIRE_SECONDS, the *)
(* refresh token of the same operation no earlier.                         *)

ExpireAccess(s) ==
    /\ expiries > 0
    /\ access[s] # None
    /\ expiries' = expiries - 1
    /\ access' = [access EXCEPT ![s] = None]
    /\ UNCHANGED <<refresh, index, swagger, users, dbVars, opVars, aborts>>

ExpireRefresh(s) ==
    /\ expiries > 0
    /\ refresh[s] # None
    /\ access[s] # refresh[s]
    /\ expiries' = expiries - 1
    /\ refresh' = [refresh EXCEPT ![s] = None]
    /\ UNCHANGED <<access, index, swagger, users, dbVars, opVars, aborts>>

Step(o) ==
    \/ BeginLogin(o) \/ LockLogin(o) \/ BeginOAuth(o) \/ LockOAuth(o) \/ BeginRefresh(o)
    \/ BeginLogout(o) \/ BeginReset(o) \/ BeginToggle(o) \/ LockUpdate(o)
    \/ ReadIndex(o) \/ Probe(o) \/ Prune(o) \/ ReadSwagger(o)
    \/ DeleteKeys(o) \/ RemoveMembers(o) \/ CheckIndex(o) \/ Unlist(o)
    \/ Redeem(o) \/ WriteAccess(o) \/ WriteRefresh(o) \/ Commit(o) \/ Abort(o)

Next ==
    \/ \E o \in Ops : Step(o)
    \/ \E s \in Sessions : ExpireAccess(s) \/ ExpireRefresh(s)

Spec == Init /\ [][Next]_vars

-----------------------------------------------------------------------------
(* Properties.                                                             *)

\* Two operations ran at the same time, at least in part.
Overlap(o, q) ==
    /\ pc[o] # "idle" /\ pc[q] # "idle"
    /\ o \notin before[q] /\ q \notin before[o]

\* The operation that wrote a token of s last.
WroteLast(s) == {access[s], refresh[s]} \ {None}

\* Operations that take sessions out of the index: a revocation, or a reading
\* of the sessions for a user who may have only one.
Shrinks(o) == o \in Logouts \cup Resets \cup Toggles \/ (o \in Writers /\ ~flag[o])

\* An operation that shrinks the index ran while w wrote its session: the one
\* thing that can keep the session out of the index.
Disturbed(w) == \E q \in Ops \ {w} : Shrinks(q) /\ Overlap(q, w)

\* A finished revocation of all sessions, but the one it keeps.
RevokedAll(r) == pc[r] = "done" /\ (r \in Resets \/ (r \in Toggles /\ ~flag[r]))

\* After revoke_user_tokens, no token written before it began is alive, unless
\* the index was shrunk while that token was written.
RevokeComplete ==
    \A r \in Ops, s \in Sessions :
        (RevokedAll(r) /\ s # sess[r]) =>
            \A w \in WroteLast(s) : w \in before[r] => s \in Formal /\ Disturbed(w)

\* The docstring of revoke_user_tokens: all sessions of the user are revoked.
RevokesEverySession ==
    \A r \in Resets, s \in Sessions :
        pc[r] = "done" => \A w \in WroteLast(s) : w \notin before[r]

\* Every session that can be refreshed is in the index, and its user among
\* the online users, unless the index was shrunk while it was written.
SessionListed ==
    \A s \in Formal :
        (refresh[s] # None /\ pc[refresh[s]] = "done") =>
            (s \in index /\ users) \/ Disturbed(refresh[s])

\* A logged out session lives on only through a request of that very session
\* that ran during the logout.
LogoutFinal ==
    \A k \in Logouts :
        (pc[k] = "done" /\ Alive(sess[k])) =>
            \E w \in Sessions \cup Refreshes : sess[w] = sess[k] /\ Overlap(w, k)

\* A user without is_multi_login has no older session beside the one written
\* last, unless the index was shrunk while the older one was written.
SingleSession ==
    \A s, z \in Formal : s # z =>
        \A w \in WroteLast(s), v \in WroteLast(z) :
            (w \in before[v] /\ ~flag[v]) => Disturbed(w)

\* A refresh token is redeemed once, unless two requests redeem it together.
RedeemOnce ==
    \A f, g \in Refreshes :
        (f # g /\ pc[f] = "done" /\ pc[g] = "done" /\ tok[f] = tok[g]) => Overlap(f, g)

\* The tokens of a session come from one request, unless two of its requests
\* wrote together or one failed between its two pipelines.
PairIntact ==
    \A s \in Formal :
        (access[s] # None /\ refresh[s] # None /\ access[s] # refresh[s]) =>
            \/ pc[access[s]] \in {"refresh", "failed"}
            \/ Overlap(access[s], refresh[s])
=============================================================================
