--------------------------- MODULE OnlineSessions ---------------------------
(***************************************************************************)
(* Who is online: the sockets of a user's sessions                         *)
(* (common/socketio/server.py), their disconnection when a session is      *)
(* revoked (common/security/token.py), and the list of sessions the        *)
(* monitor shows and prunes (admin/api/v1/monitor/online.py).              *)
(*                                                                         *)
(* Every command to Redis is a step.  Time has two ends: an access token   *)
(* of a login lasts until Soon, one of a refresh until Late, and a key     *)
(* that is gone, or a set without a lifetime, has 0.  Production: a socket *)
(* without a token is refused.                                             *)
(***************************************************************************)
EXTENDS Naturals, FiniteSets

CONSTANTS
    Sessions, Sockets,
    Owner,      \* Owner[c]: the session a socket connects for
    Revokes,    \* logouts and forced logouts
    About,      \* About[r]: the session revoked
    Monitors,   \* GET /monitors/sessions
    Casts       \* bounds: [ops, leaves, crashes], the operations of a behaviour, how many
                \* clients leave in it, and how often the server of the sockets dies

Everybody == Sessions \cup Sockets \cup Revokes \cup Monitors

\* What the constants are: an operation is one of one kind.
OnlineAssumption ==
    /\ Sessions \cap Sockets = {} /\ (Sessions \cup Sockets) \cap (Revokes \cup Monitors) = {}
    /\ Revokes \cap Monitors = {}
    /\ Owner \in [Sockets -> Sessions] /\ About \in [Revokes -> Sessions]
    /\ Casts \subseteq [ops : SUBSET Everybody, leaves : Nat, crashes : Nat]

VARIABLES
    clock,      \* the end that has passed, 0 before the first
    token,      \* token[s]: the end of the access token in Redis
    index,      \* {TOKEN_SESSION_REDIS_PREFIX}:{user_id}
    users,      \* the user is in {TOKEN_SESSION_REDIS_PREFIX}:users
    sid,        \* sid[c]: the end of {TOKEN_ONLINE_REDIS_PREFIX}:sid:{c}
    members,    \* members[s]: {TOKEN_ONLINE_REDIS_PREFIX}:session:{s}
    ttl,        \* ttl[s]: its lifetime
    conn,       \* conn[c]: the server holds the connection
    pc,         \* a session is "idle" until its login; a socket is at its connect
    closing,    \* closing[c]: where its disconnect is
    exp,        \* exp[c]: the end of the token it connected with
    read,       \* read[c]: the lifetime it read of the set
    snap,       \* snap[o]: sockets or sessions a handler has read
    kick,       \* sockets a background task is to disconnect
    leaves, crashes,    \* clients that may yet leave, deaths of the server that may yet happen
    missed,     \* history: added to a set after a revocation had read it
    raced,      \* history: of a set whose lifetime was set by two at once
    cut,        \* history: its connection ended during connect, or unnoticed
    hidden      \* history: the last token was written while its user was unlisted

keys == <<token, index, users, sid, members, ttl>>
socket == <<conn, closing, exp, read>>
history == <<missed, raced, cut, hidden>>
left == <<leaves, crashes>>
vars == <<clock, keys, socket, pc, snap, kick, left, history>>

Soon == 1
Late == 2

Goes(o, to) == pc' = [pc EXCEPT ![o] = to]
GoesOn(c, to) == closing' = [closing EXCEPT ![c] = to]

Init ==
    /\ clock = 0
    /\ token = [s \in Sessions |-> 0]
    /\ index = {} /\ users = FALSE
    /\ sid = [c \in Sockets |-> 0]
    /\ members = [s \in Sessions |-> {}]
    /\ ttl = [s \in Sessions |-> 0]
    /\ conn = [c \in Sockets |-> FALSE]
    /\ \E cast \in Casts :
          /\ pc = [o \in Everybody |-> IF o \in cast.ops THEN "idle" ELSE "absent"]
          /\ leaves = cast.leaves
          /\ crashes = cast.crashes
    /\ closing = [c \in Sockets |-> "no"]
    /\ exp = [c \in Sockets |-> 0]
    /\ read = [c \in Sockets |-> 0]
    /\ snap = [o \in Everybody |-> {}]
    /\ kick = {}
    /\ missed = {} /\ raced = {} /\ cut = {} /\ hidden = FALSE

-----------------------------------------------------------------------------
(* Tokens: the pipelines of create_access_token.                           *)

Revoked(s) == \E r \in Revokes : About[r] = s /\ pc[r] \notin {"idle", "absent", "delete"}

WriteToken(s, end) ==
    /\ token' = [token EXCEPT ![s] = end]
    /\ index' = index \cup {s}
    /\ users' = TRUE
    /\ hidden' = ((\E m \in Monitors : pc[m] \in {"tokens", "srem"})
                    \/ \E r \in Revokes : pc[r] = "unlist")
    /\ UNCHANGED <<clock, sid, members, ttl, socket, snap, kick, left, missed, raced, cut>>

Login(s) == pc[s] = "idle" /\ Goes(s, "in") /\ WriteToken(s, clock + 1)

\* The refresh of a session that was revoked is in TokenSessions.
Refresh(s) == pc[s] = "in" /\ token[s] # Late /\ ~Revoked(s) /\ Goes(s, "in") /\ WriteToken(s, Late)

\* A lifetime is long beside a connect.
Tick ==
    /\ clock < Soon
    /\ \A c \in Sockets : pc[c] \in {"idle", "absent", "open"}
    /\ clock' = Soon
    /\ token' = [s \in Sessions |-> IF token[s] = Soon THEN 0 ELSE token[s]]
    /\ sid' = [c \in Sockets |-> IF sid[c] = Soon THEN 0 ELSE sid[c]]
    /\ members' = [s \in Sessions |-> IF ttl[s] = Soon THEN {} ELSE members[s]]
    /\ ttl' = [s \in Sessions |-> IF ttl[s] = Soon THEN 0 ELSE ttl[s]]
    /\ UNCHANGED <<index, users, socket, pc, snap, kick, left, history>>

-----------------------------------------------------------------------------
(* connect                                                                 *)

\* jwt_authentication: the token presented is the one in Redis.
Authenticate(c) ==
    /\ pc[c] = "idle"
    /\ token[Owner[c]] # 0
    /\ exp' = [exp EXCEPT ![c] = token[Owner[c]]]
    /\ conn' = [conn EXCEPT ![c] = TRUE]
    /\ Goes(c, "set")
    /\ UNCHANGED <<clock, keys, closing, read, snap, kick, left, history>>

SetSid(c) ==
    /\ pc[c] = "set"
    /\ sid' = [sid EXCEPT ![c] = exp[c]]
    /\ Goes(c, "add")
    /\ UNCHANGED <<clock, token, index, users, members, ttl, socket, snap, kick, left, history>>

AddSid(c) ==
    /\ pc[c] = "add"
    /\ members' = [members EXCEPT ![Owner[c]] = @ \cup {c}]
    /\ missed' = IF \E r \in Revokes : About[r] = Owner[c] /\ pc[r] \notin {"idle", "absent"}
                 THEN missed \cup {c} ELSE missed
    /\ Goes(c, "ttl")
    /\ UNCHANGED <<clock, token, index, users, sid, ttl, socket, snap, kick, left, raced, cut, hidden>>

ReadTtl(c) ==
    /\ pc[c] = "ttl"
    /\ read' = [read EXCEPT ![c] = ttl[Owner[c]]]
    /\ Goes(c, "expire")
    /\ UNCHANGED <<clock, keys, conn, closing, exp, snap, kick, left, history>>

\* Mutant: the lifetime of this connection, also when another has a longer one.
NewTtlOwn(c) == exp[c]

NewTtl(c) == IF read[c] > exp[c] THEN read[c] ELSE exp[c]

\* EXPIRE does nothing to a set that is gone.
SetTtl(c) ==
    LET s == Owner[c] IN
    /\ pc[c] = "expire"
    /\ ttl' = [ttl EXCEPT ![s] = IF members[s] = {} THEN 0 ELSE NewTtl(c)]
    /\ raced' = IF ttl[s] # read[c] THEN raced \cup {o \in Sockets : Owner[o] = s} ELSE raced
    /\ Goes(c, "open")
    /\ UNCHANGED <<clock, token, index, users, sid, members, socket, snap, kick, left, missed, cut, hidden>>

-----------------------------------------------------------------------------
(* disconnect                                                              *)

Ends(c) ==
    /\ conn' = [conn EXCEPT ![c] = FALSE]
    /\ GoesOn(c, "get")
    /\ cut' = IF pc[c] = "open" THEN cut ELSE cut \cup {c}
    /\ UNCHANGED <<clock, keys, exp, read, pc, snap, crashes, missed, raced, hidden>>

\* The client leaves, or is lost.
Close(c) == conn[c] /\ leaves > 0 /\ leaves' = leaves - 1 /\ Ends(c) /\ UNCHANGED kick

\* sio.disconnect, in a background task of the revocation.
Kick(c) ==
    /\ c \in kick
    /\ kick' = kick \ {c}
    /\ UNCHANGED leaves
    /\ IF conn[c] THEN Ends(c)
       ELSE UNCHANGED <<clock, keys, socket, pc, snap, crashes, history>>

\* Without the key the session comes from the server's memory, if it is there.
GetSid(c) ==
    /\ closing[c] = "get"
    /\ GoesOn(c, "del") \/ (sid[c] = 0 /\ GoesOn(c, "end"))
    /\ UNCHANGED <<clock, keys, conn, exp, read, pc, snap, kick, left, history>>

DelSid(c) ==
    /\ closing[c] = "del"
    /\ sid' = [sid EXCEPT ![c] = 0]
    /\ GoesOn(c, "srem")
    /\ UNCHANGED <<clock, token, index, users, members, ttl, conn, exp, read, pc, snap, kick, left, history>>

Without(s, gone) ==
    /\ members' = [members EXCEPT ![s] = @ \ gone]
    /\ ttl' = [ttl EXCEPT ![s] = IF members[s] \subseteq gone THEN 0 ELSE @]

RemoveSid(c) ==
    /\ closing[c] = "srem"
    /\ Without(Owner[c], {c})
    /\ GoesOn(c, "rest")
    /\ UNCHANGED <<clock, token, index, users, sid, conn, exp, read, pc, snap, kick, left, history>>

ReadRest(c) ==
    /\ closing[c] = "rest"
    /\ snap' = [snap EXCEPT ![c] = members[Owner[c]]]
    /\ GoesOn(c, IF members[Owner[c]] = {} THEN "end" ELSE "probe")
    /\ UNCHANGED <<clock, keys, conn, exp, read, pc, kick, left, history>>

ProbeRest(c) ==
    LET stale == {o \in snap[c] : sid[o] = 0} IN
    /\ closing[c] = "probe"
    /\ snap' = [snap EXCEPT ![c] = stale]
    /\ GoesOn(c, IF stale = {} THEN "end" ELSE "drop")
    /\ UNCHANGED <<clock, keys, conn, exp, read, pc, kick, left, history>>

DropStale(c) ==
    /\ closing[c] = "drop"
    /\ Without(Owner[c], snap[c])
    /\ snap' = [snap EXCEPT ![c] = {}]
    /\ GoesOn(c, "end")
    /\ UNCHANGED <<clock, token, index, users, sid, conn, exp, read, pc, kick, left, history>>

\* The server dies with its connections and handlers: no disconnect runs.
Crash ==
    LET held == {c \in Sockets : conn[c] \/ closing[c] \notin {"no", "end"}} IN
    /\ crashes > 0
    /\ held # {}
    /\ crashes' = crashes - 1
    /\ conn' = [c \in Sockets |-> FALSE]
    /\ closing' = [c \in Sockets |-> IF c \in held THEN "end" ELSE closing[c]]
    /\ pc' = [o \in Everybody |-> IF o \in Sockets /\ pc[o] \notin {"idle", "absent"} THEN "open" ELSE pc[o]]
    /\ snap' = [o \in Everybody |-> IF o \in Sockets THEN {} ELSE snap[o]]
    /\ cut' = cut \cup held
    /\ UNCHANGED <<clock, keys, exp, read, kick, leaves, missed, raced, hidden>>

-----------------------------------------------------------------------------
(* _revoke_sessions                                                        *)

ReadSids(r) ==
    /\ pc[r] = "idle"
    /\ pc[About[r]] = "in"
    /\ snap' = [snap EXCEPT ![r] = members[About[r]]]
    /\ Goes(r, "delete")
    /\ UNCHANGED <<clock, keys, socket, kick, left, history>>

DeleteKeys(r) ==
    /\ pc[r] = "delete"
    /\ token' = [token EXCEPT ![About[r]] = 0]
    /\ members' = [members EXCEPT ![About[r]] = {}]
    /\ ttl' = [ttl EXCEPT ![About[r]] = 0]
    /\ sid' = [c \in Sockets |-> IF c \in snap[r] THEN 0 ELSE sid[c]]
    /\ Goes(r, "srem")
    /\ UNCHANGED <<clock, index, users, socket, snap, kick, left, history>>

RemoveMembers(r) ==
    /\ r \in Revokes
    /\ pc[r] = "srem"
    /\ index' = index \ {About[r]}
    /\ Goes(r, "check")
    /\ UNCHANGED <<clock, token, users, sid, members, ttl, socket, snap, kick, left, history>>

CheckIndex(r) ==
    /\ pc[r] = "check"
    /\ Goes(r, IF index = {} THEN "unlist" ELSE "kick")
    /\ UNCHANGED <<clock, keys, socket, snap, kick, left, history>>

Unlist(r) ==
    /\ pc[r] = "unlist"
    /\ users' = FALSE
    /\ Goes(r, "kick")
    /\ UNCHANGED <<clock, token, index, sid, members, ttl, socket, snap, kick, left, history>>

StartKicks(r) ==
    /\ pc[r] = "kick"
    /\ kick' = kick \cup snap[r]
    /\ snap' = [snap EXCEPT ![r] = {}]
    /\ Goes(r, "done")
    /\ UNCHANGED <<clock, keys, socket, left, history>>

-----------------------------------------------------------------------------
(* get_sessions                                                            *)

ReadUsers(m) ==
    /\ pc[m] = "idle"
    /\ Goes(m, IF users THEN "index" ELSE "done")
    /\ UNCHANGED <<clock, keys, socket, snap, kick, left, history>>

ReadSessions(m) ==
    /\ pc[m] = "index"
    /\ snap' = [snap EXCEPT ![m] = index]
    /\ Goes(m, IF index = {} THEN "srem" ELSE "tokens")
    /\ UNCHANGED <<clock, keys, socket, kick, left, history>>

ReadTokens(m) ==
    /\ pc[m] = "tokens"
    /\ snap' = [snap EXCEPT ![m] = {}]
    /\ Goes(m, IF \E s \in snap[m] : token[s] # 0 THEN "done" ELSE "srem")
    /\ UNCHANGED <<clock, keys, socket, kick, left, history>>

RemoveUser(m) ==
    /\ m \in Monitors
    /\ pc[m] = "srem"
    /\ users' = FALSE
    /\ Goes(m, "done")
    /\ UNCHANGED <<clock, token, index, sid, members, ttl, socket, snap, kick, left, history>>

\* What the list says of a session of a user it shows.
Shown(c) == c \in members[Owner[c]] /\ sid[c] # 0
Online(s) == \E c \in Sockets : Owner[c] = s /\ Shown(c)

-----------------------------------------------------------------------------

SocketStep(c) ==
    \/ Authenticate(c) \/ SetSid(c) \/ AddSid(c) \/ ReadTtl(c) \/ SetTtl(c)
    \/ Close(c) \/ Kick(c) \/ GetSid(c) \/ DelSid(c) \/ RemoveSid(c)
    \/ ReadRest(c) \/ ProbeRest(c) \/ DropStale(c)

Next ==
    \/ \E s \in Sessions : Login(s) \/ Refresh(s)
    \/ Tick \/ Crash
    \/ \E c \in Sockets : SocketStep(c)
    \/ \E r \in Revokes : ReadSids(r) \/ DeleteKeys(r) \/ RemoveMembers(r) \/ CheckIndex(r)
                            \/ Unlist(r) \/ StartKicks(r)
    \/ \E m \in Monitors : ReadUsers(m) \/ ReadSessions(m) \/ ReadTokens(m) \/ RemoveUser(m)

Spec == Init /\ [][Next]_vars

-----------------------------------------------------------------------------

Open(c) == pc[c] = "open" /\ conn[c]
Fresh(c) == exp[c] > clock /\ c \notin raced

\* No socket of a revoked session stays connected, but one that was added to
\* the set after the revocation had read it, one whose first token has run out,
\* one whose set lost its lifetime to two connects at once, or, until it does,
\* one that another revocation of the session is to disconnect.
RevokedOffline ==
    \A c \in Sockets, r \in Revokes :
        (Open(c) /\ About[r] = Owner[c] /\ pc[r] = "done" /\ c \notin kick) =>
            \/ c \in missed \/ ~Fresh(c)
            \/ \E q \in Revokes : About[q] = Owner[c] /\ pc[q] # "done" /\ c \in snap[q]

\* While a session lasts it is shown online exactly when one of its sockets is
\* connected, but for sockets that end during connect or with the server, which
\* stay listed, and for those that outlive the token they connected with.
OnlineTrue ==
    \A s \in Sessions :
        LET own == {c \in Sockets : Owner[c] = s}
        IN /\ Online(s) => \E c \in own : conn[c] \/ closing[c] \notin {"no", "end"} \/ c \in cut
           /\ (\E c \in own : Open(c) /\ Fresh(c)) /\ token[s] # 0 => Online(s)

\* A user with a live session is on the list the monitor reads, unless the
\* monitor or a revocation was about to take the user off it when the token was
\* written.
UserListed == (\E s \in Sessions : token[s] # 0) => users \/ hidden
=============================================================================
