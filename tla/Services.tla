------------------------------ MODULE Services ------------------------------
(***************************************************************************)
(* The services whose requests race on shared rows, keys and files, side   *)
(* by side: the rows of the administration (AdminRows), what stands before *)
(* a login (LoginSecurity), accounts of another site (OAuth2Bindings),     *)
(* plugins on disk (PluginLifecycle) and sockets (OnlineSessions); and the *)
(* order in which a start loads the plugins (PluginOrder).  They share no  *)
(* state with each other, so a behaviour belongs to one of them, its part: *)
(* the variables of the others keep the value None.                        *)
(***************************************************************************)

CONSTANTS
    None,
    \* AdminRows
    Requests, Names, Emails, Scenes, Zero, MaxBegun,
    \* LoginSecurity
    Attempts, Mails, LoginCasts, Captchas, Address, Threshold, MaxIssues, MaxKeyExpiries, MaxEdits,
    \* OAuth2Bindings
    Users, Accounts, Members, MailOf, States, Callbacks, MaxDeletions,
    \* PluginLifecycle
    Jobs, Plugins, Installed, Required, MaxLockExpiries,
    \* OnlineSessions
    Sessions, Sockets, Owner, Revokes, About, Monitors, OnlineCasts,
    \* PluginOrder
    Packages, Lists

VARIABLES
    part,
    \* AdminRows
    rows, links, plan, begun, seen, raced, moved, surprise,
    \* LoginSecurity
    table, settings, code, issued, lock, failures, answer, count, expiries, edits, wrong,
    \* OAuth2Bindings
    user, mail, bindings, state, asks, info, target, orphans, deletions,
    \* PluginLifecycle
    disk, file, cache, changed, loaded, marker, kind, about, snap, found, enabled, wrote, overrun, untold,
    busy,
    \* OnlineSessions
    clock, token, index, users, sid, members, ttl, conn, closing, exp, read, kick, leaves, crashes,
    missed, cut, hidden,
    \* PluginOrder
    plugins, turn, visiting, met, ordered_plugins, refused,
    \* several of them
    pc, spent, before, reused, mixed

A == INSTANCE AdminRows
G == INSTANCE LoginSecurity WITH Casts <- LoginCasts, MaxExpiries <- MaxKeyExpiries
O == INSTANCE OAuth2Bindings
P == INSTANCE PluginLifecycle WITH MaxExpiries <- MaxLockExpiries
N == INSTANCE OnlineSessions WITH Casts <- OnlineCasts
W == INSTANCE PluginOrder

ASSUME ServicesAssumption ==
    /\ A!RowsAssumption /\ G!LoginAssumption /\ O!OAuthAssumption
    /\ P!PluginAssumption /\ N!OnlineAssumption /\ W!OrderAssumption

-----------------------------------------------------------------------------
(* A part at rest, and what it leaves alone.                               *)

rowsOwn == <<rows, links, plan, begun, seen, moved, surprise>>
RowsOff ==
    /\ rows = None /\ links = None /\ plan = None /\ begun = None /\ seen = None
    /\ moved = None /\ surprise = None

loginOwn == <<table, settings, code, issued, failures, answer, count, edits, wrong>>
LoginOff ==
    /\ table = None /\ settings = None /\ code = None /\ issued = None /\ failures = None
    /\ answer = None /\ count = None /\ edits = None /\ wrong = None

oauth2Own == <<user, mail, bindings, state, asks, info, target, orphans, deletions>>
Oauth2Off ==
    /\ user = None /\ mail = None /\ bindings = None /\ state = None /\ asks = None
    /\ info = None /\ target = None /\ orphans = None /\ deletions = None

pluginsOwn == <<disk, file, cache, changed, loaded, marker, kind, about, found, enabled, wrote,
                overrun, untold, busy>>
PluginsOff ==
    /\ disk = None /\ file = None /\ cache = None /\ changed = None /\ loaded = None
    /\ marker = None /\ kind = None /\ about = None /\ found = None /\ enabled = None
    /\ wrote = None /\ overrun = None /\ untold = None /\ busy = None

onlineOwn == <<clock, token, index, users, sid, members, ttl, conn, closing, exp, read, kick,
               leaves, crashes, missed, cut, hidden>>
OnlineOff ==
    /\ clock = None /\ token = None /\ index = None /\ users = None /\ sid = None
    /\ members = None /\ ttl = None /\ conn = None /\ closing = None /\ exp = None
    /\ read = None /\ kick = None /\ leaves = None /\ crashes = None /\ missed = None
    /\ cut = None /\ hidden = None

orderOwn == <<plugins, turn, visiting, met, ordered_plugins, refused>>
OrderOff ==
    /\ plugins = None /\ turn = None /\ visiting = None /\ met = None
    /\ ordered_plugins = None /\ refused = None

onceOwn == <<spent, before, reused>>
OnceOff == spent = None /\ before = None /\ reused = None

vars == <<part, rowsOwn, loginOwn, oauth2Own, pluginsOwn, onlineOwn, orderOwn, onceOwn, raced,
          lock, expiries, mixed, snap, pc>>

Init ==
    \/ /\ part = "rows" /\ A!Init
       /\ LoginOff /\ Oauth2Off /\ PluginsOff /\ OnlineOff /\ OrderOff /\ OnceOff
       /\ lock = None /\ expiries = None /\ mixed = None /\ snap = None /\ pc = None
    \/ /\ part = "login" /\ G!Init
       /\ RowsOff /\ Oauth2Off /\ PluginsOff /\ OnlineOff /\ OrderOff /\ raced = None /\ snap = None
    \/ /\ part = "oauth2" /\ O!Init
       /\ RowsOff /\ LoginOff /\ PluginsOff /\ OnlineOff /\ OrderOff
       /\ raced = None /\ lock = None /\ expiries = None /\ mixed = None /\ snap = None
    \/ /\ part = "plugins" /\ P!Init
       /\ RowsOff /\ LoginOff /\ Oauth2Off /\ OnlineOff /\ OrderOff /\ OnceOff /\ raced = None
    \/ /\ part = "online" /\ N!Init
       /\ RowsOff /\ LoginOff /\ Oauth2Off /\ PluginsOff /\ OrderOff /\ OnceOff
       /\ lock = None /\ expiries = None /\ mixed = None
    \/ /\ part = "order" /\ W!Init
       /\ RowsOff /\ LoginOff /\ Oauth2Off /\ PluginsOff /\ OnlineOff /\ OnceOff
       /\ raced = None /\ lock = None /\ expiries = None /\ mixed = None /\ snap = None
       /\ pc = None

RowsStep ==
    /\ part = "rows" /\ A!Next
    /\ UNCHANGED <<part, loginOwn, oauth2Own, pluginsOwn, onlineOwn, orderOwn, onceOwn,
                   lock, expiries, mixed, snap, pc>>
LoginStep ==
    /\ part = "login" /\ G!Next
    /\ UNCHANGED <<part, rowsOwn, oauth2Own, pluginsOwn, onlineOwn, orderOwn, raced, snap>>
Oauth2Step ==
    /\ part = "oauth2" /\ O!Next
    /\ UNCHANGED <<part, rowsOwn, loginOwn, pluginsOwn, onlineOwn, orderOwn, raced, lock,
                   expiries, mixed, snap>>
PluginsStep ==
    /\ part = "plugins" /\ P!Next
    /\ UNCHANGED <<part, rowsOwn, loginOwn, oauth2Own, onlineOwn, orderOwn, onceOwn, raced>>
OnlineStep ==
    /\ part = "online" /\ N!Next
    /\ UNCHANGED <<part, rowsOwn, loginOwn, oauth2Own, pluginsOwn, orderOwn, onceOwn, lock,
                   expiries, mixed>>
OrderStep ==
    /\ part = "order" /\ W!Next
    /\ UNCHANGED <<part, rowsOwn, loginOwn, oauth2Own, pluginsOwn, onlineOwn, onceOwn, raced,
                   lock, expiries, mixed, snap, pc>>

Next == RowsStep \/ LoginStep \/ Oauth2Step \/ PluginsStep \/ OnlineStep \/ OrderStep

Spec == Init /\ [][Next]_vars

-----------------------------------------------------------------------------
\* Rows refer to live rows, whatever requests do one after another.
Anchored == part = "rows" => A!Anchored

\* The look-ups of the services answer for the unique keys, and for the titles and
\* type codes that no key of the database protects.
ChecksSuffice == part = "rows" => A!ChecksSuffice /\ A!TitlesUnique /\ A!DictCoded

\* A captcha or an OAuth2 state lets nobody through who asks after it was spent.
SpentOnce ==
    /\ part = "login" => G!CaptchaSpent
    /\ part = "oauth2" => O!StateSpent

\* Wrong passwords are counted up to the lock, and the lock holds.
LockHolds == part = "login" => G!LockHolds

\* Accounts of other sites are bound to users that are there.
BoundToLive == part = "oauth2" => O!BoundToLive

\* What jobs add to shared files stays, and the watcher keeps still meanwhile.
FilesKept == part = "plugins" => P!FilesKept

\* A change of what a start would load is announced; and a start loads each plugin
\* once, behind what it depends on, or there is no such order and it ends with an
\* error.
PluginsLoaded ==
    /\ part = "plugins" => P!ChangesTold
    /\ part = "order" => W!OrderRight

\* Sockets follow their sessions, and the monitor shows those that are there.
SocketsFollow == part = "online" => N!RevokedOffline /\ N!OnlineTrue /\ N!UserListed
=============================================================================
