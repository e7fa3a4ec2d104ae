--------------------------- MODULE PluginLifecycle ---------------------------
(***************************************************************************)
(* Plugins installed, removed, switched and loaded, and code generated,    *)
(* while the backend runs: the directories on disk, the .env and router    *)
(* files that are read and written back, the status in Redis, the lock     *)
(* that spans the processes, and the file that tells the watcher not to    *)
(* reload (plugin/installer.py, plugin/core.py, plugin/status.py,          *)
(* utils/locks.py, plugin_service.py, code_gen_service.py).                *)
(*                                                                         *)
(* A job is a request, or the start of a process; its accesses to disk and *)
(* Redis are its steps.                                                    *)
(***************************************************************************)
EXTENDS Naturals, FiniteSets

CONSTANTS
    Jobs,
    Plugins,
    Installed,   \* the plugins on disk at first, all loaded and on
    Required,    \* plugins that stay
    MaxExpiries, \* bound: times the lock expires, keys that Redis loses
    None

\* What the constants are.
PluginAssumption ==
    Installed \subseteq Plugins /\ Required \subseteq Installed /\ MaxExpiries \in Nat /\ None \notin Jobs

Installs == {"zip", "git"}
Kinds == Installs \cup {"generate", "uninstall", "status", "start"}
Files == {"env", "router"}
Status == {"on", "off"}

VARIABLES
    disk,       \* the plugin directories
    file,       \* file[f]: the plugins (applications) with their lines in it
    cache,      \* cache[p]: {PLUGIN_REDIS_PREFIX}:p, its status, None when it is gone
    changed,    \* {PLUGIN_REDIS_PREFIX}:changed
    loaded,     \* the status under which the last process to start runs, "absent" for no plugin
    lock,       \* fba:reload_lock: its owner
    marker,     \* RELOAD_LOCK_FILE exists
    pc, kind, about,
    snap,       \* snap[j]: the file, or the status, a job has read
    found,      \* found[j][p]: the status a starting process is to write back: "unread", or "absent"
    enabled,    \* enabled[j][p]: the status it goes by, the same; None until the routers are built
    expiries,
    wrote,      \* history: [file, plugin] that a job has added
    overrun,    \* history: the lock expired while its owner worked
    mixed,      \* history: a process started while another job was under way
    untold,     \* history: plugins with a change that failed half way, or whose notice a start
                \* that failed has deleted, or a key lost
    busy        \* history: jobs under way

vars == <<disk, file, cache, changed, loaded, lock, marker, pc, kind, about, snap, found,
          enabled, expiries, wrote, overrun, mixed, untold, busy>>
job == <<kind, about, found, enabled>>
redis == <<cache, changed>>
dirs == <<disk, file, wrote>>
locks == <<lock, marker, overrun, expiries>>
history == <<mixed, untold>>

Goes(j, to) == pc' = [pc EXCEPT ![j] = to]
Ends(j) == Goes(j, "end") /\ busy' = busy \ {j}
Reads(j, x) == snap' = [snap EXCEPT ![j] = x]
FileOf(j) == IF kind[j] \in Installs THEN "env" ELSE "router"

\* The status a starting process takes for a plugin, and what it would load now.
Known(p) == IF cache[p] = None THEN "on" ELSE cache[p]
Current(p) == IF p \in disk THEN Known(p) ELSE "absent"

-----------------------------------------------------------------------------
\* Whether a plugin is there git asks before it waits for the lock.
Begin(j, k, p) ==
    /\ pc[j] = "idle"
    /\ kind' = [kind EXCEPT ![j] = k]
    /\ about' = [about EXCEPT ![j] = p]
    /\ CASE k \in {"zip", "generate"} -> Goes(j, "acquire")
         [] k = "git" -> p \notin disk /\ Goes(j, "acquire")
         [] k = "uninstall" -> p \in disk \ Required /\ Goes(j, "remove")
         [] k = "status" -> cache[p] # None /\ Goes(j, "read status")
         [] k = "start" -> Goes(j, "scan")
    /\ busy' = busy \cup {j}
    /\ mixed' = (mixed \/ (busy # {} /\ "start" \in {k} \cup {kind[i] : i \in busy}))
    /\ UNCHANGED <<dirs, redis, loaded, locks, snap, found, enabled, untold>>

\* The lock is waited for, a minute at most.
AcquireDistributedReloadLock(j) ==
    /\ pc[j] = "acquire"
    /\ \/ /\ lock = None
          /\ lock' = j
          /\ marker' = TRUE
          /\ Goes(j, IF kind[j] \in Installs THEN "extract" ELSE "read file")
          /\ UNCHANGED busy
       \/ /\ lock # None
          /\ Ends(j)
          /\ UNCHANGED <<lock, marker>>
    /\ UNCHANGED <<dirs, redis, loaded, job, snap, expiries, overrun, history>>

\* The plugin is put into its directory, which may fail half way.
Unpacks(j) ==
    /\ disk' = disk \cup {about[j]}
    /\ \/ Goes(j, "read file") /\ UNCHANGED untold
       \/ Goes(j, "requirements") /\ UNCHANGED untold
       \/ Goes(j, "release") /\ untold' = untold \cup {about[j]}

Refused(j) == Goes(j, "release") /\ UNCHANGED <<disk, untold>>

\* install_zip_plugin refuses a plugin that is there.
Extract(j) ==
    /\ pc[j] = "extract" /\ kind[j] = "zip"
    /\ IF about[j] \in disk THEN Refused(j) ELSE Unpacks(j)
    /\ UNCHANGED <<file, wrote, redis, loaded, locks, job, snap, mixed, busy>>

\* install_git_plugin clones, where meanwhile a plugin may have come too.
Clone(j) ==
    /\ pc[j] = "extract" /\ kind[j] = "git"
    /\ Refused(j) \/ Unpacks(j)
    /\ UNCHANGED <<file, wrote, redis, loaded, locks, job, snap, mixed, busy>>

ReadFile(j) ==
    /\ pc[j] = "read file"
    /\ Reads(j, file[FileOf(j)])
    /\ Goes(j, "write file")
    /\ UNCHANGED <<dirs, redis, loaded, locks, job, history, busy>>

\* Mutant: the file is written anew.
AddedToNothing(content, p) == {p}

AddedTo(content, p) == content \cup {p}

WriteFile(j) ==
    /\ pc[j] = "write file"
    /\ file' = [file EXCEPT ![FileOf(j)] = AddedTo(snap[j], about[j])]
    /\ wrote' = wrote \cup {<<FileOf(j), about[j]>>}
    /\ Reads(j, {})
    /\ Goes(j, IF kind[j] \in Installs THEN "requirements" ELSE "release")
    /\ UNCHANGED <<disk, redis, loaded, locks, job, history, busy>>

\* When they cannot be installed the plugin stays on disk, and nobody is told.
InstallRequirements(j) ==
    /\ pc[j] = "requirements"
    /\ \/ changed' = TRUE /\ UNCHANGED untold
       \/ untold' = untold \cup {about[j]} /\ UNCHANGED changed
    /\ Goes(j, "release")
    /\ UNCHANGED <<dirs, cache, loaded, locks, job, snap, mixed, busy>>

\* Whoever leaves removes the marker, and releases the lock if it is its own.
Release(j) ==
    /\ pc[j] = "release"
    /\ marker' = FALSE
    /\ lock' = IF lock = j THEN None ELSE lock
    /\ Ends(j)
    /\ UNCHANGED <<dirs, redis, loaded, job, snap, expiries, overrun, history>>

ExpireLock ==
    /\ lock # None /\ expiries < MaxExpiries
    /\ lock' = None
    /\ expiries' = expiries + 1
    /\ overrun' = TRUE
    /\ UNCHANGED <<dirs, redis, loaded, marker, pc, job, snap, history, busy>>

-----------------------------------------------------------------------------
(* Removal and switching.  What raises ends the request where it is: the   *)
(* directory may be gone or not, and nobody is told.                       *)

GivesUp(j) == Ends(j) /\ untold' = untold \cup {about[j]}

RemovePlugin(j) ==
    /\ pc[j] = "remove"
    /\ \/ disk' = disk \ {about[j]} /\ Goes(j, "forget") /\ UNCHANGED <<untold, busy>>
       \/ disk' \in {disk, disk \ {about[j]}} /\ GivesUp(j)
    /\ UNCHANGED <<file, wrote, redis, loaded, locks, job, snap, mixed>>

ForgetPlugin(j) ==
    /\ pc[j] = "forget"
    /\ \/ cache' = [cache EXCEPT ![about[j]] = None] /\ Goes(j, "tell") /\ UNCHANGED <<untold, busy>>
       \/ GivesUp(j) /\ UNCHANGED cache
    /\ UNCHANGED <<dirs, changed, loaded, locks, job, snap, mixed>>

ReadStatus(j) ==
    /\ pc[j] = "read status"
    /\ Reads(j, {cache[about[j]]})
    /\ IF cache[about[j]] = None THEN Ends(j) ELSE Goes(j, "write status") /\ UNCHANGED busy
    /\ UNCHANGED <<dirs, redis, loaded, locks, job, history>>

WriteStatus(j) ==
    /\ pc[j] = "write status"
    /\ cache' = [cache EXCEPT ![about[j]] = IF snap[j] = {"off"} THEN "on" ELSE "off"]
    /\ Reads(j, {})
    /\ Goes(j, "tell")
    /\ UNCHANGED <<dirs, changed, loaded, locks, job, history, busy>>

\* Mutant: the notice is forgotten.
TellChangedNot(j) ==
    /\ pc[j] = "tell"
    /\ Ends(j)
    /\ UNCHANGED <<dirs, redis, loaded, locks, job, snap, history>>

TellChanged(j) ==
    /\ pc[j] = "tell"
    /\ \/ changed' = TRUE /\ Ends(j) /\ UNCHANGED untold
       \/ GivesUp(j) /\ UNCHANGED changed
    /\ UNCHANGED <<dirs, cache, loaded, locks, job, snap, mixed>>

-----------------------------------------------------------------------------
(* The start of a process.  The plugins are listed once (get_plugins keeps *)
(* the list); the routers of all are built, then the enabled are read and  *)
(* their hooks registered.  For each of the two parse_plugin_config        *)
(* deletes all keys under the prefix but those of the listed plugins, the  *)
(* notice of a change too, reads every plugin's status and writes it back, *)
(* and deletes the notice again.                                           *)

Finds(j, status) == found' = [found EXCEPT ![j] = status]

Listed(j) == {p \in Plugins : found[j][p] # "absent"}

Scan(j) ==
    /\ pc[j] = "scan"
    /\ Finds(j, [p \in Plugins |-> IF p \in disk THEN "unread" ELSE "absent"])
    /\ enabled' = [enabled EXCEPT ![j] = None]
    /\ Goes(j, "clean")
    /\ UNCHANGED <<dirs, redis, loaded, locks, kind, about, snap, history, busy>>

Routed(j) == pc[j] = "enable" /\ \A p \in Plugins : enabled[j][p] # "unread"

Clean(j) ==
    /\ pc[j] = "clean" \/ Routed(j)
    /\ cache' = [p \in Plugins |-> IF p \in Listed(j) THEN cache[p] ELSE None]
    /\ changed' = FALSE
    /\ Finds(j, [p \in Plugins |-> IF p \in Listed(j) THEN "unread" ELSE "absent"])
    /\ Goes(j, "parse")
    /\ UNCHANGED <<dirs, loaded, locks, kind, about, enabled, snap, history, busy>>

ReadPluginConfig(j, p) ==
    /\ pc[j] = "parse" /\ found[j][p] = "unread"
    /\ Finds(j, [found[j] EXCEPT ![p] = Known(p)])
    /\ about' = [about EXCEPT ![j] = p]
    /\ Goes(j, "write back")
    /\ UNCHANGED <<dirs, redis, loaded, locks, kind, enabled, snap, history, busy>>

WritePluginConfig(j) ==
    /\ pc[j] = "write back"
    /\ cache' = [cache EXCEPT ![about[j]] = found[j][about[j]]]
    /\ Goes(j, "parse")
    /\ UNCHANGED <<dirs, changed, loaded, locks, job, snap, history, busy>>

ResetChanged(j) ==
    /\ pc[j] = "parse"
    /\ \A p \in Plugins : found[j][p] # "unread"
    /\ changed' = FALSE
    /\ Goes(j, "order")
    /\ UNCHANGED <<dirs, cache, loaded, locks, job, snap, history, busy>>

\* build_final_router is done with the order of all plugins.
BuildFinalRouter(j) ==
    /\ pc[j] = "order" /\ enabled[j] = None
    /\ enabled' = [enabled EXCEPT ![j] = [p \in Plugins |-> IF p \in Listed(j) THEN "unread" ELSE "absent"]]
    /\ Goes(j, "enable")
    /\ UNCHANGED <<dirs, redis, loaded, locks, kind, about, found, snap, history, busy>>

GetEnabledPlugins(j, p) ==
    /\ pc[j] = "enable" /\ enabled[j][p] = "unread"
    /\ enabled' = [enabled EXCEPT ![j] = [enabled[j] EXCEPT ![p] = Known(p)]]
    /\ UNCHANGED <<dirs, redis, loaded, locks, pc, kind, about, found, snap, history, busy>>

\* What a start has read is of no use to it any more.
StartEnds(j) ==
    /\ Ends(j)
    /\ Finds(j, [p \in Plugins |-> "absent"])
    /\ enabled' = [enabled EXCEPT ![j] = None]
    /\ UNCHANGED <<kind, about>>

\* get_ordered_enabled_plugins returns those that were enabled when it began.
Started(j) ==
    /\ pc[j] = "order" /\ enabled[j] # None
    /\ loaded' = enabled[j]
    /\ untold' = {}
    /\ StartEnds(j)
    /\ UNCHANGED <<dirs, redis, locks, snap, mixed>>

\* load_plugin_config, validate_plugin_config and resolve_plugin_order raise what is
\* wrong with a plugin, and any access may fail: the process ends, and a notice it
\* has deleted stays so.
StartFails(j) ==
    /\ pc[j] \in {"scan", "clean", "parse", "write back", "order", "enable"}
    /\ untold' = IF pc[j] \in {"scan", "clean"} THEN untold
                 ELSE untold \cup {p \in Plugins : Current(p) # loaded[p]}
    /\ StartEnds(j)
    /\ UNCHANGED <<dirs, redis, loaded, locks, snap, mixed>>

LoseKey(p) ==
    /\ expiries < MaxExpiries /\ cache[p] # None
    /\ cache' = [cache EXCEPT ![p] = None]
    /\ expiries' = expiries + 1
    /\ untold' = untold \cup {p}
    /\ mixed' = (mixed \/ \E j \in busy : kind[j] = "start")
    /\ UNCHANGED <<dirs, changed, loaded, lock, marker, overrun, pc, job, snap, busy>>

\* A request for a loaded plugin whose status is lost switches it on.
RepairPluginCache(p) ==
    /\ loaded[p] # "absent" /\ cache[p] = None /\ p \in disk
    /\ cache' = [cache EXCEPT ![p] = "on"]
    /\ UNCHANGED <<dirs, changed, loaded, locks, pc, job, snap, history, busy>>

Init ==
    /\ disk = Installed
    /\ file = [f \in Files |-> {}]
    /\ cache = [p \in Plugins |-> IF p \in Installed THEN "on" ELSE None]
    /\ changed = FALSE
    /\ loaded = [p \in Plugins |-> IF p \in Installed THEN "on" ELSE "absent"]
    /\ lock = None /\ marker = FALSE
    /\ pc = [j \in Jobs |-> "idle"]
    /\ kind = [j \in Jobs |-> None]
    /\ about = [j \in Jobs |-> None]
    /\ snap = [j \in Jobs |-> {}]
    /\ found = [j \in Jobs |-> [p \in Plugins |-> "absent"]]
    /\ enabled = [j \in Jobs |-> None]
    /\ expiries = 0
    /\ wrote = {} /\ overrun = FALSE /\ mixed = FALSE /\ untold = {} /\ busy = {}

Next ==
    \/ \E j \in Jobs :
          \/ \E k \in Kinds \ {"start"}, p \in Plugins : Begin(j, k, p)
          \/ Begin(j, "start", None)
          \/ AcquireDistributedReloadLock(j) \/ Extract(j) \/ Clone(j)
          \/ ReadFile(j) \/ WriteFile(j) \/ InstallRequirements(j) \/ Release(j)
          \/ RemovePlugin(j) \/ ForgetPlugin(j)
          \/ ReadStatus(j) \/ WriteStatus(j) \/ TellChanged(j)
          \/ Scan(j) \/ Clean(j) \/ WritePluginConfig(j) \/ ResetChanged(j) \/ BuildFinalRouter(j)
          \/ Started(j) \/ StartFails(j)
          \/ \E p \in Plugins : ReadPluginConfig(j, p) \/ GetEnabledPlugins(j, p)
    \/ \E p \in Plugins : LoseKey(p) \/ RepairPluginCache(p)
    \/ ExpireLock

Spec == Init /\ [][Next]_vars

-----------------------------------------------------------------------------
\* As long as the lock did not expire under a job, what a job added to .env
\* or to the application's router is still there, and the watcher is told
\* not to reload while any job is at work on the files.
FilesKept ==
    overrun \/ /\ \A w \in wrote : w[2] \in file[w[1]]
               /\ \A j \in Jobs : pc[j] \in {"extract", "read file", "write file", "requirements"} => marker

\* What is on disk and switched on, when it is not what the last process to
\* start goes by, is announced as a change once the jobs have ended; but not
\* when a process started while another job was at work, nor of a plugin whose
\* installation, removal or switching failed half way or whose key Redis lost,
\* nor a change that waited when a start failed that had deleted the notice.
ChangesTold ==
    (busy = {} /\ ~mixed /\ ~changed) =>
        \A p \in Plugins \ untold : Current(p) = loaded[p]
=============================================================================
