----------------------------- MODULE PluginStart -----------------------------
(***************************************************************************)
(* What a start does with the plugins in the plugin directory: validate    *)
(* and parse each plugin.toml (plugin/validator.py, plugin/core.py), order *)
(* the plugins by depends_on, inject their routers (plugin/router.py) and  *)
(* run their hooks (plugin/hooks.py, common/lifespan.py).                  *)
(*                                                                         *)
(* A plugin is what lies in its directory:                                 *)
(*   name, deps    its depends_on, a sequence of names                     *)
(*   info          the [plugin] table: "full", "nodb" without a database,  *)
(*                 or "bad"                                                *)
(*   app           None, or [extend, router], each None when absent        *)
(*   api           None, or the set of API files it configures             *)
(*   settings      whether the settings are upper case and of plain types  *)
(*   other         whether the file has a further table                    *)
(*   model, sql    a model directory, the databases with all four scripts  *)
(*   files         the API files that are there                            *)
(*   exports       the router objects that are there                       *)
(*   hook          None, "ok" or "fails": its setup hook                   *)
(*   lifespan      None or the lifespan function its hooks module names    *)
(***************************************************************************)
EXTENDS Naturals, Sequences, FiniteSets, SequencesExt

CONSTANT None

Names(plugins) == {plugins[i].name : i \in DOMAIN plugins}
Named(plugins, n) == plugins[CHOOSE i \in DOMAIN plugins : plugins[i].name = n]

-----------------------------------------------------------------------------
(* validate_plugin_config                                                  *)

Level(p) == IF p.api # None THEN "extend" ELSE IF p.app # None THEN "app" ELSE "capability"

ExtendSchema(p) ==
    /\ p.info = "full" /\ p.settings
    /\ p.app # None /\ p.app.extend # None
    /\ p.api # {}

AppSchema(p) == p.info = "full" /\ p.settings /\ p.app.router \notin {None, <<>>}

CapabilitySchema(p) == p.info \in {"full", "nodb"} /\ p.settings /\ ~p.other

Schema(p) ==
    CASE Level(p) = "extend" -> ExtendSchema(p)
      [] Level(p) = "app" -> AppSchema(p)
      [] Level(p) = "capability" -> CapabilitySchema(p)

ModelScripts(p) == p.model => p.info # "nodb" /\ p.sql # {}

Valid(p) == Schema(p) /\ p.name \notin ToSet(p.deps) /\ ModelScripts(p)

-----------------------------------------------------------------------------
(* parse_plugin_config: the extending plugins, then the applications.      *)
(* Capability plugins are validated and then left out.                     *)

Entry(p) ==
    [name |-> p.name, deps |-> p.deps,
     extend |-> IF Level(p) = "extend" THEN p.app.extend ELSE None,
     api |-> IF Level(p) = "extend" THEN p.api ELSE None,
     routers |-> IF Level(p) = "app" THEN p.app.router ELSE None]

parse_plugin_config(plugins) ==
    LET of(level) == SelectSeq(plugins, LAMBDA p : Level(p) = level)
        listed == of("extend") \o of("app")
    IN [i \in DOMAIN listed |-> Entry(listed[i])]

\* visit: the walk carries the error, if any, and the plugins ordered so far.
RECURSIVE Visit(_, _, _, _)
Visit(entries, p, visiting, walk) ==
    IF walk.err # None \/ p.name \in Names(walk.order) THEN walk
    ELSE IF p.name \in visiting THEN [walk EXCEPT !.err = "circle"]
    ELSE LET step(w, dep) ==
                IF w.err # None THEN w
                ELSE IF dep \notin Names(entries) THEN [w EXCEPT !.err = "missing"]
                ELSE Visit(entries, Named(entries, dep), visiting \cup {p.name}, w)
             below == FoldLeft(step, walk, p.deps)
         IN IF below.err # None THEN below ELSE [below EXCEPT !.order = Append(@, p)]

\* Mutant: a dependency that is not there is ignored.
RECURSIVE VisitLoose(_, _, _, _)
VisitLoose(entries, p, visiting, walk) ==
    IF walk.err # None \/ p.name \in Names(walk.order) THEN walk
    ELSE IF p.name \in visiting THEN [walk EXCEPT !.err = "circle"]
    ELSE LET step(w, dep) ==
                IF w.err # None \/ dep \notin Names(entries) THEN w
                ELSE VisitLoose(entries, Named(entries, dep), visiting \cup {p.name}, w)
             below == FoldLeft(step, walk, p.deps)
         IN IF below.err # None THEN below ELSE [below EXCEPT !.order = Append(@, p)]

ResolveLoose(entries) ==
    LET step(w, p) == VisitLoose(entries, p, {}, w)
    IN FoldLeft(step, [err |-> None, order |-> <<>>], entries)

resolve_plugin_order(entries) ==
    LET step(w, p) == Visit(entries, p, {}, w)
    IN FoldLeft(step, [err |-> None, order |-> <<>>], entries)

-----------------------------------------------------------------------------
(* build_final_router                                                      *)

\* inject_extend_router: every API file needs its configuration; one without a
\* router is skipped, one with a router needs the application it extends.
InjectExtend(p, entry, apps) ==
    /\ p.files # None
    /\ \A f \in p.files : f \in entry.api /\ (f \in p.exports => entry.extend \in apps)

InjectApp(p, entry) == \A i \in DOMAIN entry.routers : entry.routers[i] \in p.exports

build_final_router(plugins, apps) ==
    LET resolved == resolve_plugin_order(parse_plugin_config(plugins))
        extends == SelectSeq(resolved.order, LAMBDA e : e.api # None)
        routed == SelectSeq(resolved.order, LAMBDA e : e.routers # None)
        injectable(e) ==
            IF e.api # None THEN InjectExtend(Named(plugins, e.name), e, apps)
            ELSE InjectApp(Named(plugins, e.name), e)
    IN IF \E i \in DOMAIN plugins : ~Valid(plugins[i]) THEN [err |-> "invalid", order |-> <<>>]
       ELSE IF resolved.err # None THEN [err |-> resolved.err, order |-> <<>>]
       ELSE IF \E i \in DOMAIN resolved.order : ~injectable(resolved.order[i])
            THEN [err |-> "inject", order |-> <<>>]
       ELSE [err |-> None, order |-> extends \o routed]

\* Mutant: the hooks of disabled plugins run too.
get_ordered_plugins(plugins, enabled) == resolve_plugin_order(parse_plugin_config(plugins))

\* get_ordered_enabled_plugins; the names are those of enabled plugins.
get_ordered_enabled_plugins(plugins, enabled) ==
    resolve_plugin_order(SelectSeq(parse_plugin_config(plugins), LAMBDA e : e.name \in enabled))

\* register: a function is registered once, whoever names it.
Register(lifespans, f) ==
    IF f = None \/ f \in ToSet(lifespans) THEN lifespans ELSE Append(lifespans, f)

\* register_plugin_hooks: lifespan, then setup, plugin by plugin; a setup that
\* fails ends the start.
register_plugin_hooks(plugins, enabled) ==
    LET resolved == get_ordered_enabled_plugins(plugins, enabled)
        step(w, e) ==
            LET p == Named(plugins, e.name)
            IN IF w.err # None THEN w
               ELSE [err |-> IF p.hook = "fails" THEN "setup" ELSE None,
                     lifespans |-> Register(w.lifespans, p.lifespan),
                     setup |-> IF p.hook = "ok" THEN Append(w.setup, e.name) ELSE w.setup]
    IN FoldLeft(step, [err |-> resolved.err, lifespans |-> <<>>, setup |-> <<>>], resolved.order)

-----------------------------------------------------------------------------

\* The names a plugin reaches through the depends_on of these plugins.
Reach(plugins, names) ==
    LET step[k \in 0..Len(plugins)] ==
            IF k = 0 THEN names
            ELSE step[k - 1] \cup
                 UNION {ToSet(Named(plugins, n).deps) : n \in step[k - 1] \cap Names(plugins)}
    IN step[Len(plugins)]

\* Every dependency of these plugins is one of them and none reaches itself.
Orderable(plugins) ==
    \A p \in ToSet(plugins) :
        LET below == Reach(plugins, ToSet(p.deps))
        IN below \subseteq Names(plugins) /\ p.name \notin below

DependenciesFirst(plugins, order) ==
    \A i, j \in DOMAIN order : order[j] \in ToSet(Named(plugins, order[i]).deps) => j < i

\* A start routes every plugin or none.  It succeeds exactly when every
\* configuration is valid and every dependency of an extending or application
\* plugin is again one of those (a capability plugin is not, and a plugin of
\* any kind that is disabled is), without a circle; then every route-bearing
\* plugin is injected once, the extending ones before the applications, and
\* within a kind after what it depends on.  What validation accepts never makes
\* parsing or injecting look up a missing entry.
StartRoutes(plugins, apps) ==
    LET start == build_final_router(plugins, apps)
        listed == SelectSeq(plugins, LAMBDA p : Level(p) # "capability")
        sound == \A i \in DOMAIN plugins : Valid(plugins[i])
        names(level) ==
            LET these == SelectSeq(start.order, LAMBDA e : Level(Named(plugins, e.name)) = level)
            IN [i \in DOMAIN these |-> these[i].name]
    IN /\ sound /\ Orderable(listed) <=> start.err \in {None, "inject"}
       /\ sound => \A e \in ToSet(parse_plugin_config(plugins)) : (e.api = None) # (e.routers = None)
       /\ start.err = None =>
            /\ Names(start.order) = Names(listed) /\ Len(start.order) = Len(listed)
            /\ \A i, j \in DOMAIN start.order :
                 start.order[i].api # None /\ start.order[j].api = None => i < j
            /\ DependenciesFirst(plugins, names("extend"))
            /\ DependenciesFirst(plugins, names("app"))

\* The hooks run for the enabled plugins only, and a plugin that depends on a
\* disabled one stops the start although its routes were injected; otherwise
\* setups run after those they depend on, and a failing one lets no later run.
HooksOrdered(plugins, enabled) ==
    LET run == register_plugin_hooks(plugins, enabled)
        on == SelectSeq(plugins, LAMBDA p : Level(p) # "capability" /\ p.name \in enabled)
    IN /\ Orderable(on) <=> run.err \in {None, "setup"}
       /\ DependenciesFirst(plugins, run.setup)
       /\ ToSet(run.setup) \subseteq Names(on)
       /\ run.err = None => ToSet(run.setup) = {p.name : p \in {q \in ToSet(on) : q.hook = "ok"}}
       /\ IsInjective(run.lifespans)
       /\ ~Orderable(on) => run.setup = <<>> /\ run.lifespans = <<>>
=============================================================================
