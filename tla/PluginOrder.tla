----------------------------- MODULE PluginOrder -----------------------------
(***************************************************************************)
(* The order in which plugins are loaded (plugin/core.py,                  *)
(* resolve_plugin_order): a walk through what they depend on that ends     *)
(* with every plugin behind its dependencies, or with an error.            *)
(*                                                                         *)
(* PluginStart has the same walk as an operator, within a start; here a    *)
(* step is what visit does between two calls of itself, so that the walk   *)
(* can be followed for any plugins.  visited is the set of those in        *)
(* ordered_plugins, as both are added to together.                         *)
(***************************************************************************)
EXTENDS Naturals, Sequences

CONSTANTS
    Packages,  \* names of plugins
    Lists,     \* the lists of plugins that may have to be ordered
    None

Plugin == [name : Packages, depends_on : Seq(Packages)]

\* The names are those of directories.
OrderAssumption ==
    /\ Lists \subseteq Seq(Plugin)
    /\ \A l \in Lists : \A i, j \in DOMAIN l : l[i].name = l[j].name => i = j
    /\ None \notin {"missing", "circle"}

VARIABLES
    plugins,          \* the list to be ordered
    turn,             \* the number of the plugin whose turn is next
    visiting,         \* the names whose visit has not ended, the innermost last
    met,              \* met[n]: how many dependencies the visit of n has met
    ordered_plugins,  \* the names of the plugins ordered so far
    refused           \* the error, "missing" or "circle", or None

vars == <<plugins, turn, visiting, met, ordered_plugins, refused>>

In(x, s) == \E i \in DOMAIN s : s[i] = x

Known == {plugins[i].name : i \in DOMAIN plugins}

\* plugin_map
DependsOn(n) == plugins[CHOOSE i \in DOMAIN plugins : plugins[i].name = n].depends_on

Visited(n) == In(n, ordered_plugins)

Innermost == visiting[Len(visiting)]

Init ==
    /\ plugins \in Lists
    /\ turn = 1
    /\ visiting = <<>>
    /\ met = [n \in Packages |-> 0]
    /\ ordered_plugins = <<>>
    /\ refused = None

\* The visit of n begins, unless it is done already.
Enter(n) == visiting' = IF Visited(n) THEN visiting ELSE Append(visiting, n)

\* The loop over the list.
VisitNext ==
    /\ refused = None /\ visiting = <<>>
    /\ turn <= Len(plugins)
    /\ turn' = turn + 1
    /\ Enter(plugins[turn].name)
    /\ UNCHANGED <<plugins, met, ordered_plugins, refused>>

\* Mutant: only the plugin that depends is looked for, not those around it.
CircleAtOnce(n) == n = Innermost

Circle(n) == In(n, visiting)

\* The loop over the dependencies of a plugin.
VisitDependency ==
    /\ refused = None /\ visiting # <<>>
    /\ met[Innermost] < Len(DependsOn(Innermost))
    /\ LET dependency == DependsOn(Innermost)[met[Innermost] + 1]
       IN \/ /\ dependency \notin Known
             /\ refused' = "missing"
             /\ UNCHANGED <<visiting, met>>
          \/ /\ dependency \in Known /\ ~Visited(dependency) /\ Circle(dependency)
             /\ refused' = "circle"
             /\ UNCHANGED <<visiting, met>>
          \/ /\ dependency \in Known /\ (Visited(dependency) \/ ~Circle(dependency))
             /\ met' = [met EXCEPT ![Innermost] = @ + 1]
             /\ Enter(dependency)
             /\ UNCHANGED refused
    /\ UNCHANGED <<plugins, turn, ordered_plugins>>

\* The visit of a plugin ends.
Leave ==
    /\ refused = None /\ visiting # <<>>
    /\ met[Innermost] = Len(DependsOn(Innermost))
    /\ ordered_plugins' = Append(ordered_plugins, Innermost)
    /\ visiting' = SubSeq(visiting, 1, Len(visiting) - 1)
    /\ UNCHANGED <<plugins, turn, met, refused>>

Next == VisitNext \/ VisitDependency \/ Leave

Spec == Init /\ [][Next]_vars

-----------------------------------------------------------------------------

\* The ways to number the plugins so that each comes behind its dependencies.
Ranks ==
    {rank \in [Known -> DOMAIN plugins] :
        \A n \in Known : \A i \in DOMAIN DependsOn(n) :
            DependsOn(n)[i] \in Known /\ rank[DependsOn(n)[i]] < rank[n]}

Distinct(s) == \A i, j \in DOMAIN s : s[i] = s[j] => i = j

\* resolve_plugin_order puts every plugin once behind what it depends on, when
\* there is such an order at all, and raises an error only when there is none;
\* and it never visits a plugin inside its own visit, however they depend on
\* each other.
OrderRight ==
    /\ Distinct(ordered_plugins) /\ Distinct(visiting)
    /\ \A i \in DOMAIN ordered_plugins :
          /\ ordered_plugins[i] \in Known
          /\ \A d \in DOMAIN DependsOn(ordered_plugins[i]) :
                \E j \in 1..(i - 1) : ordered_plugins[j] = DependsOn(ordered_plugins[i])[d]
    /\ refused # None => Ranks = {}
    /\ (refused = None /\ visiting = <<>> /\ turn > Len(plugins)) => \A n \in Known : Visited(n)
=============================================================================
