----------------------------- MODULE PluginSort -----------------------------
(***************************************************************************)
(* sort_plugins of cmy_reflector.py: the order in which plugins are set    *)
(* up and emit code.  Plugins depend on others by name; a plugin is taken  *)
(* when nothing it depends on is left, and among those the first by name.  *)
(*                                                                         *)
(* Names are numbers, their order is the alphabetical one.  A plugin is    *)
(* known by its place in the list; two places may hold the same name       *)
(* (--plugin may load one file twice).                                     *)
(***************************************************************************)
EXTENDS Integers, Sequences, FiniteSets, Functions

CONSTANTS
    PluginNames,    \* the names plugins may have or depend on
    Registrations   \* the lists _PLUGINS may hold: sequences of plugins

Plugin == [name : PluginNames, depends_on : Seq(PluginNames)]

ASSUME NamesAssumption == PluginNames \subseteq Nat
ASSUME RegistrationsAssumption == Registrations \subseteq Seq(Plugin)

VARIABLES
    plugins,        \* the argument
    pc,             \* "start", "loop", "done" or "failed" (ValueError)
    count,          \* deps_count_map
    available,      \* places of the plugins free to go
    sorted          \* sorted_plugins, as places

vars == <<plugins, pc, count, available, sorted>>

-----------------------------------------------------------------------------
Places == DOMAIN plugins
Name(i) == plugins[i].name
Present == {Name(i) : i \in Places}

\* plugin_map: of several plugins with one name the last one stays
Holders == {i \in Places : \A j \in Places : Name(j) = Name(i) => j <= i}

\* dependents, by place in the lists: entry e is what plugin e[1] names in
\* position e[2] of its depends_on.
Entries == UNION {{i} \X DOMAIN plugins[i].depends_on : i \in Places}
Dependency(e) == plugins[e[1]].depends_on[e[2]]

\* The entries by which plugins called n wait for one of D
Waits(n, D) == {e \in Entries : Name(e[1]) = n /\ Dependency(e) \in D}

\* Wrong on purpose: by registration, as if there were no sort.
BeforeByPlace(i, j) == i <= j

\* available.sort(key=name) is stable, so equal names keep their order.
Before(i, j) == Name(i) < Name(j) \/ (Name(i) = Name(j) /\ i <= j)

-----------------------------------------------------------------------------
Init ==
    /\ plugins \in Registrations
    /\ pc = "start"
    /\ count = <<>>
    /\ available = {}
    /\ sorted = <<>>

\* Dependencies on plugins that are not there are not counted.
CountDependencies ==
    /\ pc = "start"
    /\ pc' = "loop"
    /\ count' = [n \in Present |-> Cardinality(Waits(n, Present))]
    /\ available' = {i \in Places : count'[Name(i)] = 0}
    /\ UNCHANGED <<plugins, sorted>>

\* Wrong on purpose: a plugin is free when one dependency is left.
TakeEarly(current) ==
    /\ pc = "loop"
    /\ \A i \in available : Before(current, i)
    /\ sorted' = Append(sorted, current)
    /\ count' = [n \in Present |->
                    count[n] - Cardinality(Waits(n, {Name(current)}))]
    /\ available' = (available \ {current})
                    \cup {i \in Holders : count[Name(i)] > 1 /\ count'[Name(i)] <= 1}
    /\ UNCHANGED <<plugins, pc>>

\* The inner loop counts down once per entry and frees a plugin when its
\* count passes zero.
Take(current) ==
    /\ pc = "loop"
    /\ \A i \in available : Before(current, i)
    /\ sorted' = Append(sorted, current)
    /\ count' = [n \in Present |->
                    count[n] - Cardinality(Waits(n, {Name(current)}))]
    /\ available' = (available \ {current})
                    \cup {i \in Holders : count[Name(i)] > 0 /\ count'[Name(i)] <= 0}
    /\ UNCHANGED <<plugins, pc>>

\* Wrong on purpose: the lengths are not compared.
FinishAnyway ==
    /\ pc = "loop"
    /\ available = {}
    /\ pc' = "done"
    /\ UNCHANGED <<plugins, count, available, sorted>>

Finish ==
    /\ pc = "loop"
    /\ available = {}
    /\ pc' = IF Len(sorted) # Len(plugins) THEN "failed" ELSE "done"
    /\ UNCHANGED <<plugins, count, available, sorted>>

Next ==
    \/ CountDependencies
    \/ \E current \in available : Take(current)
    \/ Finish

Spec == Init /\ [][Next]_vars /\ WF_vars(Next)

-----------------------------------------------------------------------------
(* Properties                                                              *)

\* The state has the types of the Python objects.
TypeOK ==
    /\ plugins \in Registrations
    /\ pc \in {"start", "loop", "done", "failed"}
    /\ pc # "start" => count \in [Present -> Int]
    /\ available \subseteq Places
    /\ sorted \in Seq(Places)

Distinct == \A i, j \in Places : Name(i) = Name(j) => i = j

\* Wherever the sort stands, no plugin has gone before one it depends on,
\* unless two plugins share a name.
Topological ==
    Distinct =>
        \A k \in DOMAIN sorted : \A d \in Range(plugins[sorted[k]].depends_on) :
            d \in Present => \E h \in 1 .. k - 1 : Name(sorted[h]) = d

\* No plugin is taken twice.
TakenOnce == IsInjective(sorted)

\* The orders in which every plugin follows those it depends on
Orders ==
    {s \in [Places -> Places] :
        /\ IsInjective(s)
        /\ \A k \in Places : \A d \in Range(plugins[s[k]].depends_on) :
              d \in Present => \E h \in 1 .. k - 1 : Name(s[h]) = d}

\* "Sorts plugin by dependencies, then name": the result is the first of
\* those orders in the dictionary order of names, so it does not depend on
\* the order in which the plugins were registered.
LeastOrder ==
    pc = "done" /\ Distinct =>
        /\ sorted \in Orders
        /\ \A s \in Orders \ {sorted} :
              \E k \in Places : /\ Name(sorted[k]) < Name(s[k])
                                /\ \A h \in 1 .. k - 1 : s[h] = sorted[h]

\* Plugins none of which can be first
Circular(S) ==
    S # {} /\ \A i \in S : \E j \in S : Name(j) \in Range(plugins[i].depends_on)

\* The sort gives up exactly on the plugin lists that have no order.
FailsOnCycles ==
    Distinct => /\ pc = "failed" => \E S \in SUBSET Places : Circular(S)
                /\ pc = "done" => \A S \in SUBSET Places : ~Circular(S)
=============================================================================
