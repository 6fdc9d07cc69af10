----------------------------- MODULE PluginLoad -----------------------------
(***************************************************************************)
(* Reflector.load_plugins of cmy_reflector.py: the plugins are sorted      *)
(* (module PluginSort), then one after the other checked, set up and asked *)
(* for what they contribute; last, the tags they claim are given out.      *)
(*                                                                         *)
(* What a plugin of a name does is fixed by its file: the data its setup   *)
(* hook asks for, the tags it claims, the data it exports.  A tag stands   *)
(* for a pair of a context (struct field, enum member, struct, enum) and a *)
(* tag name; a claim is recorded by the claiming plugin's place in the     *)
(* list given to sort_plugins.                                             *)
(***************************************************************************)
EXTENDS PluginSort

CONSTANTS
    Keys,       \* of exported data: "<plugin>.<key>"
    Tags,
    Asks,       \* name -> the keys its setup hook gets
    Claims,     \* name -> the tags it has a handler for
    Provides    \* name -> the keys of its data_providers

ASSUME ContentsAssumption ==
    /\ Asks \in [PluginNames -> SUBSET Keys]
    /\ Claims \in [PluginNames -> SUBSET Tags]
    /\ Provides \in [PluginNames -> SUBSET Keys]

VARIABLES
    stage,      \* "sort", "setup", "contribute", "loaded" or "raised"
    why,        \* of a ValueError: "circular", "nodata", "datacollision",
                \* "listed"; "none" before
    at,         \* the position in sorted of the plugin at hand
    errors,     \* set of <<"requires", place, name>> and <<"collision", tag>>
    claims,     \* tag -> the places whose handlers claim it, in order
    active,     \* the active_*_tags: tag -> the place whose handler runs
    plugin_data,
    active_type_mappers

progress == <<stage, why, at>>
gathered == <<errors, claims, active, plugin_data, active_type_mappers>>
loadVars == <<vars, progress, gathered>>

DependsOn(i) == Range(plugins[i].depends_on)
Current == sorted[at]
Missing(i) == {<<"requires", i, d>> : d \in DependsOn(i) \ Present}

-----------------------------------------------------------------------------
LoadInit ==
    /\ Init
    /\ stage = "sort" /\ why = "none" /\ at = 1
    /\ errors = {}
    /\ claims = [t \in Tags |-> <<>>]
    /\ active = <<>>
    /\ plugin_data = {}
    /\ active_type_mappers = <<>>

Goto(s) == stage' = s /\ UNCHANGED <<why, at>>
Raise(w) == stage' = "raised" /\ why' = w /\ UNCHANGED at

Sorting ==
    /\ stage = "sort"
    /\ Next
    /\ UNCHANGED <<progress, gathered>>

SortReturns ==
    /\ stage = "sort"
    /\ pc \in {"done", "failed"}
    /\ IF pc = "done" THEN Goto("setup") ELSE Raise("circular")
    /\ UNCHANGED <<vars, gathered>>

\* The dependencies are checked, then setup_hook runs; get_plugin_data raises
\* at once for a key that is not there.
SetUp ==
    /\ stage = "setup"
    /\ at <= Len(sorted)
    /\ errors' = errors \cup Missing(Current)
    /\ IF Asks[Name(Current)] \subseteq plugin_data
       THEN Goto("contribute") ELSE Raise("nodata")
    /\ UNCHANGED <<vars, claims, active, plugin_data, active_type_mappers>>

Claim(i) ==
    claims' = [t \in Tags |-> IF t \in Claims[Name(i)]
                              THEN Append(claims[t], i) ELSE claims[t]]

\* Wrong on purpose: mappers are noted under the plugin's name.
StoreByName(new) ==
    /\ plugin_data' = plugin_data \cup new
    /\ active_type_mappers' = Append(active_type_mappers, Name(Current))

\* Wrong on purpose: the data is computed and not stored.
StoreNothing(new) ==
    /\ UNCHANGED plugin_data
    /\ active_type_mappers' = Append(active_type_mappers, Current)

Store(new) ==
    /\ plugin_data' = plugin_data \cup new
    /\ active_type_mappers' = Append(active_type_mappers, Current)

\* A key that is there already raises, after some of the others are stored.
Contribute ==
    /\ stage = "contribute"
    /\ Claim(Current)
    /\ LET new == Provides[Name(Current)]
       IN  \/ /\ new \cap plugin_data = {}
              /\ Store(new)
              /\ at' = at + 1
              /\ stage' = "setup"
              /\ UNCHANGED why
           \/ /\ new \cap plugin_data # {}
              /\ \E stored \in SUBSET (new \ plugin_data) :
                    plugin_data' = plugin_data \cup stored
              /\ Raise("datacollision")
              /\ UNCHANGED active_type_mappers
    /\ UNCHANGED <<vars, errors, active>>

\* Wrong on purpose: two claims do not collide.
ContestedByThree == {t \in Tags : Len(claims[t]) > 2}

Contested == {t \in Tags : Len(claims[t]) > 1}

Collisions == {<<"collision", t>> : t \in Contested}

\* Wrong on purpose: the errors found so far are dropped.
AllErrorsAfresh == Collisions

AllErrors == errors \cup Collisions

\* resolve_claims for the four contexts; the listed errors are raised last.
ResolveClaims ==
    /\ stage = "setup"
    /\ at > Len(sorted)
    /\ errors' = AllErrors
    /\ active' = [t \in {u \in Tags : Len(claims[u]) = 1} |-> claims[t][1]]
    /\ IF errors' = {} THEN Goto("loaded") ELSE Raise("listed")
    /\ UNCHANGED <<vars, claims, plugin_data, active_type_mappers>>

LoadNext ==
    \/ Sorting
    \/ SortReturns
    \/ SetUp
    \/ Contribute
    \/ ResolveClaims

LoadSpec == LoadInit /\ [][LoadNext]_loadVars /\ WF_loadVars(LoadNext)

-----------------------------------------------------------------------------
(* Properties                                                              *)

\* The state has the types of the Python objects.
LoadTypeOK ==
    /\ TypeOK
    /\ stage \in {"sort", "setup", "contribute", "loaded", "raised"}
    /\ why \in {"none", "circular", "nodata", "datacollision", "listed"}
    /\ at \in 1 .. Len(sorted) + 1
    /\ claims \in [Tags -> Seq(Places)]
    /\ DOMAIN active \subseteq Tags /\ Range(active) \subseteq Places
    /\ plugin_data \subseteq Keys
    /\ active_type_mappers \in Seq(Places)

\* When a plugin is set up, every plugin it depends on that is there has
\* contributed its data, tags and type mappers: a hook may use them.
DependenciesContributed ==
    stage = "setup" /\ at <= Len(sorted) /\ Distinct =>
        \A i \in Places : Name(i) \in DependsOn(Current) =>
            /\ Provides[Name(i)] \subseteq plugin_data
            /\ i \in Range(active_type_mappers)
            /\ \A t \in Claims[Name(i)] : i \in Range(claims[t])

Claimants(t) == {i \in Places : t \in Claims[Name(i)]}
MissingAnywhere == UNION {Missing(i) : i \in Places}

\* A run that ends well has given every claimed tag to its only claimant,
\* left no dependency out, and kept every plugin's data and mappers.
LoadedIsComplete ==
    stage = "loaded" =>
        /\ \A t \in Tags : Claimants(t) = IF t \in DOMAIN active
                                          THEN {active[t]} ELSE {}
        /\ MissingAnywhere = {}
        /\ plugin_data = UNION {Provides[Name(i)] : i \in Places}
        /\ active_type_mappers = sorted

\* The list of errors, when it comes to raising it, is complete and true: a
\* missing dependency does not hide a tag collision, nor the reverse.
ErrorsAreComplete ==
    why = "listed" =>
        errors = MissingAnywhere
                 \cup {<<"collision", t>> :
                         t \in {u \in Tags : Cardinality(Claimants(u)) > 1}}

\* Plugins that a careful author may combine: distinct names, each hook asks
\* only for data of plugins it names, and no two claim or export the same.
Exported(i) == UNION {Provides[Name(j)] : j \in {h \in Places : Name(h) \in DependsOn(i)}}
Compatible ==
    /\ Distinct
    /\ \A S \in SUBSET Places : ~Circular(S)
    /\ MissingAnywhere = {}
    /\ \A i \in Places : Asks[Name(i)] \subseteq Exported(i)
    /\ \A i, j \in Places : i # j =>
          /\ Claims[Name(i)] \cap Claims[Name(j)] = {}
          /\ Provides[Name(i)] \cap Provides[Name(j)] = {}

\* load_plugins ends, in success or in a ValueError, and plugins that may be
\* combined always load, in whatever order they were registered.
CompatiblePluginsLoad ==
    /\ <>(stage \in {"loaded", "raised"})
    /\ Compatible => <>(stage = "loaded")
=============================================================================
