---------------------------- MODULE MCPluginLoad ----------------------------
(***************************************************************************)
(* Plugins in the manner of plugins/: 1 exports data, 2 depends on it and  *)
(* asks for it in its hook, 3 claims a tag that 1 claims too, 4 exports    *)
(* the key that 1 exports, 5 claims a tag of its own and depends on what   *)
(* the list says; 6 is nobody's name.                                      *)
(***************************************************************************)
EXTENDS PluginLoad

CONSTANTS t1, t2, t3, k1, k2

MCNames == 1 .. 6
MCTags == {t1, t2, t3}
MCKeys == {k1, k2}

MCAsks == [n \in MCNames |-> CASE n = 2 -> {k1} [] OTHER -> {}]
MCClaims == [n \in MCNames |->
                CASE n = 1 -> {t1} [] n = 2 -> {t2} [] n = 3 -> {t1}
                  [] n = 5 -> {t3} [] OTHER -> {}]
MCProvides == [n \in MCNames |->
                CASE n = 1 -> {k1} [] n = 4 -> {k1, k2} [] OTHER -> {}]

P(n, deps) == [name |-> n, depends_on |-> deps]

\* Every list of up to four different plugins out of five in any order, where
\* 2 may name its dependency, or forget it, and 1, 3, 4 and 5 may depend on
\* another plugin
Variants(n) ==
    CASE n = 1 -> {P(1, <<>>), P(1, <<5>>)}
      [] n = 2 -> {P(2, <<1>>), P(2, <<>>)}
      [] n = 3 -> {P(3, <<>>), P(3, <<5, 1>>)}
      [] n = 4 -> {P(4, <<>>), P(4, <<6>>)}
      [] n = 5 -> {P(5, <<>>), P(5, <<2>>), P(5, <<3, 6>>)}

Lists(S) ==
    {l \in [1 .. Cardinality(S) -> UNION {Variants(n) : n \in S}] :
        {l[i].name : i \in DOMAIN l} = S}

\* Every dependency graph on three plugins, with edges to any of four names
\* (one of which no plugin has)
InOrder(S) == CHOOSE s \in [1 .. Cardinality(S) -> S] : Range(s) = S
Depending(n) == {P(n, InOrder(S)) : S \in SUBSET (1 .. 4)}
Graphs == {<<p, q, r>> : p \in Depending(2), q \in Depending(3), r \in Depending(1)}

MCRegistrations ==
    Graphs
    \cup UNION {Lists(S) : S \in {{}, {1, 2, 3}, {1, 2, 5}, {1, 4}, {2, 4},
                                  {3, 5}, {2, 3, 4}, {1, 2, 3, 5}}}
    \cup {<<P(1, <<>>), P(1, <<>>)>>, <<P(5, <<>>), P(5, <<>>), P(3, <<6>>)>>,
          <<P(2, <<>>), P(1, <<>>), P(2, <<1>>)>>,
          <<P(3, <<1, 1, 2>>), P(2, <<1>>), P(1, <<>>)>>,
          <<P(1, <<3, 3>>), P(3, <<>>), P(4, <<2>>), P(2, <<3>>)>>,
          <<P(4, <<>>), P(1, <<2>>), P(3, <<>>), P(2, <<3>>)>>}
=============================================================================
