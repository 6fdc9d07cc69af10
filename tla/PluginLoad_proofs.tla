-------------------------- MODULE PluginLoad_proofs --------------------------
(***************************************************************************)
(* Proofs about PluginSort and PluginLoad, for every list of plugins and   *)
(* whatever they contribute.                                               *)
(*                                                                         *)
(* The sort: the order respects the dependencies and is the least that     *)
(* does, no plugin is taken twice, and the sort gives up exactly on        *)
(* circular dependencies.                                                  *)
(*                                                                         *)
(* Loading: hooks find what they depend on, a run that ends well leaves    *)
(* nothing out, and the list of errors is complete. The invariant says of  *)
(* every store that it holds what the plugins behind the one at hand       *)
(* contributed, and no more.                                               *)
(***************************************************************************)
EXTENDS PluginLoad, FiniteSetTheorems, SequenceTheorems, WellFoundedInduction, TLAPS

-----------------------------------------------------------------------------
(* Numbers and sequences                                                   *)

\* The least number principle, from the well-foundedness of the strict
\* subset ordering on the intervals 0 .. n.
LEMMA LeastNat ==
    ASSUME NEW S \in SUBSET Nat, S # {}
    PROVE  \E m \in S : \A n \in S : m <= n
  <1> DEFINE T == {0 .. n : n \in S}
             R == StrictSubsetOrdering(Nat)
  <1>1. IsWellFoundedOn(R, FiniteSubsetsOf(Nat))
    BY FS_StrictSubsetOrderingWellFounded
  <1>2. T \subseteq FiniteSubsetsOf(Nat) /\ T # {}
    <2>1. \A n \in Nat : IsFiniteSet(0 .. n) /\ 0 .. n \subseteq Nat
      BY FS_Interval
    <2> QED
      BY <2>1 DEF FiniteSubsetsOf
  <1>3. \E x \in T : \A y \in T : ~ (<<y, x>> \in R)
    <2> HIDE DEF T, R
    <2> QED
      BY <1>1, <1>2, WFMin
  <1>4. PICK m \in S : \A n \in S : ~ (<<0 .. n, 0 .. m>> \in R)
    BY <1>3
  <1>5. ASSUME NEW n \in S, n < m PROVE FALSE
    <2>1. 0 .. n \subseteq 0 .. m /\ m \in 0 .. m /\ m \notin 0 .. n
      BY <1>5
    <2>2. <<0 .. n, 0 .. m>> \in R
      BY <2>1 DEF StrictSubsetOrdering
    <2> QED
      BY <1>4, <2>2
  <1> QED
    BY <1>5

LEMMA AppendFacts ==
    ASSUME NEW S, NEW s \in Seq(S), NEW x \in S
    PROVE  LET t == Append(s, x)
           IN  /\ t \in Seq(S)
               /\ Len(s) \in Nat /\ DOMAIN s = 1 .. Len(s)
               /\ DOMAIN t = 1 .. Len(s) + 1
               /\ t[Len(s) + 1] = x
               /\ \A k \in 1 .. Len(s) : t[k] = s[k]
               /\ Range(t) = Range(s) \cup {x}
               /\ Range(s) \subseteq S
  <1> DEFINE t == Append(s, x)
  <1>1. /\ t \in Seq(S) /\ Len(s) \in Nat /\ DOMAIN s = 1 .. Len(s)
        /\ DOMAIN t = 1 .. Len(s) + 1 /\ t[Len(s) + 1] = x
        /\ \A k \in 1 .. Len(s) : t[k] = s[k] /\ s[k] \in S
    OBVIOUS
  <1> HIDE DEF t
  <1>2. Range(t) = Range(s) \cup {x}
    BY <1>1 DEF Range
  <1> QED
    BY <1>1, <1>2 DEF Range, t

\* An injective sequence as long as the set it draws from misses nothing.
LEMMA FullSequence ==
    ASSUME NEW n \in Nat, NEW s \in Seq(1 .. n), IsInjective(s)
    PROVE  Len(s) = n <=> Range(s) = 1 .. n
  <1>1. /\ Len(s) \in Nat /\ DOMAIN s = 1 .. Len(s)
        /\ s \in [1 .. Len(s) -> 1 .. n]
    OBVIOUS
  <1>2. s \in Injection(1 .. Len(s), 1 .. n)
    BY <1>1 DEF Injection
  <1>3. \A m \in Nat : IsFiniteSet(1 .. m) /\ Cardinality(1 .. m) = m
    BY FS_Interval
  <1>4. Len(s) = n <=> s \in Surjection(1 .. Len(s), 1 .. n)
    BY <1>1, <1>2, <1>3, FS_Injection
  <1>5. s \in Surjection(1 .. Len(s), 1 .. n) <=> Range(s) = 1 .. n
    BY <1>1 DEF Surjection, Range
  <1> QED
    BY <1>4, <1>5

LEMMA ShortSequence ==
    ASSUME NEW n \in Nat, NEW s \in Seq(1 .. n), IsInjective(s)
    PROVE  Len(s) <= n
  <1>1. /\ Len(s) \in Nat /\ DOMAIN s = 1 .. Len(s)
        /\ s \in [1 .. Len(s) -> 1 .. n]
    OBVIOUS
  <1>2. s \in Injection(1 .. Len(s), 1 .. n)
    BY <1>1 DEF Injection
  <1>3. \A m \in Nat : IsFiniteSet(1 .. m) /\ Cardinality(1 .. m) = m
    BY FS_Interval
  <1> QED
    BY <1>1, <1>2, <1>3, FS_Injection

-----------------------------------------------------------------------------
(* The plugin list                                                         *)

LEMMA PluginTypes ==
    ASSUME plugins \in Registrations
    PROVE  /\ Len(plugins) \in Nat /\ Places = 1 .. Len(plugins)
           /\ \A i \in Places : /\ Name(i) \in Nat /\ Name(i) \in Present
                                /\ plugins[i].depends_on \in Seq(PluginNames)
  <1>1. plugins \in Seq(Plugin)
    BY RegistrationsAssumption DEF RegistrationsAssumption
  <1>2. Len(plugins) \in Nat /\ Places = 1 .. Len(plugins)
    BY <1>1 DEF Places
  <1>3. ASSUME NEW i \in Places
        PROVE  Name(i) \in PluginNames /\ plugins[i].depends_on \in Seq(PluginNames)
    <2>1. plugins[i] \in Plugin
      BY <1>1 DEF Places
    <2> QED
      BY <2>1 DEF Plugin, Name
  <1>4. \A i \in Places : Name(i) \in Nat /\ Name(i) \in Present
    BY <1>3, NamesAssumption DEF NamesAssumption, Present
  <1> QED
    BY <1>2, <1>3, <1>4

LEMMA WaitsFinite ==
    ASSUME plugins \in Registrations, NEW n, NEW D
    PROVE  IsFiniteSet(Waits(n, D)) /\ Cardinality(Waits(n, D)) \in Nat
  <1> DEFINE row == [i \in Places |-> {i} \X DOMAIN plugins[i].depends_on]
             T == {row[i] : i \in Places}
  <1>1. IsFiniteSet(Places)
    BY PluginTypes, FS_Interval
  <1>2. IsFiniteSet(T)
    <2>1. row \in Surjection(Places, T)
      BY DEF Surjection
    <2> HIDE DEF row, T
    <2> QED
      BY <1>1, <2>1, FS_Surjection
  <1>3. ASSUME NEW i \in Places PROVE IsFiniteSet(row[i])
    <2>1. /\ Len(plugins[i].depends_on) \in Nat
          /\ DOMAIN plugins[i].depends_on = 1 .. Len(plugins[i].depends_on)
      BY PluginTypes
    <2>2. \A m \in Nat : IsFiniteSet(1 .. m)
      BY FS_Interval
    <2>3. IsFiniteSet(DOMAIN plugins[i].depends_on) /\ IsFiniteSet({i})
      BY <2>1, <2>2, FS_Singleton
    <2> QED
      BY <2>3, FS_Product
  <1>4. IsFiniteSet(UNION T)
    <2>1. \A R \in T : IsFiniteSet(R)
      BY <1>3
    <2> HIDE DEF T
    <2> QED
      BY <1>2, <2>1, FS_UNION
  <1>5. UNION T = Entries
    BY DEF Entries
  <1>6. Waits(n, D) \subseteq Entries
    BY DEF Waits
  <1>7. IsFiniteSet(Waits(n, D))
    BY <1>4, <1>5, <1>6, FS_Subset
  <1> QED
    BY <1>7, FS_CardinalityType

\* A plugin that waits for nothing in D depends on nothing in D.
LEMMA NoWaits ==
    ASSUME NEW i \in Places, NEW D, Waits(Name(i), D) = {}
    PROVE  \A d \in Range(plugins[i].depends_on) : d \notin D
  <1> SUFFICES ASSUME NEW j \in DOMAIN plugins[i].depends_on,
                      plugins[i].depends_on[j] \in D
               PROVE  FALSE
    BY DEF Range
  <1>1. <<i, j>> \in Entries
    BY DEF Entries
  <1>2. <<i, j>> \in Waits(Name(i), D)
    BY <1>1 DEF Waits, Dependency
  <1> QED
    BY <1>2

-----------------------------------------------------------------------------
(* The inductive invariant                                                 *)

Taken == {Name(i) : i \in Range(sorted)}

\* A count is what a plugin still waits for.
Counting ==
    pc # "start" /\ Distinct =>
        \A n \in Present : count[n] = Cardinality(Waits(n, Present \ Taken))

\* What is free or taken waits for nothing; everything else waits.
Free ==
    /\ pc # "start" => \A i \in available \cup Range(sorted) : count[Name(i)] <= 0
    /\ pc # "start" /\ Distinct =>
          \A i \in Places \ (available \cup Range(sorted)) : count[Name(i)] > 0

\* Free is not taken.
Apart == available \cap Range(sorted) = {}

Phases ==
    /\ pc = "start" => sorted = <<>> /\ available = {}
    /\ pc = "done" => available = {} /\ Len(sorted) = Len(plugins)
    /\ pc = "failed" => available = {} /\ Len(sorted) # Len(plugins)

IInv ==
    /\ TypeOK
    /\ Counting /\ Free /\ Apart /\ Phases
    /\ TakenOnce
    /\ Topological

LEMMA InitIInv == Init => IInv
  <1> SUFFICES ASSUME Init PROVE IInv
    OBVIOUS
  <1>1. sorted \in Seq(Places) /\ DOMAIN sorted = {} /\ Range(sorted) = {}
    BY DEF Init, Range
  <1> QED
    BY <1>1 DEF Init, IInv, TypeOK, Counting, Free, Apart, Phases, TakenOnce,
                IsInjective, Topological

\* plugins does not change, and with it nothing that is read off it.
LEMMA SamePlugins ==
    ASSUME plugins' = plugins
    PROVE  /\ Places' = Places /\ Present' = Present /\ Distinct' = Distinct
           /\ \A i : Name(i)' = Name(i)
           /\ \A n, D : Waits(n, D)' = Waits(n, D)
  BY DEF Places, Present, Distinct, Name, Waits, Entries, Dependency

\* Properties whose other variables do not change either
LEMMA SameOrder ==
    ASSUME plugins' = plugins, sorted' = sorted
    PROVE  Topological' = Topological /\ Taken' = Taken
  BY DEF Topological, Taken, Distinct, Present, Name, Places

LEMMA CountIInv ==
    ASSUME IInv, CountDependencies
    PROVE  IInv'
  <1> USE DEF IInv, TypeOK
  <1>1. /\ pc = "start" /\ pc' = "loop" /\ plugins' = plugins
        /\ sorted' = <<>> /\ sorted = <<>>
        /\ count' = [n \in Present |-> Cardinality(Waits(n, Present))]
        /\ available' = {i \in Places : count'[Name(i)] = 0}
    BY DEF CountDependencies, Phases
  <1>2. \A n \in Present : count'[n] = Cardinality(Waits(n, Present)) /\ count'[n] \in Nat
    BY <1>1, WaitsFinite
  <1>3. DOMAIN sorted = {} /\ Range(sorted) = {} /\ Taken = {} /\ Taken' = {}
    BY <1>1 DEF Range, Taken
  <1>4. TypeOK'
    BY <1>1, <1>2, SamePlugins
  <1>5. Counting'
    <2>1. Present \ Taken' = Present
      BY <1>3
    <2> QED
      BY <1>1, <1>2, <2>1, SamePlugins DEF Counting
  <1>6. Free'
    <2>1. available' \cup Range(sorted') = available'
      BY <1>1, <1>3
    <2>2. \A i \in Places : count'[Name(i)] \in Nat
      BY <1>2, PluginTypes
    <2>3. plugins' = plugins
      BY <1>1
    <2>4. \A i \in available' \cup Range(sorted') : count'[Name(i)] <= 0
      BY <1>1, <2>1, <2>2
    <2>5. \A i \in Places \ (available' \cup Range(sorted')) : count'[Name(i)] > 0
      BY <1>1, <2>1, <2>2
    <2> QED
      BY <2>3, <2>4, <2>5 DEF Free, Distinct, Places, Name
  <1>7. Apart' /\ Phases' /\ TakenOnce'
    BY <1>1, <1>3 DEF Apart, Phases, TakenOnce, IsInjective
  <1>8. Topological'
    BY <1>1, <1>3 DEF Topological
  <1> QED
    BY <1>4, <1>5, <1>6, <1>7, <1>8 DEF IInv

LEMMA TakeIInv ==
    ASSUME IInv, NEW c \in available, Take(c)
    PROVE  IInv'
  <1> DEFINE D == Present \ Taken
             freed == {i \in Holders : count[Name(i)] > 0 /\ count'[Name(i)] <= 0}
  <1>1. /\ plugins \in Registrations /\ plugins' = plugins /\ pc = "loop" /\ pc' = "loop"
        /\ count \in [Present -> Int] /\ available \subseteq Places
        /\ sorted \in Seq(Places) /\ c \in Places /\ Name(c) \in Present
        /\ sorted' = Append(sorted, c)
        /\ count' = [n \in Present |-> count[n] - Cardinality(Waits(n, {Name(c)}))]
        /\ available' = (available \ {c}) \cup freed
    BY PluginTypes DEF IInv, TypeOK, Take
  <1> HIDE DEF freed
  <1>2. /\ sorted' \in Seq(Places) /\ Range(sorted') = Range(sorted) \cup {c}
        /\ Len(sorted) \in Nat /\ DOMAIN sorted = 1 .. Len(sorted)
        /\ DOMAIN sorted' = 1 .. Len(sorted) + 1 /\ sorted'[Len(sorted) + 1] = c
        /\ \A k \in 1 .. Len(sorted) : sorted'[k] = sorted[k]
        /\ Range(sorted) \subseteq Places
    BY <1>1, AppendFacts
  <1>3. \A n \in Present : /\ count[n] \in Int /\ count'[n] \in Int
                           /\ count'[n] <= count[n]
    BY <1>1, WaitsFinite
  <1>4. c \notin Range(sorted)
    BY DEF IInv, Apart
  <1>5. \A i \in freed : /\ i \in Places /\ count[Name(i)] > 0 /\ count'[Name(i)] <= 0
                         /\ i \notin available \cup Range(sorted)
    <2>1. \A i \in available \cup Range(sorted) : count[Name(i)] <= 0
      BY <1>1 DEF IInv, Free
    <2>2. \A i \in freed : /\ i \in Places
                          /\ count[Name(i)] > 0 /\ count'[Name(i)] <= 0
      BY DEF freed, Holders
    <2>3. \A i \in Places : count[Name(i)] \in Int
      BY <1>1, <1>3, PluginTypes
    <2> QED
      BY <2>1, <2>2, <2>3
  <1>6. TypeOK'
    BY <1>1, <1>2, <1>3, <1>5, SamePlugins DEF IInv, TypeOK
  <1>7. Taken' = Taken \cup {Name(c)}
    BY <1>1, <1>2, SamePlugins DEF Taken
  <1>8. ASSUME Distinct PROVE Name(c) \in D
    BY <1>1, <1>2, <1>4, <1>8 DEF Taken, Distinct
  <1>9. Counting'
    <2> SUFFICES ASSUME Distinct, NEW n \in Present
                 PROVE  count'[n] = Cardinality(Waits(n, Present \ Taken'))
      BY <1>1, SamePlugins DEF Counting
    <2>1. count[n] = Cardinality(Waits(n, D))
      BY <1>1 DEF IInv, Counting
    <2>2. /\ Waits(n, Present \ Taken') = Waits(n, D) \ Waits(n, {Name(c)})
          /\ Waits(n, D) \cap Waits(n, {Name(c)}) = Waits(n, {Name(c)})
      BY <1>7, <1>8 DEF Waits
    <2>3. IsFiniteSet(Waits(n, D))
      BY <1>1, WaitsFinite
    <2>4. Cardinality(Waits(n, Present \ Taken'))
            = Cardinality(Waits(n, D)) - Cardinality(Waits(n, {Name(c)}))
      <3>1. Cardinality(Waits(n, D) \ Waits(n, {Name(c)}))
              = Cardinality(Waits(n, D)) - Cardinality(Waits(n, D) \cap Waits(n, {Name(c)}))
        BY <2>3, FS_Difference
      <3> QED
        BY <2>2, <3>1
    <2>5. count'[n] = count[n] - Cardinality(Waits(n, {Name(c)}))
      BY <1>1
    <2> QED
      BY <2>1, <2>4, <2>5, Zenon
  <1>10. Free'
    <2>1. ASSUME NEW i \in available' \cup Range(sorted') PROVE count'[Name(i)] <= 0
      <3>1. CASE i \in freed
        BY <3>1, <1>5
      <3>2. CASE i \in available \cup Range(sorted)
        <4>1. Name(i) \in Present /\ count[Name(i)] <= 0
          BY <1>1, <1>2, <3>2, PluginTypes DEF IInv, Free
        <4> QED
          BY <4>1, <1>3
      <3> QED
        BY <1>1, <1>2, <3>1, <3>2
    <2>2. ASSUME Distinct, NEW i \in Places \ (available' \cup Range(sorted'))
          PROVE  count'[Name(i)] > 0
      <3>1. i \notin available \cup Range(sorted) /\ i \notin freed
        BY <1>1, <1>2, <2>2
      <3>2. count[Name(i)] > 0 /\ Name(i) \in Present
        BY <1>1, <2>2, <3>1, PluginTypes DEF IInv, Free
      <3>3. i \in Holders
        BY <1>1, <2>2, PluginTypes DEF Holders, Distinct
      <3> QED
        BY <1>3, <3>1, <3>2, <3>3 DEF freed
    <2>3. plugins' = plugins
      BY <1>1
    <2> QED
      BY <2>1, <2>2, <2>3 DEF Free, Distinct, Places, Name
  <1>11. Apart'
    BY <1>1, <1>2, <1>5 DEF IInv, Apart
  <1>12. Phases'
    BY <1>1 DEF Phases
  <1>13. TakenOnce'
    <2>1. ASSUME NEW a \in DOMAIN sorted', NEW b \in DOMAIN sorted',
                 sorted'[a] = sorted'[b]
          PROVE  a = b
      <3>1. \A k \in DOMAIN sorted : sorted[k] # c
        BY <1>4 DEF Range
      <3>2. \A k, l \in DOMAIN sorted : sorted[k] = sorted[l] => k = l
        BY DEF IInv, TakenOnce, IsInjective
      <3> QED
        BY <1>2, <2>1, <3>1, <3>2
    <2> QED
      BY <2>1 DEF TakenOnce, IsInjective
  <1>14. Topological'
    <2>0. plugins' = plugins
      BY <1>1
    <2> SUFFICES ASSUME Distinct, NEW k \in DOMAIN sorted',
                        NEW d \in Range(plugins[sorted'[k]].depends_on), d \in Present
                 PROVE  \E h \in 1 .. k - 1 : Name(sorted'[h]) = d
      BY <2>0 DEF Topological, Distinct, Places, Present, Name
    <2>1. CASE k \in DOMAIN sorted
      <3>1. PICK h \in 1 .. k - 1 : Name(sorted[h]) = d
        BY <1>2, <2>1 DEF IInv, Topological
      <3> QED
        BY <1>2, <2>1, <3>1
    <2>2. CASE k = Len(sorted) + 1
      <3>1. count[Name(c)] = Cardinality(Waits(Name(c), D)) /\ count[Name(c)] <= 0
        BY <1>1 DEF IInv, Counting, Free
      <3>2. /\ IsFiniteSet(Waits(Name(c), D))
            /\ Cardinality(Waits(Name(c), D)) \in Nat
        BY <1>1, WaitsFinite
      <3>3. Waits(Name(c), D) = {}
        BY <3>1, <3>2, FS_EmptySet
      <3>4. d \notin D
        BY <1>1, <1>2, <2>2, <3>3, NoWaits
      <3>5. PICK h \in DOMAIN sorted : Name(sorted[h]) = d
        BY <3>4 DEF Taken, Range
      <3> QED
        BY <1>2, <2>2, <3>5
    <2> QED
      BY <1>2, <2>1, <2>2
  <1> QED
    BY <1>6, <1>9, <1>10, <1>11, <1>12, <1>13, <1>14 DEF IInv

LEMMA FinishIInv ==
    ASSUME IInv, Finish
    PROVE  IInv'
  <1>1. /\ pc = "loop" /\ available = {} /\ pc' \in {"done", "failed"}
        /\ pc' = "done" <=> Len(sorted) = Len(plugins)
        /\ plugins' = plugins /\ count' = count /\ available' = available
        /\ sorted' = sorted
    BY DEF Finish
  <1>2. Taken' = Taken
    BY <1>1, SamePlugins DEF Taken
  <1>3. TypeOK' /\ Phases' /\ Apart' /\ TakenOnce'
    BY <1>1, SamePlugins DEF IInv, TypeOK, Phases, Apart, TakenOnce
  <1>4. Counting'
    BY <1>1, <1>2, SamePlugins DEF IInv, Counting
  <1>5. Free'
    BY <1>1 DEF IInv, Free, Distinct, Places, Name
  <1>6. Topological'
    BY <1>1, SameOrder DEF IInv
  <1> QED
    BY <1>3, <1>4, <1>5, <1>6 DEF IInv

LEMMA NextIInv == IInv /\ [Next]_vars => IInv'
  <1> SUFFICES ASSUME IInv, [Next]_vars PROVE IInv'
    OBVIOUS
  <1>1. CASE UNCHANGED vars
    <2>1. /\ plugins' = plugins /\ pc' = pc /\ count' = count
          /\ available' = available /\ sorted' = sorted
      BY <1>1 DEF vars
    <2>2. Taken' = Taken /\ Topological'
      BY <2>1, SameOrder DEF IInv
    <2>3. TypeOK' /\ Phases' /\ Apart' /\ TakenOnce'
      BY <2>1, SamePlugins DEF IInv, TypeOK, Phases, Apart, TakenOnce
    <2>5. Counting'
      BY <2>1, <2>2, SamePlugins DEF IInv, Counting
    <2>4. Free'
      BY <2>1 DEF IInv, Free, Distinct, Places, Name
    <2> QED
      BY <2>2, <2>3, <2>4, <2>5 DEF IInv
  <1> QED
    BY <1>1, CountIInv, TakeIInv, FinishIInv DEF Next

THEOREM Invariance == Spec => []IInv
  BY InitIInv, NextIInv, PTL DEF Spec

-----------------------------------------------------------------------------
(* Circular dependencies                                                   *)

\* Those left when the sort gives up hold each other up.
LEMMA FailedIsCircular ==
    ASSUME IInv, Distinct, pc = "failed"
    PROVE  \E S \in SUBSET Places : Circular(S)
  <1> DEFINE S == Places \ Range(sorted)
             D == Present \ Taken
  <1>1. /\ plugins \in Registrations /\ sorted \in Seq(Places)
        /\ available = {} /\ Len(sorted) # Len(plugins)
    BY DEF IInv, TypeOK, Phases
  <1>2. /\ Places = 1 .. Len(plugins) /\ Len(plugins) \in Nat
        /\ Range(sorted) \subseteq Places
    BY <1>1, PluginTypes, AppendFacts DEF Range
  <1>3. S # {}
    BY <1>1, <1>2, FullSequence DEF IInv, TakenOnce
  <1>4. ASSUME NEW i \in S
        PROVE  \E j \in S : Name(j) \in Range(plugins[i].depends_on)
    <2>1. count[Name(i)] > 0 /\ count[Name(i)] = Cardinality(Waits(Name(i), D))
      BY <1>1, PluginTypes DEF IInv, Free, Counting
    <2>2. Waits(Name(i), D) # {}
      BY <2>1, FS_EmptySet
    <2>3. PICK e \in Entries : Name(e[1]) = Name(i) /\ Dependency(e) \in D
      BY <2>2 DEF Waits
    <2>4. e[1] \in Places /\ e[2] \in DOMAIN plugins[e[1]].depends_on
      BY DEF Entries
    <2>5. e[1] = i
      BY <2>3, <2>4 DEF Distinct
    <2>6. Dependency(e) \in Range(plugins[i].depends_on)
      BY <2>4, <2>5 DEF Dependency, Range
    <2>7. PICK j \in Places : Name(j) = Dependency(e)
      BY <2>3 DEF Present
    <2>8. j \notin Range(sorted)
      BY <2>3, <2>7 DEF Taken
    <2> QED
      BY <2>6, <2>7, <2>8
  <1> QED
    BY <1>3, <1>4 DEF Circular

\* When all are taken, the first taken of a circular set would have had to
\* wait for another of them.
LEMMA DoneIsNotCircular ==
    ASSUME IInv, Distinct, pc = "done", NEW S \in SUBSET Places, Circular(S)
    PROVE  FALSE
  <1> DEFINE K == {k \in DOMAIN sorted : sorted[k] \in S}
  <1>1. /\ plugins \in Registrations /\ sorted \in Seq(Places)
        /\ Len(sorted) = Len(plugins)
    BY DEF IInv, TypeOK, Phases
  <1>2. Range(sorted) = Places /\ DOMAIN sorted = 1 .. Len(sorted) /\ Len(sorted) \in Nat
    BY <1>1, PluginTypes, FullSequence DEF IInv, TakenOnce
  <1>3. K # {} /\ K \in SUBSET Nat
    BY <1>2 DEF Circular, Range
  <1>4. PICK k \in K : \A h \in K : k <= h
    <2> HIDE DEF K
    <2> QED
      BY <1>3, LeastNat
  <1>5. PICK j \in S : Name(j) \in Range(plugins[sorted[k]].depends_on)
    BY <1>4 DEF Circular
  <1>6. PICK h \in 1 .. k - 1 : Name(sorted[h]) = Name(j)
    BY <1>1, <1>5, PluginTypes DEF IInv, Topological
  <1>7. h \in DOMAIN sorted /\ h < k
    BY <1>2
  <1>8. sorted[h] = j
    BY <1>2, <1>6, <1>7 DEF Distinct, Range
  <1>9. h \in K /\ h \in Nat /\ k \in Nat
    BY <1>3, <1>7, <1>8
  <1> QED
    BY <1>4, <1>7, <1>9

\* The types of the state.
THEOREM TypeCorrect == Spec => []TypeOK
  <1>1. IInv => TypeOK
    BY DEF IInv
  <1> QED
    BY <1>1, Invariance, PTL

\* Plugins with different names are set up after all they depend on.
THEOREM DependenciesFirst == Spec => []Topological
  <1>1. IInv => Topological
    BY DEF IInv
  <1> QED
    BY <1>1, Invariance, PTL

\* No plugin is set up twice.
THEOREM NoneTwice == Spec => []TakenOnce
  <1>1. IInv => TakenOnce
    BY DEF IInv
  <1> QED
    BY <1>1, Invariance, PTL

\* With different names, the ValueError is raised for circular dependencies
\* and for nothing else, and no circular list gets through.
THEOREM FailsExactlyOnCycles == Spec => []FailsOnCycles
  <1>1. IInv => FailsOnCycles
    BY FailedIsCircular, DoneIsNotCircular DEF FailsOnCycles
  <1> QED
    BY <1>1, Invariance, PTL

-----------------------------------------------------------------------------
(* The least of the orders                                                 *)

\* Wherever the sort stands, what it has taken is the beginning of every
\* order, up to the first place where the order has a later name.
Leading ==
    Distinct =>
        \A s \in Orders :
            \/ \A h \in DOMAIN sorted : s[h] = sorted[h]
            \/ \E k \in DOMAIN sorted : /\ Name(sorted[k]) < Name(s[k])
                                        /\ \A h \in 1 .. k - 1 : s[h] = sorted[h]

LEMMA SameOrders ==
    ASSUME plugins' = plugins
    PROVE  Orders' = Orders
  BY DEF Orders, Places, Present, Name

\* A plugin that comes next in an order beginning with what is taken is free.
LEMMA NextIsFree ==
    ASSUME IInv, pc = "loop", Distinct, NEW s \in Orders,
           \A h \in DOMAIN sorted : s[h] = sorted[h],
           Len(sorted) + 1 \in Places
    PROVE  s[Len(sorted) + 1] \in available
  <1> DEFINE n == Len(sorted)
             j == s[n + 1]
             D == Present \ Taken
  <1>1. /\ plugins \in Registrations /\ sorted \in Seq(Places)
        /\ n \in Nat /\ DOMAIN sorted = 1 .. n
    BY DEF IInv, TypeOK
  <1>2. Places = 1 .. Len(plugins) /\ Len(plugins) \in Nat
    BY <1>1, PluginTypes
  <1>3. /\ s \in [Places -> Places] /\ IsInjective(s)
        /\ \A k \in Places : \A d \in Range(plugins[s[k]].depends_on) :
              d \in Present => \E h \in 1 .. k - 1 : Name(s[h]) = d
    BY DEF Orders
  <1>4. j \in Places
    BY <1>3
  <1>5. j \notin Range(sorted)
    <2> SUFFICES ASSUME NEW h \in DOMAIN sorted, sorted[h] = j PROVE FALSE
      BY DEF Range
    <2>1. s[h] = s[n + 1] /\ h # n + 1 /\ h \in Places /\ n + 1 \in Places
      BY <1>1, <1>2
    <2> QED
      BY <1>3, <2>1 DEF IsInjective
  <1>6. \A d \in Range(plugins[j].depends_on) : d \in Present => d \in Taken
    <2> SUFFICES ASSUME NEW d \in Range(plugins[j].depends_on), d \in Present
                 PROVE  d \in Taken
      OBVIOUS
    <2>1. PICK h \in 1 .. (n + 1) - 1 : Name(s[h]) = d
      BY <1>3
    <2>2. h \in DOMAIN sorted /\ Name(sorted[h]) = d
      BY <1>1, <2>1
    <2> QED
      BY <2>2 DEF Taken, Range
  <1>7. Waits(Name(j), D) = {}
    <2> SUFFICES ASSUME NEW e \in Entries, Name(e[1]) = Name(j), Dependency(e) \in D
                 PROVE  FALSE
      BY DEF Waits
    <2>1. e[1] \in Places /\ e[2] \in DOMAIN plugins[e[1]].depends_on
      BY DEF Entries
    <2>2. e[1] = j
      BY <1>4, <2>1 DEF Distinct
    <2>3. Dependency(e) \in Range(plugins[j].depends_on)
      BY <2>1, <2>2 DEF Dependency, Range
    <2> QED
      BY <1>6, <2>3
  <1>8. Name(j) \in Present
    BY <1>1, <1>4, PluginTypes
  <1>9. count[Name(j)] = 0
    <2>1. count[Name(j)] = Cardinality(Waits(Name(j), D))
      BY <1>8 DEF IInv, Counting
    <2> QED
      BY <1>7, <2>1, FS_EmptySet
  <1>10. ~ (count[Name(j)] > 0)
    BY <1>9
  <1> QED
    BY <1>4, <1>5, <1>10 DEF IInv, Free

LEMMA TakeLeading ==
    ASSUME IInv, Leading, NEW c \in available, Take(c)
    PROVE  Leading'
  <1>1. IInv'
    BY TakeIInv
  <1>2. /\ plugins' = plugins /\ pc = "loop" /\ sorted' = Append(sorted, c)
        /\ \A i \in available : Before(c, i)
        /\ sorted \in Seq(Places) /\ c \in Places /\ plugins \in Registrations
    BY DEF IInv, TypeOK, Take
  <1> DEFINE n == Len(sorted)
  <1>3. /\ n \in Nat /\ DOMAIN sorted = 1 .. n /\ sorted' \in Seq(Places)
        /\ DOMAIN sorted' = 1 .. n + 1 /\ sorted'[n + 1] = c
        /\ \A k \in 1 .. n : sorted'[k] = sorted[k]
    BY <1>2, AppendFacts
  <1>4. Places = 1 .. Len(plugins) /\ Len(plugins) \in Nat
    BY <1>2, PluginTypes
  <1>5. n + 1 \in Places
    <2>1. sorted' \in Seq(1 .. Len(plugins)) /\ IsInjective(sorted')
      BY <1>1, <1>3, <1>4 DEF IInv, TakenOnce
    <2>2. Len(sorted') = n + 1
      BY <1>2
    <2>3. Len(sorted') <= Len(plugins)
      BY <1>4, <2>1, ShortSequence
    <2> QED
      BY <1>3, <1>4, <2>2, <2>3
  <1> SUFFICES ASSUME Distinct, NEW s \in Orders
               PROVE  \/ \A h \in DOMAIN sorted' : s[h] = sorted'[h]
                      \/ \E k \in DOMAIN sorted' :
                            /\ Name(sorted'[k]) < Name(s[k])
                            /\ \A h \in 1 .. k - 1 : s[h] = sorted'[h]
    <2>1. Orders' = Orders /\ Distinct' = Distinct /\ \A i : Name(i)' = Name(i)
      BY <1>2, SameOrders, SamePlugins
    <2> QED
      BY <1>2, <2>1 DEF Leading, Name
  <1>6. CASE \A h \in DOMAIN sorted : s[h] = sorted[h]
    <2>1. s[n + 1] \in available
      BY <1>2, <1>5, <1>6, NextIsFree
    <2>2. s[n + 1] \in Places
      BY <1>5 DEF Orders
    <2>3. \/ Name(c) < Name(s[n + 1])
          \/ c = s[n + 1]
      BY <1>2, <2>1, <2>2 DEF Before, Distinct
    <2>4. \A h \in 1 .. n : s[h] = sorted'[h]
      BY <1>3, <1>6
    <2>5. CASE c = s[n + 1]
      BY <1>3, <2>4, <2>5
    <2>6. CASE Name(c) < Name(s[n + 1])
      <3>1. (n + 1) - 1 = n /\ n + 1 \in DOMAIN sorted'
        BY <1>3
      <3> QED
        BY <1>3, <2>4, <2>6, <3>1
    <2> QED
      BY <2>3, <2>5, <2>6
  <1>7. CASE \E k \in DOMAIN sorted : /\ Name(sorted[k]) < Name(s[k])
                                      /\ \A h \in 1 .. k - 1 : s[h] = sorted[h]
    <2>1. PICK k \in 1 .. n : /\ Name(sorted[k]) < Name(s[k])
                              /\ \A h \in 1 .. k - 1 : s[h] = sorted[h]
      BY <1>3, <1>7
    <2>2. /\ k \in DOMAIN sorted' /\ sorted'[k] = sorted[k]
          /\ \A h \in 1 .. k - 1 : sorted'[h] = sorted[h]
      BY <1>3
    <2> QED
      BY <2>1, <2>2
  <1> QED
    BY <1>6, <1>7 DEF Leading

LEMMA NextLeading == IInv /\ Leading /\ [Next]_vars => Leading'
  <1> SUFFICES ASSUME IInv, Leading, [Next]_vars PROVE Leading'
    OBVIOUS
  <1>1. ASSUME plugins' = plugins, sorted' = sorted PROVE Leading'
    <2>1. Orders' = Orders /\ Distinct' = Distinct
      BY <1>1, SameOrders, SamePlugins
    <2> QED
      BY <1>1, <2>1 DEF Leading, Name
  <1>2. CASE CountDependencies
    BY <1>1, <1>2 DEF CountDependencies
  <1>3. CASE Finish
    BY <1>1, <1>3 DEF Finish
  <1>4. CASE UNCHANGED vars
    BY <1>1, <1>4 DEF vars
  <1> QED
    BY <1>2, <1>3, <1>4, TakeLeading DEF Next

LEMMA InitLeading == Init => Leading
  <1>1. Init => sorted = <<>> /\ DOMAIN sorted = {}
    BY DEF Init
  <1> QED
    BY <1>1 DEF Leading

THEOREM LeadingHolds == Spec => [](IInv /\ Leading)
  BY InitIInv, NextIInv, InitLeading, NextLeading, PTL DEF Spec

\* A full sort is itself one of the orders, and every other one departs from
\* it for a later name.
LEMMA FullIsLeast ==
    ASSUME IInv, Leading
    PROVE  LeastOrder
  <1> SUFFICES ASSUME pc = "done", Distinct
               PROVE  /\ sorted \in Orders
                      /\ \A s \in Orders \ {sorted} :
                            \E k \in Places : /\ Name(sorted[k]) < Name(s[k])
                                              /\ \A h \in 1 .. k - 1 : s[h] = sorted[h]
    BY DEF LeastOrder
  <1>1. /\ plugins \in Registrations /\ sorted \in Seq(Places)
        /\ Len(sorted) = Len(plugins)
    BY DEF IInv, TypeOK, Phases
  <1>2. DOMAIN sorted = Places
    BY <1>1, PluginTypes
  <1>3. sorted \in [Places -> Places]
    BY <1>1, <1>2
  <1>4. sorted \in Orders
    BY <1>2, <1>3 DEF IInv, TakenOnce, Topological, Orders
  <1>5. ASSUME NEW s \in Orders \ {sorted}
        PROVE  \E k \in Places : /\ Name(sorted[k]) < Name(s[k])
                                 /\ \A h \in 1 .. k - 1 : s[h] = sorted[h]
    <2>1. s \in [Places -> Places] /\ s # sorted
      BY DEF Orders
    <2>2. ~ \A h \in Places : s[h] = sorted[h]
      BY <1>3, <2>1
    <2> QED
      BY <1>2, <2>2 DEF Leading
  <1> QED
    BY <1>4, <1>5

\* With different names, the result does not depend on the order in which
\* the plugins were registered: it is the first, in the dictionary order of
\* names, of all the orders that respect the dependencies.
THEOREM LeastOfTheOrders == Spec => []LeastOrder
  <1>1. IInv /\ Leading => LeastOrder
    BY FullIsLeast
  <1> QED
    BY <1>1, LeadingHolds, PTL

-----------------------------------------------------------------------------
(* Loading: the inductive invariant                                        *)

\* Those that have contributed, and those whose dependencies are checked
Gone == {sorted[k] : k \in 1 .. at - 1}
Checked == Gone \cup (IF stage = "contribute" THEN {Current} ELSE {})

Mappers ==
    /\ Len(active_type_mappers) = at - 1
    /\ \A k \in 1 .. at - 1 : active_type_mappers[k] = sorted[k]

Data == plugin_data = UNION {Provides[Name(i)] : i \in Gone}

Claiming ==
    \A t \in Tags : /\ IsInjective(claims[t])
                    /\ Range(claims[t]) = {i \in Gone : t \in Claims[Name(i)]}

Checking == stage # "loaded" => errors = UNION {Missing(i) : i \in Checked}

Gathered == Mappers /\ Data /\ Claiming /\ Checking

Stages ==
    /\ stage = "sort" => at = 1
    /\ stage \in {"setup", "contribute", "loaded"} => pc = "done"
    /\ stage = "contribute" => at <= Len(sorted)
    /\ why # "none" => stage = "raised"

LoadInv ==
    /\ IInv
    /\ LoadTypeOK /\ Stages
    /\ stage # "raised" => Gathered
    /\ LoadedIsComplete /\ ErrorsAreComplete

-----------------------------------------------------------------------------
(* Sequences and sets                                                      *)

LEMMA InjectiveCardinality ==
    ASSUME NEW S, NEW s \in Seq(S), IsInjective(s)
    PROVE  Len(s) \in Nat /\ Cardinality(Range(s)) = Len(s)
  <1>1. Len(s) \in Nat /\ DOMAIN s = 1 .. Len(s)
    OBVIOUS
  <1>2. s \in Surjection(1 .. Len(s), Range(s)) /\ s \in Injection(1 .. Len(s), Range(s))
    BY <1>1 DEF Surjection, Injection, Range
  <1>3. IsFiniteSet(1 .. Len(s)) /\ Cardinality(1 .. Len(s)) = Len(s)
    BY <1>1, FS_Interval
  <1> QED
    BY <1>1, <1>2, <1>3, FS_Surjection

\* A new element at the end keeps a sequence injective.
LEMMA AppendNew ==
    ASSUME NEW S, NEW s \in Seq(S), NEW x \in S, IsInjective(s), x \notin Range(s),
           NEW t, t = Append(s, x)
    PROVE  IsInjective(t)
  <1>1. /\ Len(s) \in Nat /\ DOMAIN s = 1 .. Len(s) /\ DOMAIN t = 1 .. Len(s) + 1
        /\ t[Len(s) + 1] = x
        /\ \A k \in 1 .. Len(s) : t[k] = s[k] /\ s[k] # x
    BY AppendFacts DEF Range
  <1>2. ASSUME NEW a \in DOMAIN t, NEW b \in DOMAIN t, t[a] = t[b]
        PROVE  a = b
    <2>1. CASE a \in 1 .. Len(s) /\ b \in 1 .. Len(s)
      BY <2>1, <1>1, <1>2 DEF IsInjective
    <2>2. CASE a = Len(s) + 1 \/ b = Len(s) + 1
      BY <2>2, <1>1, <1>2
    <2> QED
      BY <2>1, <2>2, <1>1
  <1> QED
    BY <1>2, Zenon DEF IsInjective

-----------------------------------------------------------------------------
(* Reading the state                                                       *)

\* What is read off the plugins and their order while both stay the same
LEMMA SameReading ==
    ASSUME UNCHANGED vars
    PROVE  /\ Places' = Places /\ Present' = Present /\ pc' = pc /\ sorted' = sorted
           /\ plugins' = plugins
           /\ \A i : Name(i)' = Name(i) /\ Missing(i)' = Missing(i)
           /\ MissingAnywhere' = MissingAnywhere
           /\ \A t : Claimants(t)' = Claimants(t)
  BY DEF vars, Places, Present, Name, Missing, DependsOn, MissingAnywhere, Claimants

LEMMA SortKept ==
    ASSUME IInv, UNCHANGED vars
    PROVE  IInv' /\ TypeOK'
  BY NextIInv DEF IInv

\* The plugin at hand is one that has not contributed.
LEMMA CurrentIsNew ==
    ASSUME LoadInv, at <= Len(sorted)
    PROVE  /\ at \in DOMAIN sorted /\ at \in Nat
           /\ Current \in Places /\ Current \notin Gone
           /\ Gone \subseteq Places
  <1>1. /\ sorted \in Seq(Places) /\ at \in 1 .. Len(sorted) + 1 /\ IsInjective(sorted)
    BY DEF LoadInv, LoadTypeOK, TypeOK, IInv, TakenOnce
  <1>2. /\ Len(sorted) \in Nat /\ DOMAIN sorted = 1 .. Len(sorted)
        /\ \A k \in 1 .. Len(sorted) : sorted[k] \in Places
    BY <1>1
  <1>3. at \in 1 .. Len(sorted)
    BY <1>1, <1>2
  <1>4. ASSUME NEW k \in 1 .. at - 1 PROVE k \in 1 .. Len(sorted) /\ k # at
    BY <1>2, <1>3
  <1> QED
    BY <1>1, <1>2, <1>3, <1>4 DEF Gone, Current, IsInjective

\* At the end everyone has contributed.
LEMMA AllGone ==
    ASSUME LoadInv, pc = "done", at > Len(sorted)
    PROVE  Gone = Places /\ at - 1 = Len(sorted)
  <1>1. /\ sorted \in Seq(Places) /\ at \in 1 .. Len(sorted) + 1 /\ IsInjective(sorted)
        /\ Len(sorted) = Len(plugins) /\ plugins \in Registrations
    BY DEF LoadInv, LoadTypeOK, TypeOK, IInv, TakenOnce, Phases
  <1>2. Len(plugins) \in Nat /\ Places = 1 .. Len(plugins)
    BY <1>1, PluginTypes
  <1>3. Range(sorted) = Places
    BY <1>1, <1>2, FullSequence
  <1>4. at - 1 = Len(sorted) /\ DOMAIN sorted = 1 .. Len(sorted)
    BY <1>1, <1>2
  <1> QED
    BY <1>3, <1>4 DEF Gone, Range

-----------------------------------------------------------------------------
(* The invariant is kept by every step.                                    *)

LEMMA InitLoadInv == LoadInit => LoadInv
  <1> SUFFICES ASSUME LoadInit PROVE LoadInv
    OBVIOUS
  <1>1. IInv /\ sorted = <<>> /\ TypeOK
    BY InitIInv DEF LoadInit, Init, IInv
  <1>2. /\ stage = "sort" /\ why = "none" /\ at = 1 /\ at \in Int
        /\ errors = {} /\ plugin_data = {}
    BY DEF LoadInit
  <1>3. Gone = {} /\ Checked = {}
    <2>1. 1 .. at - 1 = {}
      BY <1>2
    <2>2. stage # "contribute"
      BY <1>2
    <2> QED
      BY <2>1, <2>2 DEF Gone, Checked
  <1>4. /\ \A t \in Tags : claims[t] = <<>> /\ DOMAIN claims[t] = {}
        /\ claims \in [Tags -> Seq(Places)]
    <2>1. claims = [t \in Tags |-> <<>>]
      BY DEF LoadInit
    <2>2. <<>> \in Seq(Places) /\ DOMAIN <<>> = {}
      OBVIOUS
    <2> QED
      BY <2>1, <2>2, Zenon
  <1>5. /\ Len(active_type_mappers) = 0 /\ active_type_mappers \in Seq(Places)
    <2>1. active_type_mappers = <<>>
      BY DEF LoadInit
    <2> QED
      BY <2>1
  <1>6. DOMAIN active = {}
    <2>1. active = <<>>
      BY DEF LoadInit
    <2> QED
      BY <2>1
  <1>7. Mappers
    BY <1>2, <1>5 DEF Mappers
  <1>8. Claiming
    BY <1>3, <1>4 DEF Claiming, Range, IsInjective
  <1>9. Gathered
    BY <1>2, <1>3, <1>7, <1>8 DEF Gathered, Data, Checking
  <1>10. at \in 1 .. Len(sorted) + 1
    <2>1. Len(sorted) = 0
      BY <1>1
    <2> QED
      BY <1>2, <2>1
  <1>11. LoadTypeOK
    BY <1>1, <1>2, <1>4, <1>5, <1>6, <1>10 DEF LoadTypeOK, Range
  <1> QED
    BY <1>1, <1>2, <1>9, <1>11 DEF LoadInv, Stages, LoadedIsComplete, ErrorsAreComplete

LEMMA SortingLoadInv ==
    ASSUME LoadInv, Sorting
    PROVE  LoadInv'
  <1>1. /\ stage = "sort" /\ stage' = "sort" /\ why' = why /\ at = 1 /\ at' = 1
        /\ errors' = errors /\ active' = active /\ claims' = claims
        /\ plugin_data' = plugin_data /\ active_type_mappers' = active_type_mappers
    BY DEF LoadInv, Sorting, Stages, progress, gathered
  <1>2. why = "none"
    BY <1>1 DEF LoadInv, Stages
  <1>3. IInv' /\ TypeOK' /\ plugins' = plugins
    <2>1. IInv'
      BY NextIInv DEF LoadInv, Sorting
    <2>2. plugins' = plugins
      BY DEF Sorting, Next, CountDependencies, Take, Finish
    <2> QED
      BY <2>1, <2>2 DEF IInv
  <1>4. LoadTypeOK'
    <2>1. Places' = Places
      BY <1>3, SamePlugins
    <2>2. at' \in 1 .. Len(sorted)' + 1
      <3>1. sorted' \in Seq(Places')
        BY <1>3 DEF TypeOK
      <3>2. Len(sorted)' \in Nat
        BY <3>1
      <3> QED
        BY <1>1, <3>2
    <2> QED
      BY <1>1, <1>3, <2>1, <2>2 DEF LoadInv, LoadTypeOK
  <1>5. Gone = {} /\ Gone' = {} /\ Checked = {} /\ Checked' = {}
    BY <1>1 DEF Gone, Checked
  <1>6. Gathered'
    BY <1>1, <1>5 DEF LoadInv, Gathered, Mappers, Data, Claiming, Checking
  <1> QED
    BY <1>1, <1>2, <1>3, <1>4, <1>6 DEF LoadInv, Stages, LoadedIsComplete, ErrorsAreComplete

LEMMA SortReturnsLoadInv ==
    ASSUME LoadInv, SortReturns
    PROVE  LoadInv'
  <1>1. /\ stage = "sort" /\ at' = at /\ UNCHANGED vars
        /\ errors' = errors /\ active' = active /\ claims' = claims
        /\ plugin_data' = plugin_data /\ active_type_mappers' = active_type_mappers
        /\ \/ stage' = "setup" /\ why' = why /\ pc = "done"
           \/ stage' = "raised" /\ why' = "circular"
    BY DEF SortReturns, Goto, Raise, gathered
  <1>2. why = "none"
    BY <1>1 DEF LoadInv, Stages
  <1>3. IInv' /\ TypeOK'
    BY <1>1, SortKept DEF LoadInv
  <1>4. LoadTypeOK' /\ Stages'
    BY <1>1, <1>2, <1>3, SameReading DEF LoadInv, LoadTypeOK, Stages
  <1>5. Gone' = Gone /\ (stage' = "setup" => Checked' = Checked)
    BY <1>1, SameReading DEF Gone, Checked
  <1>6. stage' = "setup" => Gathered'
    BY <1>1, <1>5, SameReading DEF LoadInv, Gathered, Mappers, Data, Claiming, Checking
  <1> QED
    BY <1>1, <1>2, <1>3, <1>4, <1>6 DEF LoadInv, LoadedIsComplete, ErrorsAreComplete

LEMMA SetUpLoadInv ==
    ASSUME LoadInv, SetUp
    PROVE  LoadInv'
  <1>1. /\ stage = "setup" /\ at' = at /\ UNCHANGED vars /\ at <= Len(sorted)
        /\ errors' = errors \cup Missing(Current)
        /\ active' = active /\ claims' = claims
        /\ plugin_data' = plugin_data /\ active_type_mappers' = active_type_mappers
        /\ \/ stage' = "contribute" /\ why' = why
           \/ stage' = "raised" /\ why' = "nodata"
    BY DEF SetUp, Goto, Raise
  <1>2. why = "none" /\ pc = "done"
    BY <1>1 DEF LoadInv, Stages
  <1>3. IInv' /\ TypeOK'
    BY <1>1, SortKept DEF LoadInv
  <1>4. LoadTypeOK' /\ Stages'
    BY <1>1, <1>2, <1>3, SameReading DEF LoadInv, LoadTypeOK, Stages
  <1>5. /\ Gone' = Gone /\ Checked = Gone
        /\ stage' = "contribute" => Checked' = Gone \cup {Current}
    BY <1>1, SameReading DEF Gone, Checked, Current
  <1>6. stage' = "contribute" => Gathered'
    BY <1>1, <1>5, SameReading DEF LoadInv, Gathered, Mappers, Data, Claiming, Checking
  <1> QED
    BY <1>1, <1>2, <1>3, <1>4, <1>6 DEF LoadInv, LoadedIsComplete, ErrorsAreComplete

LEMMA ContributeLoadInv ==
    ASSUME LoadInv, Contribute
    PROVE  LoadInv'
  <1> DEFINE new == Provides[Name(Current)]
  <1>1. /\ stage = "contribute" /\ UNCHANGED vars /\ errors' = errors /\ active' = active
        /\ claims' = [t \in Tags |-> IF t \in Claims[Name(Current)]
                                     THEN Append(claims[t], Current) ELSE claims[t]]
    BY DEF Contribute, Claim
  <1>2. why = "none" /\ pc = "done" /\ at <= Len(sorted)
    BY <1>1 DEF LoadInv, Stages
  <1>3. IInv' /\ TypeOK'
    BY <1>1, SortKept DEF LoadInv
  <1>4. /\ at \in DOMAIN sorted /\ at \in Nat /\ Current \in Places /\ Current \notin Gone
        /\ Gone \subseteq Places /\ Len(sorted) \in Nat /\ at \in 1 .. Len(sorted)
    <2>1. sorted \in Seq(Places)
      BY DEF LoadInv, LoadTypeOK, TypeOK
    <2>2. Len(sorted) \in Nat /\ DOMAIN sorted = 1 .. Len(sorted)
      BY <2>1
    <2> QED
      BY <1>2, <2>2, CurrentIsNew
  <1>5. /\ claims' \in [Tags -> Seq(Places)] /\ new \subseteq Keys
    <2>1. claims \in [Tags -> Seq(Places)] /\ plugins \in Registrations
      BY DEF LoadInv, LoadTypeOK, TypeOK
    <2>2. \A t \in Tags : Append(claims[t], Current) \in Seq(Places)
      BY <2>1, <1>4
    <2>3. Name(Current) \in PluginNames
      <3>1. plugins \in Seq(Plugin)
        BY <2>1, RegistrationsAssumption DEF RegistrationsAssumption
      <3>2. plugins[Current] \in Plugin
        BY <3>1, <1>4 DEF Places
      <3> QED
        BY <3>2 DEF Plugin, Name
    <2> QED
      BY <1>1, <2>1, <2>2, <2>3, ContentsAssumption DEF ContentsAssumption
  <1>6. CASE /\ stage' = "setup" /\ at' = at + 1 /\ why' = why
             /\ plugin_data' = plugin_data \cup new
             /\ active_type_mappers' = Append(active_type_mappers, Current)
    <2>1. Gone' = Gone \cup {Current} /\ Checked = Gone \cup {Current} /\ Checked' = Gone'
      <3>1. 1 .. at + 1 - 1 = (1 .. at - 1) \cup {at}
        BY <1>4
      <3> QED
        BY <1>1, <1>6, <3>1, SameReading DEF Gone, Checked, Current
    <2>2. Mappers'
      <3>1. /\ active_type_mappers \in Seq(Places) /\ Len(active_type_mappers) = at - 1
            /\ \A k \in 1 .. at - 1 : active_type_mappers[k] = sorted[k]
        BY <1>1 DEF LoadInv, LoadTypeOK, Gathered, Mappers
      <3>2. /\ Len(active_type_mappers') = at
            /\ active_type_mappers'[at] = Current
            /\ \A k \in 1 .. at - 1 : active_type_mappers'[k] = sorted[k]
        BY <3>1, <1>4, <1>6, AppendFacts
      <3> QED
        BY <3>2, <1>4, <1>6, <1>1, SameReading DEF Mappers, Current
    <2>3. Data'
      BY <1>1, <1>6, <2>1, SameReading DEF LoadInv, Gathered, Data
    <2>4. Claiming'
      <3> SUFFICES ASSUME NEW t \in Tags
                   PROVE  /\ IsInjective(claims'[t])
                          /\ Range(claims'[t]) = {i \in Gone \cup {Current} :
                                                     t \in Claims[Name(i)]}
        BY <2>1, <1>1, SameReading DEF Claiming
      <3>1. /\ claims[t] \in Seq(Places) /\ IsInjective(claims[t])
            /\ Range(claims[t]) = {i \in Gone : t \in Claims[Name(i)]}
        BY <1>1 DEF LoadInv, LoadTypeOK, Gathered, Claiming
      <3>2. CASE t \in Claims[Name(Current)]
        <4>1. claims'[t] = Append(claims[t], Current)
          BY <3>2, <1>1
        <4>2. Current \notin Range(claims[t])
          BY <3>1, <1>4
        <4>3. IsInjective(claims'[t])
          <5>1. PICK c \in Seq(Places) : c = claims[t]
            BY <3>1
          <5>2. IsInjective(c) /\ Current \notin Range(c) /\ claims'[t] = Append(c, Current)
            BY <5>1, <3>1, <4>1, <4>2
          <5> QED
            BY <5>2, <1>4, AppendNew
        <4>4. Range(Append(claims[t], Current)) = Range(claims[t]) \cup {Current}
          BY <3>1, <1>4, AppendFacts
        <4> QED
          BY <3>1, <3>2, <4>1, <4>3, <4>4
      <3>3. CASE t \notin Claims[Name(Current)]
        <4>1. claims'[t] = claims[t]
          BY <3>3, <1>1
        <4> QED
          BY <3>1, <3>3, <4>1
      <3> QED
        BY <3>2, <3>3
    <2>5. Checking'
      BY <1>1, <1>6, <2>1, SameReading DEF LoadInv, Gathered, Checking
    <2>6. LoadTypeOK' /\ Stages'
      <3>1. active_type_mappers' \in Seq(Places)
        <4>1. active_type_mappers \in Seq(Places)
          BY DEF LoadInv, LoadTypeOK
        <4> QED
          BY <4>1, <1>4, <1>6
      <3>2. at + 1 \in 1 .. Len(sorted) + 1
        BY <1>4
      <3> QED
        BY <1>1, <1>2, <1>3, <1>5, <1>6, <3>1, <3>2, SameReading
           DEF LoadInv, LoadTypeOK, Stages
    <2> QED
      BY <1>2, <1>3, <1>6, <2>2, <2>3, <2>4, <2>5, <2>6
         DEF LoadInv, Gathered, LoadedIsComplete, ErrorsAreComplete
  <1>7. CASE /\ stage' = "raised" /\ at' = at /\ why' = "datacollision"
             /\ active_type_mappers' = active_type_mappers /\ plugin_data' \subseteq Keys
    <2>1. LoadTypeOK' /\ Stages'
      BY <1>1, <1>2, <1>3, <1>5, <1>7, SameReading DEF LoadInv, LoadTypeOK, Stages
    <2> QED
      BY <1>3, <1>7, <2>1 DEF LoadInv, LoadedIsComplete, ErrorsAreComplete
  <1>8. plugin_data \subseteq Keys
    BY DEF LoadInv, LoadTypeOK
  <1> QED
    BY <1>5, <1>6, <1>7, <1>8 DEF Contribute, Store, Raise

LEMMA ResolveLoadInv ==
    ASSUME LoadInv, ResolveClaims
    PROVE  LoadInv'
  <1>1. /\ stage = "setup" /\ at' = at /\ UNCHANGED vars /\ at > Len(sorted)
        /\ errors' = errors \cup {<<"collision", t>> : t \in Contested}
        /\ active' = [t \in {u \in Tags : Len(claims[u]) = 1} |-> claims[t][1]]
        /\ claims' = claims
        /\ plugin_data' = plugin_data /\ active_type_mappers' = active_type_mappers
        /\ \/ stage' = "loaded" /\ why' = why /\ errors' = {}
           \/ stage' = "raised" /\ why' = "listed"
    BY DEF ResolveClaims, AllErrors, Collisions, Goto, Raise
  <1>2. why = "none" /\ pc = "done"
    BY <1>1 DEF LoadInv, Stages
  <1>3. IInv' /\ TypeOK'
    BY <1>1, SortKept DEF LoadInv
  <1>4. Gone = Places /\ at - 1 = Len(sorted) /\ Checked = Places
    BY <1>1, <1>2, AllGone DEF Checked
  <1>5. /\ Mappers /\ Data /\ Claiming /\ Checking
        /\ claims \in [Tags -> Seq(Places)]
    BY <1>1 DEF LoadInv, Gathered, LoadTypeOK
  <1>6. ASSUME NEW t \in Tags
        PROVE  /\ Range(claims[t]) = Claimants(t)
               /\ claims[t] \in Seq(Places) /\ DOMAIN claims[t] = 1 .. Len(claims[t])
               /\ Len(claims[t]) \in Nat
               /\ Cardinality(Claimants(t)) = Len(claims[t])
    <2>1. Range(claims[t]) = Claimants(t) /\ IsInjective(claims[t]) /\ claims[t] \in Seq(Places)
      BY <1>4, <1>5 DEF Claiming, Claimants
    <2> QED
      BY <2>1, InjectiveCardinality
  <1>7. errors = MissingAnywhere
    BY <1>1, <1>4, <1>5 DEF Checking, MissingAnywhere
  <1>8. Contested = {u \in Tags : Cardinality(Claimants(u)) > 1}
    BY <1>6 DEF Contested
  <1>9. LoadTypeOK' /\ Stages'
    <2>1. DOMAIN active' \subseteq Tags
      BY <1>1
    <2>2. Range(active') \subseteq Places
      <3> SUFFICES ASSUME NEW t \in DOMAIN active' PROVE active'[t] \in Places
        BY DEF Range
      <3>1. t \in Tags /\ Len(claims[t]) = 1 /\ active'[t] = claims[t][1]
        BY <1>1
      <3> QED
        BY <3>1, <1>6
    <2> QED
      BY <1>1, <1>2, <1>3, <2>1, <2>2, SameReading DEF LoadInv, LoadTypeOK, Stages
  <1>10. CASE stage' = "loaded" /\ why' = why /\ errors' = {}
    <2>1. MissingAnywhere = {} /\ Contested = {}
      BY <1>1, <1>7, <1>10
    <2>2. ASSUME NEW t \in Tags
          PROVE  Claimants(t) = IF t \in DOMAIN active' THEN {active'[t]} ELSE {}
      <3>1. Len(claims[t]) = 0 \/ Len(claims[t]) = 1
        <4>1. PICK n \in Nat : n = Len(claims[t])
          BY <1>6
        <4>2. ~(n > 1)
          BY <2>1, <4>1 DEF Contested
        <4>3. n = 0 \/ n = 1
          BY <4>2
        <4> QED
          BY <4>1, <4>3
      <3>2. CASE Len(claims[t]) = 1
        <4>1. t \in DOMAIN active' /\ active'[t] = claims[t][1]
          BY <3>2, <1>1
        <4>2. Range(claims[t]) = {claims[t][1]}
          BY <3>2, <1>6 DEF Range
        <4> QED
          BY <4>1, <4>2, <1>6
      <3>3. CASE Len(claims[t]) = 0
        <4>1. t \notin DOMAIN active'
          BY <3>3, <1>1
        <4>2. Range(claims[t]) = {}
          BY <3>3, <1>6 DEF Range
        <4> QED
          BY <4>1, <4>2, <1>6
      <3> QED
        BY <3>1, <3>2, <3>3
    <2>3. active_type_mappers = sorted
      <3>1. active_type_mappers \in Seq(Places) /\ sorted \in Seq(Places)
        BY DEF LoadInv, LoadTypeOK, TypeOK
      <3>2. /\ Len(active_type_mappers) = Len(sorted)
            /\ \A k \in 1 .. Len(sorted) : active_type_mappers[k] = sorted[k]
        BY <1>4, <1>5 DEF Mappers
      <3> QED
        BY <3>1, <3>2, SeqEqual
    <2>4. LoadedIsComplete'
      <3>1. plugin_data = UNION {Provides[Name(i)] : i \in Places}
        BY <1>4, <1>5 DEF Data
      <3> QED
        BY <1>1, <2>1, <2>2, <2>3, <3>1, SameReading DEF LoadedIsComplete
    <2>5. Gathered'
      <3>1. Gone' = Gone
        BY <1>1, SameReading DEF Gone
      <3> QED
        BY <1>1, <1>5, <1>10, <3>1, SameReading
           DEF Gathered, Mappers, Data, Claiming, Checking
    <2> QED
      BY <1>2, <1>3, <1>9, <1>10, <2>4, <2>5 DEF LoadInv, ErrorsAreComplete
  <1>11. CASE stage' = "raised" /\ why' = "listed"
    <2>1. ErrorsAreComplete'
      BY <1>1, <1>7, <1>8, SameReading DEF ErrorsAreComplete
    <2> QED
      BY <1>3, <1>9, <1>11, <2>1 DEF LoadInv, LoadedIsComplete
  <1> QED
    BY <1>1, <1>10, <1>11

LEMMA NextLoadInv == LoadInv /\ [LoadNext]_loadVars => LoadInv'
  <1> SUFFICES ASSUME LoadInv, [LoadNext]_loadVars PROVE LoadInv'
    OBVIOUS
  <1>1. CASE UNCHANGED loadVars
    <2>1. /\ UNCHANGED vars /\ stage' = stage /\ why' = why /\ at' = at /\ errors' = errors
          /\ claims' = claims /\ active' = active /\ plugin_data' = plugin_data
          /\ active_type_mappers' = active_type_mappers
      BY <1>1 DEF loadVars, progress, gathered
    <2>2. IInv' /\ TypeOK'
      BY <2>1, SortKept DEF LoadInv
    <2>3. LoadTypeOK' /\ Stages'
      BY <2>1, <2>2, SameReading DEF LoadInv, LoadTypeOK, Stages
    <2>4. Gone' = Gone /\ Checked' = Checked
      BY <2>1, SameReading DEF Gone, Checked, Current
    <2>5. stage' # "raised" => Gathered'
      BY <2>1, <2>4, SameReading DEF LoadInv, Gathered, Mappers, Data, Claiming, Checking
    <2>6. LoadedIsComplete' /\ ErrorsAreComplete'
      BY <2>1, SameReading DEF LoadInv, LoadedIsComplete, ErrorsAreComplete
    <2> QED
      BY <2>2, <2>3, <2>5, <2>6 DEF LoadInv
  <1> QED
    BY <1>1, SortingLoadInv, SortReturnsLoadInv, SetUpLoadInv, ContributeLoadInv,
       ResolveLoadInv DEF LoadNext

\* The inductive invariant
THEOREM LoadInvariance == LoadSpec => []LoadInv
  BY InitLoadInv, NextLoadInv, PTL DEF LoadSpec

-----------------------------------------------------------------------------
\* The types of the state.
THEOREM LoadTypes == LoadSpec => []LoadTypeOK
  <1>1. LoadInv => LoadTypeOK
    BY DEF LoadInv
  <1> QED
    BY <1>1, LoadInvariance, PTL

\* A setup hook finds the data, the tags and the type mappers of every plugin
\* it depends on.
THEOREM HooksFindTheirDependencies == LoadSpec => []DependenciesContributed
  <1>1. ASSUME LoadInv PROVE DependenciesContributed
    <2> SUFFICES ASSUME stage = "setup", at <= Len(sorted), Distinct,
                        NEW i \in Places, Name(i) \in DependsOn(Current)
                 PROVE  /\ Provides[Name(i)] \subseteq plugin_data
                        /\ i \in Range(active_type_mappers)
                        /\ \A t \in Claims[Name(i)] : i \in Range(claims[t])
      BY DEF DependenciesContributed
    <2>1. /\ at \in DOMAIN sorted /\ at \in Nat /\ Gone \subseteq Places
          /\ sorted \in Seq(Places) /\ DOMAIN sorted = 1 .. Len(sorted)
          /\ Len(sorted) \in Nat
      <3>1. sorted \in Seq(Places)
        BY <1>1 DEF LoadInv, LoadTypeOK, TypeOK
      <3>2. Len(sorted) \in Nat /\ DOMAIN sorted = 1 .. Len(sorted)
        BY <3>1
      <3> QED
        BY <1>1, <3>1, <3>2, CurrentIsNew
    <2>2. PICK h \in 1 .. at - 1 : Name(sorted[h]) = Name(i)
      BY <1>1, <2>1 DEF LoadInv, IInv, Topological, DependsOn, Current, Present
    <2>3. h \in 1 .. Len(sorted) /\ sorted[h] \in Places
      BY <2>1
    <2>4. sorted[h] = i /\ i \in Gone
      BY <2>2, <2>3 DEF Distinct, Gone
    <2>5. Mappers /\ Data /\ Claiming /\ active_type_mappers \in Seq(Places)
      BY <1>1 DEF LoadInv, Gathered, LoadTypeOK
    <2>6. Provides[Name(i)] \subseteq plugin_data
      BY <2>4, <2>5 DEF Data
    <2>7. i \in Range(active_type_mappers)
      <3>1. h \in DOMAIN active_type_mappers /\ active_type_mappers[h] = i
        BY <2>1, <2>4, <2>5 DEF Mappers
      <3> QED
        BY <3>1 DEF Range
    <2>8. \A t \in Claims[Name(i)] : i \in Range(claims[t])
      <3>1. Claims[Name(i)] \subseteq Tags
        <4>1. plugins \in Seq(Plugin)
          BY <1>1, RegistrationsAssumption DEF RegistrationsAssumption, LoadInv, LoadTypeOK, TypeOK
        <4>2. plugins[i] \in Plugin
          BY <4>1 DEF Places
        <4>3. Name(i) \in PluginNames
          BY <4>2 DEF Plugin, Name
        <4> QED
          BY <4>3, ContentsAssumption DEF ContentsAssumption
      <3> QED
        BY <3>1, <2>4, <2>5 DEF Claiming
    <2> QED
      BY <2>6, <2>7, <2>8
  <1> QED
    BY <1>1, LoadInvariance, PTL

\* load_plugins returns only with every tag given to its one claimant, every
\* dependency there, and every plugin's data and mappers stored.
THEOREM NothingIsLeftOut == LoadSpec => []LoadedIsComplete
  <1>1. LoadInv => LoadedIsComplete
    BY DEF LoadInv
  <1> QED
    BY <1>1, LoadInvariance, PTL

\* The ValueError that lists errors lists them all, and no others.
THEOREM NoErrorIsHidden == LoadSpec => []ErrorsAreComplete
  <1>1. LoadInv => ErrorsAreComplete
    BY DEF LoadInv
  <1> QED
    BY <1>1, LoadInvariance, PTL
=============================================================================
