-------------------------- MODULE Registry_proofs --------------------------
(***************************************************************************)
(* What the assumptions on the tables and the layout say of fields, views  *)
(* and find_field.                                                         *)
(***************************************************************************)
EXTENDS Registry, WellFoundedInduction, TLAPS

\* Entries of the tables are StructFieldInfo records.
LEMMA FieldTypes == AllFields \subseteq FieldInfo
  <1> SUFFICES ASSUME NEW t \in StructTypes, NEW f \in FieldsOf(t)
               PROVE  f \in FieldInfo
    BY DEF AllFields
  <1>1. Fields[t] \in Seq(FieldInfo)
    BY TablesAssumption DEF TablesAssumption
  <1> QED
    BY <1>1 DEF FieldsOf

\* A view is an instance and an entry of the table of its type.
LEMMA ViewTypes ==
    ASSUME NEW v \in Views
    PROVE  /\ v[1] \in Objects
           /\ v[1][1] \in Addr /\ v[1][1] \in Nat /\ v[1][1] # NULL
           /\ v[1][2] \in StructTypes
           /\ v[2] \in FieldsOf(v[1][2])
           /\ v[2] \in AllFields /\ v[2] \in FieldInfo
           /\ v[2].offset \in Nat /\ v[2].size \in Nat /\ v[2].count \in Nat \ {0}
           /\ v[2] # NoField
           /\ v = <<v[1], v[2]>> /\ v[1] = <<v[1][1], v[1][2]>>
  <1>1. PICK o \in Objects : v \in {o} \X FieldsOf(o[2])
    BY DEF Views
  <1>2. v[1] = o /\ v[2] \in FieldsOf(o[2]) /\ v = <<v[1], v[2]>>
    BY <1>1
  <1>3. o \in Addr \X StructTypes /\ Top \in Nat
    BY LayoutAssumption DEF LayoutAssumption
  <1>4. v[2] \in AllFields
    BY <1>2, <1>3 DEF AllFields
  <1>5. v[2] \in FieldInfo
    BY <1>4, FieldTypes
  <1>6. v[2] # NoField
    BY <1>5, TablesAssumption DEF TablesAssumption
  <1> QED
    BY <1>2, <1>3, <1>4, <1>5, <1>6 DEF Addr, NULL, FieldInfo

\* find_field returns NULL or an entry of the table.
LEMMA FindFieldEntry ==
    ASSUME NEW t \in StructTypes, NEW name, FindField(t, name) # NoField
    PROVE  FindField(t, name) \in FieldsOf(t)
  <1> DEFINE hits == {i \in DOMAIN Fields[t] : Fields[t][i].name = name}
  <1>1. hits # {}
    BY DEF FindField
  <1>2. Fields[t] \in Seq(FieldInfo)
    BY TablesAssumption DEF TablesAssumption
  <1>3. hits \subseteq Nat /\ \A i, j \in hits : i = j
    BY <1>2, TablesAssumption DEF TablesAssumption
  <1>4. \E i \in hits : \A j \in hits : i <= j
    BY <1>1, <1>3
  <1>5. (CHOOSE i \in hits : \A j \in hits : i <= j) \in hits
    BY <1>4
  <1> QED
    BY <1>1, <1>5 DEF FindField, FieldsOf

\* The least number principle, from the well-foundedness of < on Nat.
LEMMA LeastNat ==
    ASSUME NEW S \in SUBSET Nat, S # {}
    PROVE  \E m \in S : \A n \in S : m <= n
  <1> DEFINE R == OpToRel(<, Nat)
  <1>1. IsWellFoundedOn(R, Nat)
    BY NatLessThanWellFounded
  <1>2. \E x \in S : \A y \in S : ~ (<<y, x>> \in R)
    <2> HIDE DEF R
    <2> QED
      BY <1>1, WFMin
  <1>3. PICK m \in S : \A n \in S : ~ (<<n, m>> \in R)
    BY <1>2
  <1>4. ASSUME NEW n \in S, n < m PROVE FALSE
    BY <1>3, <1>4 DEF OpToRel
  <1> QED
    BY <1>4

-----------------------------------------------------------------------------
(* Induction and recursion over data                                       *)

\* Induction up to n over a set of numbers
LEMMA UpTo ==
    ASSUME NEW N \in Nat, NEW P, 0 \in P, \A n \in 1 .. N : n - 1 \in P => n \in P
    PROVE  \A n \in 0 .. N : n \in P
  <1> DEFINE T == {n \in 0 .. N : n \notin P}
  <1>1. ASSUME T # {} PROVE FALSE
    <2>1. T \in SUBSET Nat
      OBVIOUS
    <2>2. PICK k \in T : \A n \in T : k <= n
      BY <1>1, <2>1, LeastNat
    <2>3. k \in 1 .. N
      BY <2>2
    <2>4. k - 1 \in 0 .. N /\ k - 1 \notin T
      BY <2>2, <2>3
    <2> QED
      BY <2>2, <2>3, <2>4
  <1> QED
    BY <1>1

\* A function given by its first value and a step from each to the next
Recurses(f, N, S, a, step) ==
    /\ f \in [0 .. N -> S]
    /\ f[0] = a
    /\ \A n \in 1 .. N : f[n] = step[<<n, f[n - 1]>>]

LEMMA Recursion ==
    ASSUME NEW N \in Nat, NEW S, NEW a \in S, NEW step \in [(1 .. N) \X S -> S]
    PROVE  \E f : Recurses(f, N, S, a, step)
  <1> DEFINE Good(f, k) == f[0] = a /\ \A n \in 1 .. k : f[n] = step[<<n, f[n - 1]>>]
             P == {k \in 0 .. N : \E f \in [0 .. k -> S] : Good(f, k)}
  <1>1. 0 \in P
    <2>1. PICK f : f = [n \in 0 .. 0 |-> a]
      OBVIOUS
    <2>2. f \in [0 .. 0 -> S] /\ f[0] = a
      BY <2>1
    <2>3. \A n \in 1 .. 0 : FALSE
      OBVIOUS
    <2>4. \E h \in [0 .. 0 -> S] : Good(h, 0)
      BY <2>2, <2>3
    <2>5. 0 \in 0 .. N
      OBVIOUS
    <2> HIDE DEF Good
    <2> QED
      BY <2>4, <2>5
  <1>2. ASSUME NEW k \in 1 .. N, k - 1 \in P PROVE k \in P
    <2>1. PICK f \in [0 .. k - 1 -> S] : Good(f, k - 1)
      BY <1>2
    <2>2. f[k - 1] \in S
      OBVIOUS
    <2>3. step[<<k, f[k - 1]>>] \in S
      BY <2>2
    <2> DEFINE g == [n \in 0 .. k |-> IF n = k THEN step[<<k, f[k - 1]>>] ELSE f[n]]
    <2>4. g \in [0 .. k -> S]
      BY <2>3
    <2>5. g[0] = a
      BY <2>1
    <2>6. ASSUME NEW n \in 1 .. k PROVE g[n] = step[<<n, g[n - 1]>>]
      <3>1. g[n - 1] = f[n - 1]
        <4>1. n - 1 \in 0 .. k /\ n - 1 # k
          OBVIOUS
        <4> QED
          BY <4>1
      <3>2. CASE n = k
        <4>1. g[k] = step[<<k, f[k - 1]>>]
          OBVIOUS
        <4> HIDE DEF g
        <4> QED
          BY <3>1, <3>2, <4>1
      <3>3. CASE n # k
        <4>1. n \in 1 .. k - 1
          BY <3>3
        <4> QED
          BY <2>1, <3>1, <3>3, <4>1
      <3> QED
        BY <3>2, <3>3
    <2>7. Good(g, k)
      BY <2>5, <2>6
    <2> HIDE DEF g, Good
    <2> QED
      BY <2>4, <2>7
  <1>3. N \in P
    <2> HIDE DEF P
    <2> QED
      BY <1>1, <1>2, UpTo
  <1> QED
    BY <1>3 DEF Recurses
=============================================================================
