--------------------------- MODULE ReflectClient ---------------------------
(***************************************************************************)
(* Lookup and access together, the way a program uses the library: it asks *)
(* for a path and hands the pointer and the field it got to a typed        *)
(* accessor.  The program here does so without looking at either first     *)
(* (README.md tests "target && leaf"; the accessors are to be safe         *)
(* without it), and keeps using an old pair after later calls.             *)
(***************************************************************************)
EXTENDS Registry

CONSTANTS Members, ElemType, Boot, Values, MaxCopy, NoSrc, CarefulReaders,
          Roots, Paths, NameLen, BufLen

VARIABLES mem, res, rd, wr,
          pc, call, tokens, k, inst, meta, leaf, target, aindex, info,
          asked     \* what the last lookup was asked: <<base, path>>

memVars == <<mem, res, rd, wr>>
pathVars == <<pc, call, tokens, k, inst, meta, leaf, target, aindex, info>>
vars == <<memVars, pathVars, asked>>

Access == INSTANCE FieldAccess
Path == INSTANCE PathResolve
Promise == INSTANCE PathLookup

\* The constants are what the two components take them to be.
ASSUME ClientAssumption ==
    Access!AccessAssumption /\ Access!DynamicAssumption /\ Path!PathAssumption

Init == Access!Init /\ Path!Init /\ asked = <<>>

\* The typed accessors, on the caller's current pair.
Pair == <<target, "", leaf>>

Lookup(base, path) ==
    /\ \/ Path!CallExt(base, path)
       \/ Path!CallPlain(base, path)
       \/ Path!QueryFast(base, path)
       \/ Path!QuerySlow(base, path)
    /\ asked' = <<base, path>>
    /\ res' = "OK" /\ rd' = {} /\ wr' = {}      \* no accessor called since
    /\ UNCHANGED mem

Walk == Path!Step /\ UNCHANGED <<memVars, asked>>

Accessing == pc = "idle" /\ UNCHANGED <<pathVars, asked>>

Set(T, src) == Accessing /\ Access!SetField(T, Pair, src)

SetArr(T, src, n) == Accessing /\ Access!SetFieldArr(T, Pair, src, n)

SafeSet(src, n) == Accessing /\ Access!SafeSetField(Pair, src, n)

Get(T) == Accessing /\ Access!GetField(T, Pair)

\* README.md and the header: ask with _ext, then read the element
GetElem(T) ==
    Accessing /\ aindex >= 0 /\ Access!GetFieldElem(T, Pair, aindex)

Next ==
    \/ \E base \in Roots, path \in Paths : Lookup(base, path)
    \/ Walk
    \/ \E T \in Access!ScalarTypes :
          \/ \E src \in Access!SourcesFor(T) : Set(T, src)
          \/ Get(T)
    \/ \E T \in Access!ArrayTypes :
          \/ \E src \in Access!DataSources, n \in Access!Counts : SetArr(T, src, n)
          \/ GetElem(T)
    \/ \E src \in Access!DataSources, n \in Access!Counts : SafeSet(src, n)

Spec == Init /\ [][Next]_vars

-----------------------------------------------------------------------------
(* Properties                                                              *)

\* Every path fits in the buffer.  What a longer one denotes is cut off, and
\* then the call answers for what is left.
PathsFit == \A path \in Paths : Path!Buffer(path) = path

\* The views the last path asked for denotes: none when it denotes nothing.
Asked == IF asked = <<>> THEN {} ELSE Promise!Answers(asked[1], asked[2])

\* What an accessor touches is what the last path asked for: the cells it
\* reads or writes lie in the member that path denotes, and after a path
\* that denotes nothing no accessor touches anything, stale leaf or not.
AccessHitsTheAskedMember ==
    [][<<rd, wr>>' # <<rd, wr>> /\ rd' \cup wr' # {}
          => \E v \in Asked : rd' \cup wr' \subseteq Extent(v)]_vars

\* An element read through resolve_field_path_ext and its index is the
\* element the path names.
ElementIsTheOneAsked ==
    [][\A T \in Access!ArrayTypes :
          GetElem(T) /\ res' = "OK" =>
             \E v \in Asked :
                LET i == asked[2][Len(asked[2])].index
                IN  rd' = Span(v[1][1] + v[2].offset + i * ElemSize(v[2]),
                               ElemSize(v[2]))]_vars
=============================================================================
