----------------------------- MODULE PathLookup -----------------------------
(***************************************************************************)
(* What a path lookup promises, with no walk: a call gives the member that *)
(* the path denotes, in the instance that holds it, or NULL when the path  *)
(* denotes nothing.  PathResolve implements this.                          *)
(***************************************************************************)
EXTENDS Registry

CONSTANTS Roots, Paths

VARIABLES pc, call, leaf, target, aindex, info

vars == <<pc, call, leaf, target, aindex, info>>

NoCall == [api |-> "none", base |-> <<NULL, "">>, path |-> <<>>]

\* The member seg names in instances of type t, its index being in bounds.
\* A negative index counts as none.
Names(t, seg, f) ==
    /\ f \in FieldsOf(t)
    /\ f = FindField(t, seg.name)
    /\ seg.index < f.count

\* Instance q is the element of instance o that seg names.
IsElement(o, seg, q) ==
    \E f \in FieldsOf(o[2]) :
        /\ Names(o[2], seg, f)
        /\ HasMetadata(f.type)
        /\ LET i == IF seg.index < 0 THEN 0 ELSE seg.index
           IN  q = <<o[1] + f.offset + i * ElemSize(f), StructOf[f.type]>>

\* path, read from the instance base, denotes member f of instance o.
Denotes(base, path, o, f) ==
    \E chain \in [DOMAIN path -> Objects] :
        /\ chain[1] = base
        /\ \A k \in DOMAIN path \ {Len(path)} :
              IsElement(chain[k], path[k], chain[k + 1])
        /\ o = chain[Len(path)]
        /\ Names(o[2], path[Len(path)], f)

Answers(base, path) == {v \in Views : Denotes(base, path, v[1], v[2])}

-----------------------------------------------------------------------------
Init ==
    /\ pc = "idle"
    /\ call = NoCall
    /\ leaf = NoField /\ target = NULL /\ aindex = -1
    /\ info = NoField

Fresh == aindex' = -1 /\ info' = NoField

Ask(api, base, path) ==
    /\ pc = "idle"
    /\ pc' = "loop"
    /\ call' = [api |-> api, base |-> base, path |-> path]
    /\ Fresh
    /\ UNCHANGED <<leaf, target>>

\* Exactly one view is denoted: the walk is a function of the path.
Give(v) ==
    IF call.api = "metadata"
    THEN info' = v[2] /\ UNCHANGED <<leaf, target, aindex>>
    ELSE /\ leaf' = v[2]
         /\ target' = v[1][1]
         /\ aindex' = IF call.api = "ext"
                      THEN call.path[Len(call.path)].index ELSE aindex
         /\ UNCHANGED info

GiveNothing ==
    IF call.api = "metadata"
    THEN info' = NoField /\ UNCHANGED <<leaf, target, aindex>>
    ELSE target' = NULL /\ UNCHANGED <<leaf, aindex, info>>

Reply ==
    /\ pc = "loop"
    /\ pc' = "idle"
    /\ call' = NoCall
    /\ LET found == Answers(call.base, call.path)
       IN  IF found = {} THEN GiveNothing ELSE \A v \in found : Give(v)

\* A name without dots or brackets is answered in the call itself.
AnswerName(base, path) ==
    /\ pc = "idle"
    /\ UNCHANGED <<pc, call>>
    /\ Fresh
    /\ Len(path) = 1 /\ ~path[1].bracket
    /\ LET found == Answers(base, path)
       IN  IF found = {} THEN target' = NULL /\ leaf' = NoField
           ELSE \A v \in found : target' = v[1][1] /\ leaf' = v[2]

AnswerNull ==
    /\ pc = "idle"
    /\ UNCHANGED <<pc, call, leaf>>
    /\ Fresh
    /\ target' = NULL

Next ==
    \/ \E base \in Roots, path \in Paths :
          \/ \E api \in {"ext", "plain", "metadata", "query"} : Ask(api, base, path)
          \/ AnswerName(base, path)
    \/ AnswerNull
    \/ Reply

Spec == Init /\ [][Next]_vars
=============================================================================
