---------------------------- MODULE MCTypeSystem ----------------------------
(***************************************************************************)
(* Checks the verifier relations of TypeSystem over every type table the   *)
(* loader can build from a small program: three classes A, B and C, two  *)
(* interfaces I and J, an enum E and a struct S, beside the well-known     *)
(* types, with the array and by-ref derivatives the relations meet.        *)
(* Each state is one type table; the table never changes.                  *)
(***************************************************************************)
EXTENDS TypeSystem

VARIABLE H

Classes    == {"A", "B", "C"}
Interfaces == {"I", "J"}

Ints      == {"Boolean", "SByte", "Byte", "Int32", "UInt32", "Int64", "IntPtr"}
Arrays    == [ArrA |-> "A", ArrI |-> "I", ArrObject |-> "Object",
              ArrInt32 |-> "Int32", ArrUInt32 |-> "UInt32", ArrBoolean |-> "Boolean"]
ByRefs    == [RefInt32 |-> "Int32", RefSByte |-> "SByte", RefByte |-> "Byte", RefA |-> "A"]
TypeNames == Ints \cup DOMAIN Arrays \cup DOMAIN ByRefs \cup
             {"Double", "Object", "ValueType", "Array", "E", "S"} \cup Classes \cup Interfaces

Ty(k, b, e, i) == [kind |-> k, base |-> b, elem |-> e, impls |-> i]

\* Base classes of A, B and C: every chain of the three, ending at Object.
Bases == {[A |-> "Object", B |-> "Object", C |-> "Object"],
          [A |-> "B", B |-> "Object", C |-> "Object"],
          [A |-> "B", B |-> "C", C |-> "Object"],
          [A |-> "Object", B |-> "A", C |-> "B"]}

\* The interfaces a class or an interface declares: A and B any, C none,
\* J may extend I.
Declared == {d \in [Classes \cup Interfaces -> SUBSET Interfaces] :
                d["C"] = {} /\ d["I"] = {} /\ d["J"] \subseteq {"I"}}

\* The loader lists in InterfaceImpls every interface of the type: those it
\* declares, those of its base class and those the listed interfaces extend
\* (spec.md 4.4 reserves vtable slots for every implemented interface).
RECURSIVE LoaderImpls(_, _, _)
LoaderImpls(base, decl, t) ==
    IF t \notin DOMAIN decl THEN {}
    ELSE decl[t] \cup UNION {LoaderImpls(base, decl, i) : i \in decl[t]}
                 \cup (IF t \in Classes THEN LoaderImpls(base, decl, base[t]) ELSE {})

Table(base, decl, enumOf) ==
    [t \in TypeNames |->
        CASE t \in Ints              -> Ty("int", "ValueType", NullType, {})
          [] t = "Double"            -> Ty("float", "ValueType", NullType, {})
          [] t = "Object"            -> Ty("class", NullType, NullType, {})
          [] t \in {"ValueType", "Array"} -> Ty("class", "Object", NullType, {})
          [] t \in Classes           -> Ty("class", base[t], NullType, LoaderImpls(base, decl, t))
          [] t \in Interfaces        -> Ty("interface", NullType, NullType, LoaderImpls(base, decl, t))
          [] t = "E"                 -> Ty("enum", "ValueType", enumOf, {})
          [] t = "S"                 -> Ty("valuetype", "ValueType", NullType, {})
          [] t \in DOMAIN Arrays     -> Ty("array", "Array", Arrays[t], {})
          [] t \in DOMAIN ByRefs     -> Ty("byref", ByRefs[t], NullType, {})]

Tables == {Table(base, decl, enumOf) : base \in Bases, decl \in Declared,
                                       enumOf \in {"Int32", "Byte"}}

Init == H \in Tables

Next == UNCHANGED H

Spec == Init /\ [][Next]_H

NonByRef == {t \in TypeNames : ~IsByRef(H, t)} \cup {NullType}

VA(T, U) == type_is_verifier_assignable_to(H, T, U)

\* Spec.md section 8, property 1: verifier-assignable-to is transitive. The
\* relation stack_merge, stloc, starg, ret and the call argument checks rely
\* on; a value a local accepts must be accepted wherever the local is. Sources
\* that are by-refs are left to ByRefOnlyToByRef.
VerifierAssignableTransitive ==
    \A T \in NonByRef, U, V \in TypeNames \cup {NullType} :
        VA(T, U) /\ VA(U, V) => VA(T, V)

\* A value verifier-assignable to a type has that type's stack type
\* (spec.md 4.7): stloc, stfld and ret choose their move, convert or
\* block copy from the value's stack type and the destination's layout, so
\* a value of another stack class would be stored in the wrong form. Null is
\* an object reference.
StackKindPreserved ==
    \A T \in NonByRef, U \in TypeNames \cup {NullType} :
        VA(T, U) => StackType(H, T) = StackType(H, U)

\* A by-ref is verifier-assignable only to a by-ref (spec.md 4.5: by-refs are
\* compatible only through pointer-element compatibility), so stloc of a
\* managed pointer into an object local is rejected.
ByRefOnlyToByRef ==
    \A T \in DOMAIN ByRefs, U \in TypeNames :
        VA(T, U) => IsByRef(H, U)
=============================================================================
