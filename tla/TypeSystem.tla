----------------------------- MODULE TypeSystem -----------------------------
(***************************************************************************)
(* The verifier's type relations of src/src/dotnet/types.c, as pure        *)
(* operators over a type table H.                                          *)
(*                                                                         *)
(* A type is named by a string. H maps each name to the fields of its      *)
(* System_Type object that the relations read:                             *)
(*   kind   "int" | "float" | "valuetype" | "enum" | "class" |             *)
(*          "interface" | "array" | "byref"                                *)
(*   base   BaseType: the parent class; for a by-ref type, the referent    *)
(*          (get_by_ref_type stores the referent in BaseType)              *)
(*   elem   ElementType: the element of an array, the underlying type of   *)
(*          an enum                                                        *)
(*   impls  the interface types listed in InterfaceImpls                   *)
(* The well-known types (tSystem_Int32, tSystem_Boolean, ...) are the      *)
(* strings of their names, so the code's pointer tests "T == tSystem_X"    *)
(* become string equalities. The NULL System_Type, which the evaluation    *)
(* stack uses for the type of ldnull, is NullType.                         *)
(***************************************************************************)
EXTENDS FiniteSets

NullType == "null"

\* Kind predicates. types.h is not part of the source; these follow spec.md
\* section 4.7: interfaces, classes and arrays are object references. So is
\* the NULL type: jit_throw CHECKs type_is_object_ref of the NULL type every
\* call site passes it (jit.c:1045, 1263, 3227).
IsEnum(H, T)      == T # NullType /\ H[T].kind = "enum"
IsInterface(H, T) == T # NullType /\ H[T].kind = "interface"
IsArray(H, T)     == T # NullType /\ H[T].kind = "array"
IsByRef(H, T)     == T # NullType /\ H[T].kind = "byref"
IsValueType(H, T) == T # NullType /\ H[T].kind \in {"int", "float", "valuetype", "enum"}
IsObjectRef(H, T) == IF T = NullType THEN TRUE ELSE H[T].kind \in {"class", "interface", "array"}

\* The unsigned types that reduce to the signed type of the same width.
SignedOf == [Byte |-> "SByte", UInt16 |-> "Int16", UInt32 |-> "Int32",
             UInt64 |-> "Int64", UIntPtr |-> "IntPtr"]

\* type_get_stack_type (types.h, not in the source): spec.md 4.7 promotion.
RECURSIVE StackType(_, _)
StackType(H, T) ==
    CASE T = NullType                    -> "O"
      [] IsEnum(H, T)                    -> StackType(H, H[T].elem)
      [] T \in {"Int64", "UInt64"}       -> "Int64"
      [] T \in {"IntPtr", "UIntPtr"}     -> "IntPtr"
      [] H[T].kind = "int"               -> "Int32"
      [] H[T].kind = "float"             -> "Float"
      [] H[T].kind = "valuetype"         -> "ValueType"
      [] IsByRef(H, T)                   -> "Ref"
      [] OTHER                           -> "O"

type_get_underlying_type(H, T) == IF IsEnum(H, T) THEN H[T].elem ELSE T

\* The reduced type of an underlying type V.
ReducedOf(V) == IF V \in DOMAIN SignedOf THEN SignedOf[V] ELSE V

type_get_reduced_type(H, T) == ReducedOf(type_get_underlying_type(H, T))

\* get_by_ref_type returns the one by-ref derivative of T; its uniqueness is
\* what the DerivativeCache module checks.
get_by_ref_type(H, T) == CHOOSE b \in DOMAIN H : IsByRef(H, b) /\ H[b].base = T

\* The verification type of a reduced type R that is not a by-ref.
VerificationOfReduced(R) ==
    CASE R = "Boolean" -> "SByte"
      [] R = "Char"    -> "Int16"
      [] OTHER         -> R

\* For a by-ref R the code recurses on the referent, which get_by_ref_type
\* ASSERTs is not a by-ref (types.c:302), so the recursion is one level:
\* the referent's reduced type, mapped as above.
VerificationOfReducedOrByRef(H, R) ==
    IF IsByRef(H, R)
    THEN get_by_ref_type(H, VerificationOfReduced(type_get_reduced_type(H, H[R].base)))
    ELSE VerificationOfReduced(R)

type_get_verification_type(H, T) ==
    VerificationOfReducedOrByRef(H, type_get_reduced_type(H, T))

IntermediateOf(V) == IF V \in {"SByte", "Int16"} THEN "Int32" ELSE V

type_get_intermediate_type(H, T) == IntermediateOf(type_get_verification_type(H, T))

type_get_direct_base_class(H, T) ==
    CASE IsArray(H, T)                         -> "Array"
      [] IsObjectRef(H, T) \/ IsInterface(H, T) -> "Object"
      [] IsValueType(H, T)                     -> "ValueType"
      [] OTHER                                 -> NullType

type_is_interface_directly_implemented_by(H, I, T) ==
    IsInterface(H, I) /\ I \in H[T].impls

\* Mutant: the walk stops after the first BaseType.
BaseChainOneStep(H, T) ==
    IF H[T].base = NullType THEN {} ELSE {H[T].base}

\* The classes the "Base = Base->BaseType" walk visits, T excluded.
RECURSIVE BaseChain(_, _)
BaseChain(H, T) ==
    IF H[T].base = NullType THEN {}
    ELSE {H[T].base} \cup BaseChain(H, H[T].base)

type_is_pointer_element_compatible_with(H, T, U) ==
    type_get_verification_type(H, T) = type_get_verification_type(H, U)

\* type_is_array_element_compatible_with on the underlying types V and W
\* of two element types, given whether V is compatible with W.
ArrayElementTest(H, V, W, compatible) ==
    compatible \/ type_get_verification_type(H, V) = type_get_verification_type(H, W)

RECURSIVE type_is_compatible_with(_, _, _)

\* The underlying types are passed as arguments, so that each is computed
\* once.
ArrayElementCompatible(H, V, W) ==
    ArrayElementTest(H, V, W, type_is_compatible_with(H, V, W))

type_is_array_element_compatible_with(H, T, U) ==
    ArrayElementCompatible(H, type_get_underlying_type(H, T), type_get_underlying_type(H, U))

\* Mutant: the BaseType walk is done for value types too.
compatible_with_walks_value_types(H, T, U) ==
    \/ T = U
    \/ /\ T # NullType /\ U # NullType
       /\ \/ /\ IsObjectRef(H, T)
             /\ \/ U = type_get_direct_base_class(H, T)
                \/ type_is_interface_directly_implemented_by(H, U, T)
          \/ U \in BaseChain(H, T)
          \/ /\ IsArray(H, T) /\ IsArray(H, U)
             /\ type_is_array_element_compatible_with(H, H[T].elem, H[U].elem)
          \/ /\ IsByRef(H, T) /\ IsByRef(H, U)
             /\ type_is_pointer_element_compatible_with(H, T, U)

type_is_compatible_with(H, T, U) ==
    \/ T = U
    \/ /\ T # NullType /\ U # NullType
       /\ \/ /\ IsObjectRef(H, T)
             /\ \/ U = type_get_direct_base_class(H, T)
                \/ type_is_interface_directly_implemented_by(H, U, T)
          \/ ~IsValueType(H, T) /\ U \in BaseChain(H, T)
          \/ /\ IsArray(H, T) /\ IsArray(H, U)
             /\ type_is_array_element_compatible_with(H, H[T].elem, H[U].elem)
          \/ /\ IsByRef(H, T) /\ IsByRef(H, U)
             /\ type_is_pointer_element_compatible_with(H, T, U)

type_is_assignable_to(H, T, U) ==
    \/ T = U
    \/ type_get_intermediate_type(H, T) = type_get_intermediate_type(H, U)
    \/ type_is_compatible_with(H, T, U)
    \/ T = NullType /\ IsObjectRef(H, U)

\* The test on the verification types T and U of the two types.
VerifiedAssignable(H, T, U) == T = U \/ type_is_assignable_to(H, T, U)

type_is_verifier_assignable_to(H, Q, R) ==
    VerifiedAssignable(H, type_get_verification_type(H, Q), type_get_verification_type(H, R))
=============================================================================
