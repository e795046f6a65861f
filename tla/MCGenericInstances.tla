------------------------- MODULE MCGenericInstances -------------------------
(***************************************************************************)
(* Instantiates GenericInstances for TLC: class G<T> : B, whose members    *)
(* have the types T and Int32, made over Int32, String and over a generic  *)
(* parameter (an open instance, as the signature decoder builds for       *)
(* G<T> inside another generic type) by three threads.                     *)
(***************************************************************************)
EXTENDS GenericInstances

MCThreads == {"t1", "t2", "t3"}
MCDef     == [arity |-> 1, base |-> "B", members |-> <<"!0", "Int32">>]
MCParams  == <<"!0">>
MCArgs    == {<<"Int32">>, <<"String">>, <<"!0">>}
MCBaseOf  == [B |-> "Object", Object |-> NullType]
=============================================================================
