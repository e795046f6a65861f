---------------------------- MODULE MCJitMethod ----------------------------
(***************************************************************************)
(* Instantiates JitMethod for TLC: the types of a small assembly, the      *)
(* locals of the method, its exception clause tables and the instruction   *)
(* sets the bodies are made of.                                            *)
(***************************************************************************)
EXTENDS JitMethod

\* A type's kind, BaseType, ElementType, InterfaceImpls and abstract flag.
Cls(b)  == [kind |-> "class", base |-> b, elem |-> NullType, impls |-> {}, abstract |-> FALSE]
Prim(k) == [kind |-> k, base |-> "ValueType", elem |-> NullType, impls |-> {}, abstract |-> FALSE]
Iface   == [kind |-> "interface", base |-> NullType, elem |-> NullType, impls |-> {}, abstract |-> TRUE]
Arr(e)  == [kind |-> "array", base |-> "Array", elem |-> e, impls |-> {}, abstract |-> FALSE]
Ref(t)  == [kind |-> "byref", base |-> t, elem |-> NullType, impls |-> {}, abstract |-> FALSE]

MCTypes ==
    [Object |-> Cls(NullType), ValueType |-> Cls("Object"), Array |-> Cls("Object"),
     String |-> Cls("Object"), Exception |-> Cls("Object"),
     IOException |-> Cls("Exception"), NullReferenceException |-> Cls("Exception"),
     OutOfMemoryException |-> Cls("Exception"), DivideByZeroException |-> Cls("Exception"),
     InvalidCastException |-> Cls("Exception"), IndexOutOfRangeException |-> Cls("Exception"),
     IFoo |-> Iface, Foo |-> [Cls("Object") EXCEPT !.impls = {"IFoo"}],
     Boolean |-> Prim("int"), SByte |-> Prim("int"), Int32 |-> Prim("int"), Int64 |-> Prim("int"),
     IntPtr |-> Prim("int"), UIntPtr |-> Prim("int"), Single |-> Prim("float"), Double |-> Prim("float")]
    @@ ("Object[]" :> Arr("Object")) @@ ("String[]" :> Arr("String")) @@ ("Int32[]" :> Arr("Int32"))
    @@ ("Object&" :> Ref("Object")) @@ ("String&" :> Ref("String")) @@ ("Int32&" :> Ref("Int32"))

\* local 0: object, local 1: string, local 2: object[].
MCLocals == <<"Object", "String", "Object[]">>

I(op, arg) == [op |-> op, arg |-> arg]

\* Methods the bodies call: DeclaringType, parameters, return type, flags.
Method(d, ps, r, static, virtual, ctor) ==
    [decl |-> d, params |-> ps, ret |-> r, static |-> static, virtual |-> virtual,
     abstract |-> FALSE, ctor |-> ctor]
\* Foo::.ctor() and static void UseUnsigned(native unsigned int).
FooCtor        == Method("Foo", <<>>, "void", FALSE, FALSE, TRUE)
UseUnsigned    == Method("Foo", <<"UIntPtr">>, "void", TRUE, FALSE, FALSE)
Ops(ops) == {I(op, 0) : op \in ops}
Targets(ops, ts) == {I(op, t) : op \in ops, t \in ts}

\* Straight-line code, conversions and branches, no exception clauses; a
\* switch to 2 and 4; br and brtrue to 0 (back), 2 and 4 (forward), beq to 4.
StackInstrs ==
    Ops({"ldc_i4", "ldnull", "ldstr", "dup", "pop", "add", "div", "neg", "conv_u8", "ceq", "ret"})
    \cup {I("ldloc", 0), I("ldloc", 3), I("stloc", 1), I("switch", <<2, 4>>)}
    \cup Targets({"br", "brtrue"}, {0, 2, 4}) \cup {I("beq", 4)}

\* Exception handling: a try at 0..3 whose catch handler is 4, inside a
\* try at 0..4 whose finally is 5; clauses inner first, as ECMA-335
\* orders them. castclass throws InvalidCastException into them; the array
\* code (ldloc.2 of object[], ldc.i4, ldstr, newarr int32, ldlen,
\* ldelem.ref, ldelema, stelem.ref, box) and the calls (call UseUnsigned,
\* newobj Foo) NullReferenceException, IndexOutOfRangeException and
\* OutOfMemoryException. br 0 enters the try from outside; leave exits
\* to the catch handler's offset or past the finally.
Catch(t, tl, h, hl, ty) ==
    [Flags |-> "catch", TryOffset |-> t, TryLength |-> tl,
     HandlerOffset |-> h, HandlerLength |-> hl, CatchType |-> ty]
Finally(t, tl, h, hl) ==
    [Flags |-> "finally", TryOffset |-> t, TryLength |-> tl,
     HandlerOffset |-> h, HandlerLength |-> hl, CatchType |-> NullType]

NoClauses == <<>>

NestedClauses == <<Catch(0, 4, 4, 1, "Exception"), Finally(0, 5, 5, 1)>>

EhInstrs ==
    Ops({"ldnull", "ldstr", "throw", "endfinally", "ret"}) \cup {I("castclass", "String")}
    \cup {I("br", 0)} \cup Targets({"leave"}, {4, 6})
    \cup Ops({"ldc_i4", "ldlen"})
    \cup {I("ldloc", 2), I("ldelem", NullType), I("stelem", NullType), I("newarr", "Int32")}
    \cup {I("ldelema", "Object"), I("box", "Int32")}
    \cup {I("call", UseUnsigned), I("newobj", FooCtor)}

\* One try at 0..1 with a finally at 2.
SingleFinally == <<Finally(0, 2, 2, 1)>>

\* An object thrown from a try of catch (Exception) as static type Object:
\* ldloc.0; throw; pop; leave 4; ret.
CatchAll == <<Catch(0, 2, 2, 2, "Exception")>>
ThrowObjectInstrs == Ops({"throw", "pop", "ret"}) \cup {I("ldloc", 0), I("leave", 4)}

\* A finally entered only by an exception: ldnull; throw; endfinally; ret.
FinallyInstrs == Ops({"ldnull", "throw", "endfinally", "ret"})

\* A value that reaches offset 5 by a branch as an object and by falling
\* through as a string: ldloc.0; ldc.i4; brtrue 5; pop; ldstr; stloc.1; ret.
JoinInstrs ==
    Ops({"ldc_i4", "ldstr", "pop", "ret"}) \cup {I("ldloc", 0), I("stloc", 1), I("brtrue", 5)}

\* Two leaves from one try, to 3 and to 4.
LeaveInstrs == Ops({"endfinally", "ret"}) \cup Targets({"leave"}, {3, 4})

\* Integer arithmetic, compares and a switch over int32 and native int
\* values: ldc.i4; ldc.i4; div; pop; ret and the like.
ArithInstrs ==
    Ops({"ldc_i4", "conv_i", "add", "div", "neg", "not", "ceq", "pop", "ret"}) \cup {I("switch", <<3>>)}

\* Casts of an object, a string and null: ldloc.0; isinst IFoo;
\* castclass Foo; ret and the like.
CastInstrs ==
    Ops({"ldnull", "ldstr", "pop", "ret"})
    \cup {I("ldloc", 0), I("isinst", "IFoo"), I("castclass", "Foo"), I("unbox_any", "Int32")}
    \cup {I("box", "Int32")}

\* Array code: ldloc.2 (object[]); ldc.i4; ldloc.0; stelem.ref and
\* ldc.i4; newarr int32.
ArrayInstrs == {I("ldloc", 2), I("stelem", NullType), I("newarr", "Int32")}

\* The integer code, the casts and the array code together.
EmittedInstrs == ArithInstrs \cup CastInstrs \cup ArrayInstrs
=============================================================================
