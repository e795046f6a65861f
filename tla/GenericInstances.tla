-------------------------- MODULE GenericInstances ---------------------------
(***************************************************************************)
(* type_make_generic and expand_type of src/src/dotnet/types.c 850-980:    *)
(* threads ask a generic definition for its instance over an argument      *)
(* list. Under the definition's monitor the chain NextGenericInstance is   *)
(* searched for an instance with the same arguments (pointer equality);    *)
(* if none, a new instance is built: its fields and method signatures are  *)
(* expanded (a generic parameter becomes its argument, any other type      *)
(* stays), its BaseType is expand_type of the new instance's own,          *)
(* still NULL, BaseType, and it is linked at the head of the chain only    *)
(* when no argument is itself a generic parameter.                         *)
(*                                                                         *)
(* A type is a name. Params are the generic parameters, Params[i] having   *)
(* GenericParameterPosition i - 1. Def is the definition's record: its     *)
(* arity, BaseType and the types of its fields and method signatures.      *)
(* Instances are the indices of insts.                                     *)
(***************************************************************************)
EXTENDS Naturals, Sequences, FiniteSets

CONSTANTS
    Threads,   \* threads calling type_make_generic, once each
    DefName,   \* the generic definition
    Def,       \* [arity, base, members]: its BaseType and member types
    Params,    \* <<"!0", "!1", ...>>: the generic parameters by position
    Args,      \* the argument lists the calls pass
    NoThread,  \* the owner of a free monitor
    NullType,  \* the NULL System_Type
    BaseOf     \* BaseType of the non-generic classes

ASSUME \A a \in Args : Len(a) = Def.arity

VARIABLES
    req,    \* the argument list of each thread's call
    pc,     \* where each thread is in its call
    owner,  \* the holder of the definition's monitor
    chain,  \* NextGenericInstance, from the definition on
    insts,  \* the instances built: [args, base, members, declaring]
    res     \* the instance a call returned

vars == <<req, pc, owner, chain, insts, res>>

IsParam(T) == \E i \in DOMAIN Params : Params[i] = T

\* real_instance: no argument is a generic parameter (types.c 884-890).
RealInstance(args) == \A i \in DOMAIN args : ~IsParam(args[i])

\* expand_type of a type that is not a generic definition (types.c
\* 892-897): NULL stays NULL, a generic parameter becomes its argument,
\* any other type stays.
ExpandOther(T, args) ==
    IF T # NullType /\ IsParam(T)
    THEN args[CHOOSE i \in DOMAIN Params : Params[i] = T]
    ELSE T

Goto(t, from, to) == pc[t] = from /\ pc' = [pc EXCEPT ![t] = to]

Init ==
    /\ req \in [Threads -> Args]
    /\ pc = [t \in Threads |-> "enter"]
    /\ owner = NoThread
    /\ chain = <<>>
    /\ insts = <<>>
    /\ res = [t \in Threads |-> 0]

\* monitor_enter(type).
MonitorEnter(t) ==
    /\ owner = NoThread
    /\ Goto(t, "enter", "lookup")
    /\ owner' = t
    /\ UNCHANGED <<req, chain, insts, res>>

\* Mutant: the search looks at the head of the chain only.
FoundAtHead(args, c) ==
    IF c # <<>> /\ insts[c[1]].args = args THEN c[1] ELSE 0

\* The first instance on the chain with the same arguments, or 0.
Found(args, c) ==
    IF \E j \in DOMAIN c : insts[c[j]].args = args
    THEN c[CHOOSE j \in DOMAIN c : insts[c[j]].args = args /\
                                  \A j2 \in 1 .. j - 1 : insts[c[j2]].args # args]
    ELSE 0

\* The search of the chain (types.c 902-922): found, monitor_exit and
\* return it.
Lookup(t) ==
    /\ IF Found(req[t], chain) # 0
       THEN Goto(t, "lookup", "exit") /\ res' = [res EXCEPT ![t] = Found(req[t], chain)]
       ELSE Goto(t, "lookup", "create") /\ UNCHANGED res
    /\ UNCHANGED <<req, owner, chain, insts>>

\* expand_field and expand_method: each field type, return type and
\* parameter type of the definition's members, expanded.
ExpandMembers(args) == [i \in DOMAIN Def.members |-> ExpandOther(Def.members[i], args)]

\* The new instance (types.c 925-966): GC_NEW leaves its BaseType NULL, so
\* expand_type(instance->BaseType) is NULL; expand_field and expand_method
\* give each member the definition as DeclaringType.
NewInstance(args) ==
    [args      |-> args,
     base      |-> ExpandOther(NullType, args),
     members   |-> ExpandMembers(args),
     declaring |-> DefName]

\* Mutant: the call returns the index the instance had before its append.
CreateOffByOne(t) ==
    /\ Goto(t, "create", "exit")
    /\ insts' = Append(insts, NewInstance(req[t]))
    /\ chain' = IF RealInstance(req[t]) THEN <<Len(insts) + 1>> \o chain ELSE chain
    /\ res' = [res EXCEPT ![t] = Len(insts)]
    /\ UNCHANGED <<req, owner>>

Create(t) ==
    LET i == Len(insts) + 1 IN
    /\ Goto(t, "create", "exit")
    /\ insts' = Append(insts, NewInstance(req[t]))
    /\ chain' = IF RealInstance(req[t]) THEN <<i>> \o chain ELSE chain
    /\ res' = [res EXCEPT ![t] = i]
    /\ UNCHANGED <<req, owner>>

\* monitor_exit(type) and return.
MonitorExit(t) ==
    /\ Goto(t, "exit", "done")
    /\ owner' = NoThread
    /\ UNCHANGED <<req, chain, insts, res>>

Finished ==
    /\ \A t \in Threads : pc[t] = "done"
    /\ UNCHANGED vars

Thread(t) == MonitorEnter(t) \/ Lookup(t) \/ Create(t) \/ MonitorExit(t)

Next == (\E t \in Threads : Thread(t)) \/ Finished

\* Each thread is an OS thread that keeps being scheduled; it waits on the
\* monitor only while the others, one call each, hold it.
Spec == Init /\ [][Next]_vars /\ \A t \in Threads : WF_vars(Thread(t))

\* The walk of ldfld, stfld and ldflda (jit.c 2826-2830, 2655, 2916): from
\* the object's type along BaseType until NULL or the field's
\* DeclaringType; whether the latter is reached. Past the instance the
\* types are the named non-generic classes.
RECURSIVE BaseWalkReaches(_, _)
BaseWalkReaches(base, declaring) ==
    CASE base = NullType  -> FALSE
      [] base = declaring -> TRUE
      [] OTHER            -> BaseWalkReaches(BaseOf[base], declaring)

\* The walk from instance i, which is a different object from its
\* definition, goes on at the instance's BaseType.
FieldOwnerReached(i, declaring) == BaseWalkReaches(insts[i].base, declaring)

TypeOK ==
    /\ req \in [Threads -> Args]
    /\ pc \in [Threads -> {"enter", "lookup", "create", "exit", "done"}]
    /\ owner \in Threads \cup {NoThread}
    /\ \A j \in DOMAIN chain : chain[j] \in DOMAIN insts
    /\ \A t \in Threads : pc[t] \in {"exit", "done"} => res[t] \in DOMAIN insts

\* spec.md section 5: generic instantiations are appended to the
\* definition's instance chain under its monitor, so that a type over
\* given arguments is one object (the verifier and the JIT compare types
\* by pointer). However calls interleave and whatever the chain holds
\* already, two calls with the same arguments, none of them a generic
\* parameter, return the same instance.
UniqueInstance ==
    \A t1, t2 \in Threads :
        /\ pc[t1] = "done" /\ pc[t2] = "done"
        /\ req[t1] = req[t2] /\ RealInstance(req[t1])
        => res[t1] = res[t2]

\* spec.md sections 1 and 4.2: generic instantiation is correct. An
\* instance's parent is its definition's parent with the arguments put in
\* (what expand_type(instance->BaseType, ...) at types.c:951 is meant to
\* give), and a member of an instance can be used on a value of that
\* instance type (a local, argument or field declared G<Int32>): the walk
\* of ldfld and stfld from the instance reaches the member's DeclaringType.
InstanceWellFormed ==
    \A i \in DOMAIN insts :
        /\ insts[i].base = ExpandOther(Def.base, insts[i].args)
        /\ FieldOwnerReached(i, insts[i].declaring)
=============================================================================
