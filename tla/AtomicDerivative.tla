--------------------------- MODULE AtomicDerivative --------------------------
(***************************************************************************)
(* What get_array_type and get_by_ref_type promise their callers (spec.md  *)
(* sections 3 and 5): a type's array or by-ref derivative comes into being *)
(* once, complete, and only when some call asks for it; every call returns *)
(* that one derivative. A derivative is a value of Objects.                *)
(***************************************************************************)
CONSTANTS Threads, Types, Kinds, Objects, NoObj

VARIABLES
    req,         \* the call each thread makes
    done,        \* whether the call has returned
    derivative,  \* each type's derivative of each kind, or NoObj
    res          \* the value a call returned

vars == <<req, done, derivative, res>>

Used == {derivative[T][k] : T \in Types, k \in Kinds}

Init ==
    /\ req \in [Threads -> [kind : Kinds, type : Types]]
    /\ done = [t \in Threads |-> FALSE]
    /\ derivative = [T \in Types |-> [k \in Kinds |-> NoObj]]
    /\ res = [t \in Threads |-> NoObj]

\* The derivative a pending call asks for is created, complete, at once.
Create(T, k) ==
    /\ derivative[T][k] = NoObj
    /\ \E t \in Threads : ~done[t] /\ req[t] = [kind |-> k, type |-> T]
    /\ \E o \in Objects \ Used : derivative' = [derivative EXCEPT ![T][k] = o]
    /\ UNCHANGED <<req, done, res>>

\* A pending call returns the derivative once it exists.
Return(t) ==
    /\ ~done[t]
    /\ derivative[req[t].type][req[t].kind] # NoObj
    /\ done' = [done EXCEPT ![t] = TRUE]
    /\ res' = [res EXCEPT ![t] = derivative[req[t].type][req[t].kind]]
    /\ UNCHANGED <<req, derivative>>

Next ==
    \/ \E T \in Types, k \in Kinds : Create(T, k)
    \/ \E t \in Threads : Return(t)

Spec ==
    /\ Init /\ [][Next]_vars
    /\ \A t \in Threads : WF_vars(Return(t))
    /\ \A T \in Types, k \in Kinds : WF_vars(Create(T, k))
=============================================================================
