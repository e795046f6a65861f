--------------------------- MODULE DerivativeCache ---------------------------
(***************************************************************************)
(* get_array_type and get_by_ref_type of src/src/dotnet/types.c 232-327:   *)
(* threads of compiled code ask a type for its array or by-ref derivative. *)
(* The derivative is looked up without the type's monitor first, then      *)
(* again under it, and if still absent it is allocated, filled, and        *)
(* published into the type's ArrayType or ByRefType field before           *)
(* monitor_exit. The first, unlocked read races with the publishing        *)
(* stores of another thread.                                               *)
(*                                                                         *)
(* Memory: a thread's stores go to its store buffer buf[t] and become      *)
(* visible in mem (the cache fields) and objs (the allocated derivatives)  *)
(* by Drain steps. StoreOrder "fifo" drains in program order (x86-64's     *)
(* TSO, with the GC_UPDATE calls as compiler barriers); "any" drains in    *)
(* any order (a weakly ordered machine: the code has no release barrier    *)
(* between the field stores and the publishing store). monitor_exit is a   *)
(* release: it waits for the buffer to drain.                              *)
(***************************************************************************)
EXTENDS Naturals, Sequences, FiniteSets

CONSTANTS
    Threads,     \* threads of compiled code, each making one call
    Types,       \* the non-by-ref types the calls are made on
    StoreOrder,  \* "fifo" | "any"
    NoThread     \* the owner of a free monitor

ASSUME StoreOrder \in {"fifo", "any"} /\ NoThread \notin Threads

\* get_array_type and get_by_ref_type.
Kinds    == {"array", "byref"}
Requests == [kind : Kinds, type : Types]

\* The NULL System_Type; derivatives are the indices 1.. of objs.
NoObj == 0

VARIABLES
    req,    \* the call each thread makes
    pc,     \* where each thread is in its call
    owner,  \* the holder of each type's monitor
    mem,    \* the ArrayType / ByRefType field of each type, as visible
    objs,   \* the allocated derivatives: [kind, of, filled], as visible
    buf,    \* each thread's stores not yet visible
    res     \* the value a call returned

vars == <<req, pc, owner, mem, objs, buf, res>>

\* Mutant: the field read is ArrayType whichever the call.
FieldArrayOnly(t) == mem[req[t].type]["array"]

Field(t) == mem[req[t].type][req[t].kind]

Goto(t, from, to) == pc[t] = from /\ pc' = [pc EXCEPT ![t] = to]

Init ==
    /\ req \in [Threads -> Requests]
    /\ pc = [t \in Threads |-> "read1"]
    /\ owner = [T \in Types |-> NoThread]
    /\ mem = [T \in Types |-> [k \in Kinds |-> NoObj]]
    /\ objs = <<>>
    /\ buf = [t \in Threads |-> <<>>]
    /\ res = [t \in Threads |-> NoObj]

\* "if (type->ArrayType != NULL) return type->ArrayType;" without the
\* monitor. A racy read of an aligned pointer sees NULL or a published value.
ReadUnlocked(t) ==
    /\ IF Field(t) # NoObj
       THEN Goto(t, "read1", "done") /\ res' = [res EXCEPT ![t] = Field(t)]
       ELSE Goto(t, "read1", "enter") /\ UNCHANGED res
    /\ UNCHANGED <<req, owner, mem, objs, buf>>

\* monitor_enter(type): waits while another thread holds the monitor.
MonitorEnter(t) ==
    /\ owner[req[t].type] = NoThread
    /\ Goto(t, "enter", "read2")
    /\ owner' = [owner EXCEPT ![req[t].type] = t]
    /\ UNCHANGED <<req, mem, objs, buf, res>>

\* Mutant: no second check under the monitor.
ReadLockedSkipsRecheck(t) ==
    /\ Goto(t, "read2", "alloc")
    /\ UNCHANGED <<req, owner, mem, objs, buf, res>>

\* Mutant: the found path returns without monitor_exit.
ReadLockedKeepsMonitor(t) ==
    /\ IF Field(t) # NoObj THEN Goto(t, "read2", "reread") ELSE Goto(t, "read2", "alloc")
    /\ UNCHANGED <<req, owner, mem, objs, buf, res>>

\* The second check under the monitor; found: monitor_exit and return.
ReadLocked(t) ==
    /\ IF Field(t) # NoObj THEN Goto(t, "read2", "exit") ELSE Goto(t, "read2", "alloc")
    /\ UNCHANGED <<req, owner, mem, objs, buf, res>>

\* The stores of a new derivative in program order: its fields (GC_NEW,
\* Name, BaseType or ElementType, sizes, vtable) and then the publishing
\* GC_UPDATE(type, ArrayType, ArrayType).
\* Mutant: the publishing store comes before the field stores.
BuildStoresPublishFirst(o) == <<[to |-> "field", obj |-> o], [to |-> "fill", obj |-> o]>>

BuildStores(o) == <<[to |-> "fill", obj |-> o], [to |-> "field", obj |-> o]>>

\* Allocate, fill and publish the derivative (types.c 244-280 and 296-322).
Build(t) ==
    /\ Goto(t, "alloc", "exit")
    /\ objs' = Append(objs, [kind |-> req[t].kind, of |-> req[t].type, filled |-> FALSE])
    /\ buf' = [buf EXCEPT ![t] = @ \o BuildStores(Len(objs) + 1)]
    /\ UNCHANGED <<req, owner, mem, res>>

\* monitor_exit(type), a release: the thread's stores are visible first.
MonitorExit(t) ==
    /\ buf[t] = <<>>
    /\ Goto(t, "exit", "reread")
    /\ owner' = [owner EXCEPT ![req[t].type] = NoThread]
    /\ UNCHANGED <<req, mem, objs, buf, res>>

\* "return type->ArrayType;" after monitor_exit reads the field again.
Return(t) ==
    /\ Goto(t, "reread", "done")
    /\ res' = [res EXCEPT ![t] = Field(t)]
    /\ UNCHANGED <<req, owner, mem, objs, buf>>

\* The pending stores of t that may become visible next.
Drainable(t) == IF StoreOrder = "fifo" THEN {1} ELSE DOMAIN buf[t]

\* Mutant: get_by_ref_type publishes into ArrayType.
DrainIntoArrayField(t) ==
    \E i \in Drainable(t) \cap DOMAIN buf[t] :
        LET s == buf[t][i] IN
        /\ IF s.to = "fill"
           THEN objs' = [objs EXCEPT ![s.obj].filled = TRUE] /\ UNCHANGED mem
           ELSE mem' = [mem EXCEPT ![req[t].type]["array"] = s.obj] /\ UNCHANGED objs
        /\ buf' = [buf EXCEPT ![t] = SubSeq(@, 1, i - 1) \o SubSeq(@, i + 1, Len(@))]
        /\ UNCHANGED <<req, pc, owner, res>>

\* One pending store of thread t becomes visible to every thread.
Drain(t) ==
    \E i \in Drainable(t) \cap DOMAIN buf[t] :
        LET s == buf[t][i] IN
        /\ IF s.to = "fill"
           THEN objs' = [objs EXCEPT ![s.obj].filled = TRUE] /\ UNCHANGED mem
           ELSE mem' = [mem EXCEPT ![req[t].type][req[t].kind] = s.obj] /\ UNCHANGED objs
        /\ buf' = [buf EXCEPT ![t] = SubSeq(@, 1, i - 1) \o SubSeq(@, i + 1, Len(@))]
        /\ UNCHANGED <<req, pc, owner, res>>

\* Every call has returned: the program goes on without these threads.
Finished ==
    /\ \A t \in Threads : pc[t] = "done"
    /\ UNCHANGED vars

\* The steps of a thread's call.
Thread(t) ==
    \/ ReadUnlocked(t) \/ MonitorEnter(t) \/ ReadLocked(t) \/ Build(t)
    \/ MonitorExit(t) \/ Return(t)

Next == (\E t \in Threads : Thread(t) \/ Drain(t)) \/ Finished

\* Threads are OS threads, so each keeps being scheduled, and a store
\* buffer drains. A thread waiting on a monitor gets it once the other
\* threads, each making one call, are done with it, so weak fairness of
\* every thread is enough.
Fairness == \A t \in Threads : WF_vars(Thread(t)) /\ WF_vars(Drain(t))

Spec == Init /\ [][Next]_vars /\ Fairness

TypeOK ==
    /\ req \in [Threads -> Requests]
    /\ pc \in [Threads -> {"read1", "enter", "read2", "alloc", "exit", "reread", "done"}]
    /\ owner \in [Types -> Threads \cup {NoThread}]
    /\ mem \in [Types -> [Kinds -> {NoObj} \cup DOMAIN objs]]
    /\ \A t \in Threads : pc[t] = "done" => res[t] \in DOMAIN objs

\* The derivatives allocated for type T and kind k.
Allocated(T, k) == {o \in DOMAIN objs : objs[o].of = T /\ objs[o].kind = k}

\* spec.md section 3, type invariant (d): the ArrayType and ByRefType derivatives
\* are unique per type. However the calls of get_array_type/get_by_ref_type
\* on one type interleave, every call returns the same derivative, and no
\* other one is ever allocated for that type.
UniqueDerivative ==
    \A t \in Threads :
        pc[t] = "done" => Allocated(req[t].type, req[t].kind) = {res[t]}

\* spec.md section 5 (ordering guarantees): a reader of the double-checked cache sees the derivative's
\* pointer only after all its fields are populated. A call, whether it read
\* the field without the monitor or under it, returns a derivative whose
\* fields it sees filled.
ReturnedFilled ==
    \A t \in Threads : pc[t] = "done" => objs[res[t]].filled

\* Every call of get_array_type/get_by_ref_type returns: no thread waits
\* forever on a type's monitor.
EveryCallReturns == \A t \in Threads : <>(pc[t] = "done")

\* The derivative a field makes visible: the one it points to, once that
\* derivative's fields are visible too; an unfilled one does not yet exist
\* for a caller.
Visible(T, k) ==
    IF mem[T][k] # NoObj /\ objs[mem[T][k]].filled THEN mem[T][k] ELSE NoObj

Abstract == INSTANCE AtomicDerivative WITH
    Objects    <- 1 .. Cardinality(Threads),
    done       <- [t \in Threads |-> pc[t] = "done"],
    derivative <- [T \in Types |-> [k \in Kinds |-> Visible(T, k)]]

\* The double-checked lookup implements the atomic cache of AtomicDerivative:
\* each derivative appears once, complete, on a pending call's demand, and
\* every call returns it; the visible publication of the field is the
\* derivative's creation and a call's return its Return.
ImplementsAtomicDerivative == Abstract!Spec
=============================================================================
