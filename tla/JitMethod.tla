------------------------------ MODULE JitMethod ------------------------------
(***************************************************************************)
(* jit_method (src/src/dotnet/jit/jit.c): the single pass that verifies a  *)
(* CIL method body and translates it to MIR, at the level of the abstract  *)
(* evaluation stack.                                                       *)
(*                                                                         *)
(* A stack entry is the pair the code keeps, the System_Type of the value  *)
(* and the MIR register holding it; a register is the number new_reg gives *)
(* it. pc_to_stack_snapshot is snaps, a function from IL offsets to the    *)
(* stack recorded there; a snapshot's MIR label is named by its offset.    *)
(* Every instruction takes one offset, so a branch target is an offset.    *)
(*                                                                         *)
(* The translator reads each instruction once, in order, and never looks   *)
(* ahead, so the model chooses the instruction at il_ptr from Instrs when  *)
(* it is reached: every method body over Instrs is covered. MIR emission   *)
(* is left out; every CHECK that can reject the method is kept.            *)
(***************************************************************************)
EXTENDS Integers, Sequences, FiniteSets, TLC, TypeSystem, MirArithmetic

CONSTANTS
    TT,            \* the type table of the assembly, as in TypeSystem
    IlLength,      \* body->Il->Length
    Locals,        \* the LocalType of each local variable
    ReturnType,    \* method->ReturnType, "void" for none
    MaxStackSize,  \* body->MaxStackSize
    Clauses,       \* body->ExceptionHandlingClauses, in metadata order
    Instrs         \* the instructions a body may contain

Offsets == 0 .. IlLength - 1
NoLabel == -1

VARIABLES
    il_ptr,      \* offset of the instruction being translated
    phase,       \* "head": the loop head runs next; "body": the opcode case
    last_cf,     \* control-flow class of the previous instruction
    stack,       \* ctx->stack.entries
    snaps,       \* ctx->pc_to_stack_snapshot
    name_gen,    \* ctx->name_gen, the last register new_reg created
    chain,       \* clause index -> [endfinally, last_in_chain] of clause_to_label
    status,      \* "translating", "ok" (jit_method returned NO_ERROR) or "failed"
    il,          \* history: the instruction read at each translated offset
    entry,       \* history: the stack each translated offset starts with
    edges        \* history: the control edges emitted, with their stacks

vars == <<il_ptr, phase, last_cf, stack, snaps, name_gen, chain, status, il, entry, edges>>

VA(T, U) == type_is_verifier_assignable_to(TT, T, U)
ST(T)    == StackType(TT, T)
Entry(t, r) == [type |-> t, reg |-> r]

Top(s)    == s[Len(s)]
Popped(s) == SubSeq(s, 1, Len(s) - 1)

InTry(c, o)     == Clauses[c].TryOffset <= o /\ o < Clauses[c].TryOffset + Clauses[c].TryLength
InHandler(c, o) == Clauses[c].HandlerOffset <= o /\ o < Clauses[c].HandlerOffset + Clauses[c].HandlerLength
CatchClauses    == {c \in DOMAIN Clauses : Clauses[c].Flags = "catch"}

\* Mutant: the bound is checked after the push.
CanPushAfter(s) == Len(s) <= MaxStackSize

\* stack_push's CHECK: arrlen < MaxStackSize before the push.
CanPush(s) == Len(s) < MaxStackSize

\* The type stack_merge settles on for one slot, NoType when it CHECK_FAILs.
NoType == "none"
MergedType(T, S) ==
    IF VA(T, S) THEN S ELSE IF VA(S, T) THEN T ELSE NoType

\* Mutant: the depth CHECK is dropped.
stack_merge_any_depth(cur, snapshot, allow_change) ==
    LET U == [i \in 1 .. Len(snapshot) |->
                IF i <= Len(cur) THEN MergedType(cur[i].type, snapshot[i].type) ELSE NoType]
    IN  [ok    |-> /\ \A i \in 1 .. Len(snapshot) : U[i] # NoType
                   /\ allow_change \/ \A i \in 1 .. Len(snapshot) : snapshot[i].type = U[i],
         snap  |-> IF allow_change
                   THEN [i \in 1 .. Len(snapshot) |-> [snapshot[i] EXCEPT !.type = U[i]]]
                   ELSE snapshot]

\* stack_merge(ctx, snapshot, allow_change) with ctx->stack = cur: whether it
\* succeeds and the snapshot it leaves (it writes through the shared entries).
stack_merge(cur, snapshot, allow_change) ==
    LET U == [i \in 1 .. Len(snapshot) |->
                IF i <= Len(cur) THEN MergedType(cur[i].type, snapshot[i].type) ELSE NoType]
    IN  [ok    |-> /\ Len(snapshot) = Len(cur)
                   /\ \A i \in 1 .. Len(snapshot) : U[i] # NoType
                   /\ allow_change \/ \A i \in 1 .. Len(snapshot) : snapshot[i].type = U[i],
         snap  |-> IF allow_change
                   THEN [i \in 1 .. Len(snapshot) |-> [snapshot[i] EXCEPT !.type = U[i]]]
                   ELSE snapshot]

\* Mutant: a backward target's snapshot is widened like a forward one.
resolve_branch_widens_backward(o, t, cur) ==
    IF t \in DOMAIN snaps
    THEN LET m == stack_merge(cur, snaps[t], TRUE)
         IN  [ok |-> m.ok, snaps |-> [snaps EXCEPT ![t] = m.snap]]
    ELSE [ok |-> t >= o, snaps |-> snaps @@ (t :> cur)]

\* jit_resolve_branch: a target at or after the offset is forward and may
\* widen its snapshot or create it; a backward target needs its snapshot
\* and an exact match.
jit_resolve_branch(o, t, cur) ==
    IF t >= o
    THEN IF t \in DOMAIN snaps
         THEN LET m == stack_merge(cur, snaps[t], TRUE)
              IN  [ok |-> m.ok, snaps |-> [snaps EXCEPT ![t] = m.snap]]
         ELSE [ok |-> TRUE, snaps |-> snaps @@ (t :> cur)]
    ELSE [ok |-> t \in DOMAIN snaps /\ stack_merge(cur, snaps[t], FALSE).ok,
          snaps |-> snaps]

\* Mutant: a branch from outside a try may enter it.
RECURSIVE BranchRegionsEnterTry(_, _, _)
BranchRegionsEnterTry(c, o, t) ==
    IF c > Len(Clauses) THEN TRUE
    ELSE IF InTry(c, o) THEN InTry(c, t)
    ELSE IF InHandler(c, o) THEN InHandler(c, t)
    ELSE ~InHandler(c, t) /\ BranchRegionsEnterTry(c + 1, o, t)

\* The clause loop of jit_branch_point: it stops at the first clause whose
\* try or handler holds the source.
RECURSIVE BranchRegionsOk(_, _, _)
BranchRegionsOk(c, o, t) ==
    IF c > Len(Clauses) THEN TRUE
    ELSE IF InTry(c, o) THEN InTry(c, t)
    ELSE /\ ~InTry(c, t)
         /\ IF InHandler(c, o) THEN InHandler(c, t)
            ELSE ~InHandler(c, t) /\ BranchRegionsOk(c + 1, o, t)

jit_branch_point(o, t, cur) ==
    LET r == jit_resolve_branch(o, t, cur)
    IN  [ok |-> BranchRegionsOk(1, o, t) /\ r.ok, snaps |-> r.snaps]

\* Offsets at which only a branch, throw or return may precede: a handler's
\* first offset and the offset after a handler or a try.
RegionBoundary(o) ==
    \E c \in DOMAIN Clauses :
        o \in {Clauses[c].HandlerOffset,
               Clauses[c].HandlerOffset + Clauses[c].HandlerLength,
               Clauses[c].TryOffset + Clauses[c].TryLength}

Init ==
    /\ il_ptr = 0
    /\ phase = "head"
    /\ last_cf = "invalid"
    /\ stack = <<>>
    \* one register per local, then the catch snapshots' registers
    /\ LET catchReg(c) == Len(Locals) + Cardinality({d \in CatchClauses : d <= c})
       IN  /\ snaps = [o \in {Clauses[c].HandlerOffset : c \in DOMAIN Clauses} |->
                         LET cs == {c \in DOMAIN Clauses : Clauses[c].HandlerOffset = o}
                             c  == CHOOSE c \in cs : \A d \in cs : d <= c
                         IN  IF Clauses[c].Flags = "catch"
                             THEN <<Entry(Clauses[c].CatchType, catchReg(c))>>
                             ELSE <<>>]
           /\ name_gen = Len(Locals) + Cardinality(CatchClauses)
    /\ chain = [c \in DOMAIN Clauses |-> [endfinally |-> NoLabel, last_in_chain |-> FALSE]]
    /\ status = "translating"
    /\ il = <<>>
    /\ entry = <<>>
    /\ edges = {}

\* The head of the translation loop (jit.c:1675-1735): after a branch or a
\* throw the stack is the snapshot or empty; an existing snapshot is merged
\* with widening, else one is taken; then the region boundary check.
LoopHead ==
    /\ status = "translating" /\ phase = "head" /\ il_ptr < IlLength
    /\ LET o   == il_ptr
           cur == IF last_cf \in {"branch", "throw"}
                  THEN IF o \in DOMAIN snaps THEN snaps[o] ELSE <<>>
                  ELSE stack
           m   == IF o \in DOMAIN snaps THEN stack_merge(cur, snaps[o], TRUE)
                  ELSE [ok |-> TRUE, snap |-> cur]
           ok  == m.ok /\ (RegionBoundary(o) => last_cf \in {"branch", "throw", "return"})
       IN  \/ /\ ~ok
              /\ status' = "failed"
              /\ UNCHANGED <<il_ptr, phase, last_cf, stack, snaps, name_gen, chain, il, entry, edges>>
           \/ /\ ok
              /\ stack' = cur
              /\ snaps' = IF o \in DOMAIN snaps THEN [snaps EXCEPT ![o] = m.snap]
                          ELSE snaps @@ (o :> cur)
              /\ phase' = "body"
              /\ entry' = entry @@ (o :> cur)
              /\ edges' = IF o > 0 /\ last_cf \notin {"branch", "throw", "return"}
                          THEN edges \cup {[from |-> o - 1, to |-> o, stack |-> cur, kind |-> "next"]}
                          ELSE edges
              /\ UNCHANGED <<il_ptr, last_cf, name_gen, chain, status, il>>
(***************************************************************************)
(* The opcode cases. Each reads one instruction ins from Instrs; a failed *)
(* CHECK ends the translation ("failed"); otherwise the case leaves the    *)
(* stack stk, and cf is the opcode's control-flow class from the table.    *)
(***************************************************************************)
Read(ins) == /\ status = "translating" /\ phase = "body"
             /\ il' = il @@ (il_ptr :> ins)

Fail == /\ status' = "failed"
        /\ UNCHANGED <<il_ptr, phase, last_cf, stack, snaps, name_gen, chain, entry, edges>>

\* The case succeeded: stk is the new stack, k registers were created.
Done(stk, k, cf) ==
    /\ stack' = stk
    /\ name_gen' = name_gen + k
    /\ last_cf' = cf
    /\ il_ptr' = il_ptr + 1
    /\ phase' = "head"
    /\ UNCHANGED status

Branch(t, stk, kind) == [from |-> il_ptr, to |-> t, stack |-> stk, kind |-> kind]

ConstType == [ldc_i4 |-> "Int32", ldc_i8 |-> "Int64", ldc_r8 |-> "Double",
              ldstr |-> "String", ldnull |-> NullType]

\* ldc.*, ldstr and ldnull push a fresh register of their type.
LoadConstant ==
    \E ins \in Instrs : ins.op \in DOMAIN ConstType /\ Read(ins) /\
      \/ ~CanPush(stack) /\ Fail
      \/ /\ CanPush(stack)
         /\ Done(Append(stack, Entry(ConstType[ins.op], name_gen + 1)), 1, "next")
         /\ UNCHANGED <<snaps, chain, entry, edges>>

\* ldloc pushes the intermediate type of the local.
LoadLocal ==
    \E ins \in Instrs : ins.op = "ldloc" /\ Read(ins) /\
      LET ok == ins.arg < Len(Locals) /\ CanPush(stack)
      IN  \/ ~ok /\ Fail
          \/ /\ ok
             /\ Done(Append(stack, Entry(type_get_intermediate_type(TT, Locals[ins.arg + 1]),
                                         name_gen + 1)), 1, "next")
             /\ UNCHANGED <<snaps, chain, entry, edges>>

\* stloc pops a value verifier-assignable to the local's intermediate type.
StoreLocal ==
    \E ins \in Instrs : ins.op = "stloc" /\ Read(ins) /\
      LET ok == /\ Len(stack) > 0
                /\ ins.arg < Len(Locals)
                /\ VA(Top(stack).type, type_get_intermediate_type(TT, Locals[ins.arg + 1]))
      IN  \/ ~ok /\ Fail
          \/ ok /\ Done(Popped(stack), 0, "next") /\ UNCHANGED <<snaps, chain, entry, edges>>

\* dup pops the top and pushes two fresh registers of its type.
Dup ==
    \E ins \in Instrs : ins.op = "dup" /\ Read(ins) /\
      LET ok == Len(stack) > 0 /\ CanPush(stack)
          t  == Top(stack).type
      IN  \/ ~ok /\ Fail
          \/ /\ ok
             /\ Done(Popped(stack) \o <<Entry(t, name_gen + 1), Entry(t, name_gen + 2)>>, 2, "next")
             /\ UNCHANGED <<snaps, chain, entry, edges>>

Pop ==
    \E ins \in Instrs : ins.op = "pop" /\ Read(ins) /\
      \/ Len(stack) = 0 /\ Fail
      \/ Len(stack) > 0 /\ Done(Popped(stack), 0, "next") /\ UNCHANGED <<snaps, chain, entry, edges>>

\* The result type of jit_binary_numeric_operation, NoType when it fails.
BinaryResult(t1, t2, integer_only) ==
    CASE ST(t1) = "Int32"  -> CASE ST(t2) = "Int32" -> "Int32"
                                [] ST(t2) = "IntPtr" -> "IntPtr"
                                [] OTHER -> NoType
      [] ST(t1) = "Int64"  -> IF ST(t2) = "Int64" THEN "Int64" ELSE NoType
      [] ST(t1) = "IntPtr" -> IF ST(t2) \in {"Int32", "IntPtr"} THEN "IntPtr" ELSE NoType
      [] ST(t1) = "Float"  -> CASE integer_only -> NoType
                                [] t1 = "Single" /\ t2 = "Single" -> "Single"
                                [] t1 = "Single" /\ t2 = "Double" -> "Double"
                                [] t1 = "Double" /\ t2 \in {"Single", "Double"} -> "Double"
                                [] OTHER -> NoType
      [] OTHER -> NoType

\* The operand CHECKs of jit_compare and jit_compare_branch; is_eq is
\* whether the code is EQ (ceq) or BEQ/BNE (beq, bne.un).
CompareOk(t1, t2, is_eq) ==
    CASE ST(t1) = "Int32"  -> ST(t2) \in {"Int32", "IntPtr"}
      [] ST(t1) = "Int64"  -> ST(t2) = "Int64"
      [] ST(t1) = "IntPtr" -> ST(t2) \in {"Int32", "IntPtr"}
      [] ST(t1) = "Float"  -> t2 \in {"Single", "Double"}
      [] ST(t1) = "O"      -> /\ ST(t2) = "O" /\ is_eq
                              /\ ~IsInterface(TT, t1) /\ ~IsInterface(TT, t2)
      [] ST(t1) = "Ref"    -> ST(t2) = "Ref"
      [] OTHER             -> FALSE

\* ceq and clt pop two values and push an Int32.
Compare ==
    \E ins \in Instrs : ins.op \in {"ceq", "clt"} /\ Read(ins) /\
      LET ok == /\ Len(stack) >= 2
                /\ CompareOk(stack[Len(stack) - 1].type, Top(stack).type, ins.op = "ceq")
      IN  \/ ~ok /\ Fail
          \/ /\ ok
             /\ Done(Append(SubSeq(stack, 1, Len(stack) - 2), Entry("Int32", name_gen + 1)), 1, "next")
             /\ UNCHANGED <<snaps, chain, entry, edges>>

\* br: jit_branch_point with the whole stack.
Br ==
    \E ins \in Instrs : ins.op = "br" /\ Read(ins) /\
      LET b == jit_branch_point(il_ptr, ins.arg, stack)
      IN  \/ ~b.ok /\ Fail
          \/ /\ b.ok
             /\ snaps' = b.snaps
             /\ edges' = edges \cup {Branch(ins.arg, stack, "branch")}
             /\ Done(stack, 0, "branch")
             /\ UNCHANGED <<chain, entry>>

\* brtrue/brfalse pop the condition, then jit_branch_point; the condition
\* may not be a float or a value type.
BrTrue ==
    \E ins \in Instrs : ins.op = "brtrue" /\ Read(ins) /\
      LET rest == Popped(stack)
          b    == jit_branch_point(il_ptr, ins.arg, rest)
          ok   == Len(stack) > 0 /\ b.ok /\ ST(Top(stack).type) \notin {"Float", "ValueType"}
      IN  \/ ~ok /\ Fail
          \/ /\ ok
             /\ snaps' = b.snaps
             /\ edges' = edges \cup {Branch(ins.arg, rest, "branch")}
             /\ Done(rest, 0, "cond_branch")
             /\ UNCHANGED <<chain, entry>>

\* beq and blt (jit_compare_branch) pop two values, then jit_branch_point,
\* then check the operands.
CompareBranch ==
    \E ins \in Instrs : ins.op \in {"beq", "blt"} /\ Read(ins) /\
      LET rest == SubSeq(stack, 1, Len(stack) - 2)
          b    == jit_branch_point(il_ptr, ins.arg, rest)
          ok   == /\ Len(stack) >= 2 /\ b.ok
                  /\ CompareOk(stack[Len(stack) - 1].type, Top(stack).type, ins.op = "beq")
      IN  \/ ~ok /\ Fail
          \/ /\ ok
             /\ snaps' = b.snaps
             /\ edges' = edges \cup {Branch(ins.arg, rest, "branch")}
             /\ Done(rest, 0, "cond_branch")
             /\ UNCHANGED <<chain, entry>>

\* ret: an empty stack for void, else exactly the return value, verifier-
\* assignable to the return type.
Ret ==
    \E ins \in Instrs : ins.op = "ret" /\ Read(ins) /\
      LET ok == IF ReturnType = "void" THEN Len(stack) = 0
                ELSE /\ Len(stack) = 1
                     /\ VA(Top(stack).type, ReturnType)
      IN  \/ ~ok /\ Fail
          \/ ok /\ Done(<<>>, 0, "return") /\ UNCHANGED <<snaps, chain, entry, edges>>

\* The clauses jit_throw jumps to from offset o for a thrown value of
\* static type T: the first finally whose try holds o, or the first catch
\* whose type T's BaseType chain reaches; for the NULL type every catch
\* around o gets a run-time isinstance test and a jump.
RECURSIVE HandlerSearch(_, _, _)
HandlerSearch(c, o, T) ==
    IF c > Len(Clauses) THEN {}
    ELSE IF ~InTry(c, o) THEN HandlerSearch(c + 1, o, T)
    ELSE IF Clauses[c].Flags = "finally" THEN {c}
    ELSE IF T = NullType THEN {c} \cup HandlerSearch(c + 1, o, T)
    ELSE IF Clauses[c].CatchType \in {T} \cup BaseChain(TT, T) THEN {c}
    ELSE HandlerSearch(c + 1, o, T)

\* jit_jump_to_exception_clause CHECKs that a catch handler's snapshot is
\* the single caught exception.
JumpToClauseOk(c) ==
    Clauses[c].Flags = "catch" =>
        /\ Clauses[c].HandlerOffset \in DOMAIN snaps
        /\ Len(snaps[Clauses[c].HandlerOffset]) = 1
        /\ snaps[Clauses[c].HandlerOffset][1].type = Clauses[c].CatchType

\* The registers jit_throw creates: one temp for the run-time isinstance
\* test when the thrown type is unknown and a catch is visited.
ThrowRegs(o, T) ==
    IF T = NullType /\ \E c \in HandlerSearch(1, o, T) : Clauses[c].Flags = "catch" THEN 1 ELSE 0

OOM == "OutOfMemoryException"

\* jit_new (jit.c 1154-1212): for any type but OutOfMemoryException, a
\* test of gc_new's result and a jit_throw_new(OutOfMemoryException),
\* which is a register, a jit_throw of the unknown type and one of OOM.
JitNewRegs(o, T)    == IF T # OOM THEN 1 + ThrowRegs(o, NullType) ELSE 0
JitNewClauses(o, T) ==
    IF T # OOM THEN HandlerSearch(1, o, NullType) \cup HandlerSearch(1, o, OOM) ELSE {}

\* jit_throw_new(T): a register for the new exception; jit_new, which for
\* any T but OutOfMemoryException emits a jit_throw_new of one; a
\* jit_throw of the unknown type for a throwing constructor; a jit_throw of
\* T. ThrowNewClauses is every clause those jumps target.
ThrowNewRegs(o, T) == 1 + JitNewRegs(o, T) + ThrowRegs(o, NullType)
ThrowNewClauses(o, T) ==
    HandlerSearch(1, o, NullType) \cup HandlerSearch(1, o, T) \cup JitNewClauses(o, T)

\* The registers jit_null_check(o, T) creates: a null type throws a new
\* NullReferenceException; any other must be an object reference, an
\* interface's object is read into a new register, and the null branch
\* throws a new NullReferenceException.
NRE == "NullReferenceException"
NullCheckRegs(o, T) ==
    (IF T # NullType /\ IsInterface(TT, T) THEN 1 ELSE 0) + ThrowNewRegs(o, NRE)

\* throw pops the value and frees the stack, jit_null_check, then
\* jit_throw of the value's static type.
Throw ==
    \E ins \in Instrs : ins.op = "throw" /\ Read(ins) /\
      LET o  == il_ptr
          T  == Top(stack).type
          ok == /\ Len(stack) > 0 /\ IsObjectRef(TT, T)
                /\ \A c \in ThrowNewClauses(o, NRE) \cup HandlerSearch(1, o, T) : JumpToClauseOk(c)
      IN  \/ ~ok /\ Fail
          \/ /\ ok
             /\ Done(<<>>, NullCheckRegs(o, T) + ThrowRegs(o, T), "throw")
             /\ UNCHANGED <<snaps, chain, entry, edges>>

\* add, div (integer_only FALSE) and and (TRUE): jit_binary_numeric_operation
\* (jit.c 1337-1463). It pops two values; div first emits its
\* DivideByZeroException guard, a jit_throw_new whose jumps CHECK the catch
\* snapshots; then the operand CHECKs, and the result's register.
DBZ == "DivideByZeroException"
DivGuardRegs(o, op) == IF op = "div" THEN ThrowNewRegs(o, DBZ) ELSE 0
DivGuardOk(o, op)   == op = "div" => \A c \in ThrowNewClauses(o, DBZ) : JumpToClauseOk(c)

BinaryNumeric ==
    \E ins \in Instrs : ins.op \in {"add", "and", "div"} /\ Read(ins) /\
      LET k == DivGuardRegs(il_ptr, ins.op)
          r == IF Len(stack) >= 2 /\ DivGuardOk(il_ptr, ins.op)
               THEN BinaryResult(stack[Len(stack) - 1].type, Top(stack).type, ins.op = "and")
               ELSE NoType
      IN  \/ r = NoType /\ Fail
          \/ /\ r # NoType
             /\ Done(Append(SubSeq(stack, 1, Len(stack) - 2), Entry(r, name_gen + k + 1)), k + 1, "next")
             /\ UNCHANGED <<snaps, chain, entry, edges>>

\* The result types of conv.i4, conv.u4, conv.i8, conv.u8, conv.i, conv.u.
ConvResult == [conv_i4 |-> "Int32", conv_u4 |-> "Int32", conv_i8 |-> "Int64",
               conv_u8 |-> "Int64", conv_i |-> "IntPtr", conv_u |-> "IntPtr"]

\* conv.* (jit.c 1968-2083): pop the value, push the result type; an
\* object, value type or by-ref operand fails.
Conv ==
    \E ins \in Instrs : ins.op \in DOMAIN ConvResult /\ Read(ins) /\
      LET ok == Len(stack) > 0 /\ ST(Top(stack).type) \in IntTypes \cup {"Float"}
      IN  \/ ~ok /\ Fail
          \/ /\ ok
             /\ Done(Append(Popped(stack), Entry(ConvResult[ins.op], name_gen + 1)), 1, "next")
             /\ UNCHANGED <<snaps, chain, entry, edges>>

\* switch (jit.c 3999-4031): pop the value, of any type; jit_branch_point to
\* every target (ins.arg) with the rest of the stack; then fall through.
\* Each call changes only its own target's snapshot, and all get the same
\* stack, so the order of the calls does not matter.
Switch ==
    \E ins \in Instrs : ins.op = "switch" /\ Read(ins) /\
      LET rest == Popped(stack)
          ts   == {ins.arg[i] : i \in DOMAIN ins.arg}
          b(t) == jit_branch_point(il_ptr, t, rest)
          ok   == Len(stack) > 0 /\ \A t \in ts : b(t).ok
      IN  \/ ~ok /\ Fail
          \/ /\ ok
             /\ snaps' = [x \in DOMAIN snaps \cup ts |-> IF x \in ts THEN b(x).snaps[x] ELSE snaps[x]]
             /\ edges' = edges \cup {Branch(t, rest, "branch") : t \in ts}
             /\ Done(rest, 0, "cond_branch")
             /\ UNCHANGED <<chain, entry>>

\* isinst, castclass and unbox.any T (jit.c 3348-3479). Pop the object;
\* for isinst and castclass T is an object type that is verifier-
\* assignable to the object's type (a downcast); the object's StackType
\* must be O, read through obj_type, which for the NULL type (ldnull) is
\* a null dereference in the translator; push T (register name_gen + 1),
\* a temp for the test's result; castclass and unbox.any add
\* jit_throw_new(InvalidCastException), with its catch-snapshot CHECKs;
\* a by-ref T is CHECK_FAIL.
ICE == "InvalidCastException"
CastOps == {"isinst", "castclass", "unbox_any"}
CastThrowRegs(o, op) == IF op = "isinst" THEN 0 ELSE ThrowNewRegs(o, ICE)
CastThrowOk(o, op) ==
    op # "isinst" => \A c \in ThrowNewClauses(o, ICE) : JumpToClauseOk(c)

Cast ==
    \E ins \in Instrs : ins.op \in CastOps /\ Read(ins) /\
      LET T  == ins.arg
          S  == Top(stack).type
          ok == /\ Len(stack) > 0
                /\ ins.op # "unbox_any" => ST(T) = "O" /\ VA(T, S)
                /\ S # NullType /\ ST(S) = "O"
                /\ CastThrowOk(il_ptr, ins.op)
                /\ ST(T) # "Ref"
      IN  \/ ~ok /\ Fail
          \/ /\ ok
             /\ Done(Append(Popped(stack), Entry(T, name_gen + 1)),
                     2 + CastThrowRegs(il_ptr, ins.op), "next")
             /\ UNCHANGED <<snaps, chain, entry, edges>>

\* type_get_interface_impl (types.c 639-650): the type's InterfaceImpls
\* hold an entry for the interface.
type_get_interface_impl(R, I) == I \in TT[R].impls

\* get_array_type (types.c 232-284): the one array type of element T.
ArrayOf(T) == CHOOSE a \in DOMAIN TT : IsArray(TT, a) /\ TT[a].elem = T

\* newarr T (jit.c 3548-3595): pop the count, which must be exactly
\* System.Int32; push T[] (register name_gen + 1), a register for the
\* size, then jit_new of T[] with its OutOfMemoryException path.
NewArr ==
    \E ins \in Instrs : ins.op = "newarr" /\ Read(ins) /\
      LET A  == ArrayOf(ins.arg)
          ok == /\ Len(stack) > 0 /\ Top(stack).type = "Int32"
                /\ \A c \in JitNewClauses(il_ptr, A) : JumpToClauseOk(c)
      IN  \/ ~ok /\ Fail
          \/ /\ ok
             /\ Done(Append(Popped(stack), Entry(A, name_gen + 1)), 2 + JitNewRegs(il_ptr, A), "next")
             /\ UNCHANGED <<snaps, chain, entry, edges>>

\* ldlen (jit.c 3597-3619): pop an array (array_type->IsArray reads
\* through the NULL type of ldnull), jit_null_check, push a native int.
LdLen ==
    \E ins \in Instrs : ins.op = "ldlen" /\ Read(ins) /\
      LET A  == Top(stack).type
          k  == NullCheckRegs(il_ptr, A)
          ok == /\ Len(stack) > 0 /\ A # NullType /\ IsArray(TT, A)
                /\ \A c \in ThrowNewClauses(il_ptr, NRE) : JumpToClauseOk(c)
      IN  \/ ~ok /\ Fail
          \/ /\ ok
             /\ Done(Append(Popped(stack), Entry("IntPtr", name_gen + k + 1)), k + 1, "next")
             /\ UNCHANGED <<snaps, chain, entry, edges>>

\* The element accesses: ldelem.<type> and stelem.<type> carry their
\* element type in ins.arg, ldelem.ref and stelem.ref NullType (the
\* array's ElementType is used). The index is an int32 or native int;
\* jit_null_check of the array and jit_oob_check, a jit_throw_new of
\* IndexOutOfRangeException, come before the access.
IOORE == "IndexOutOfRangeException"
ElemType(op_type, A) == IF op_type = NullType THEN TT[A].elem ELSE op_type
IndexOk(I) == ST(I) \in {"Int32", "IntPtr"}
ElemRegs(o, A) == NullCheckRegs(o, A) + ThrowNewRegs(o, IOORE)
ElemChecksOk(o) == \A c \in ThrowNewClauses(o, NRE) \cup ThrowNewClauses(o, IOORE) : JumpToClauseOk(c)

\* ldelem (jit.c 3766-3857): pop index and array; an explicit element
\* type must be array-element-compatible with the array's; push the
\* intermediate type of the element; interface and struct elements are
\* CHECK_FAIL.
LdElem ==
    \E ins \in Instrs : ins.op = "ldelem" /\ Read(ins) /\
      LET A  == stack[Len(stack) - 1].type
          E  == ElemType(ins.arg, A)
          k  == ElemRegs(il_ptr, A)
          ok == /\ Len(stack) >= 2 /\ A # NullType /\ IsArray(TT, A)
                /\ ins.arg # NullType => type_is_array_element_compatible_with(TT, TT[A].elem, ins.arg)
                /\ IndexOk(Top(stack).type)
                /\ ElemChecksOk(il_ptr)
                /\ ST(E) \in {"O", "Int32", "Int64", "IntPtr", "Float"} /\ ~IsInterface(TT, E)
      IN  \/ ~ok /\ Fail
          \/ /\ ok
             /\ Done(Append(SubSeq(stack, 1, Len(stack) - 2),
                            Entry(type_get_intermediate_type(TT, E), name_gen + k + 1)), k + 1, "next")
             /\ UNCHANGED <<snaps, chain, entry, edges>>

\* stelem (jit.c 3622-3754): pop value, index and array; the value must be
\* array-element-compatible with the element type's intermediate type and
\* the element type with the array's; an object stored into an interface
\* element goes through jit_cast_obj_to_interface, which CHECKs that the
\* value's static type implements it; interface-to-interface, struct and
\* by-ref stores are CHECK_FAIL. No run-time test of the value against
\* the array's actual element type is emitted.
StoreElemOk(V, E) ==
    CASE ST(V) = "O" -> IsInterface(TT, E) => ~IsInterface(TT, V) /\ type_get_interface_impl(V, E)
      [] ST(V) \in {"Int32", "Int64", "IntPtr", "Float"} -> TRUE
      [] OTHER -> FALSE

StElem ==
    \E ins \in Instrs : ins.op = "stelem" /\ Read(ins) /\
      LET A  == stack[Len(stack) - 2].type
          V  == Top(stack).type
          E  == ElemType(ins.arg, A)
          ok == /\ Len(stack) >= 3 /\ A # NullType /\ IsArray(TT, A)
                /\ type_is_array_element_compatible_with(TT, V, type_get_intermediate_type(TT, E))
                /\ type_is_array_element_compatible_with(TT, E, TT[A].elem)
                /\ IndexOk(stack[Len(stack) - 1].type)
                /\ ElemChecksOk(il_ptr)
                /\ StoreElemOk(V, E)
      IN  \/ ~ok /\ Fail
          \/ /\ ok
             /\ Done(SubSeq(stack, 1, Len(stack) - 3), ElemRegs(il_ptr, A), "next")
             /\ UNCHANGED <<snaps, chain, entry, edges>>

\* ldelema T (jit.c 3861-3920): as ldelem with an explicit element type, and
\* the push comes after the checks: the by-ref type of T's intermediate
\* type (register name_gen + k + 1), which holds the element's address.
LdElemA ==
    \E ins \in Instrs : ins.op = "ldelema" /\ Read(ins) /\
      LET A  == stack[Len(stack) - 1].type
          k  == ElemRegs(il_ptr, A)
          ok == /\ Len(stack) >= 2 /\ A # NullType /\ IsArray(TT, A)
                /\ type_is_array_element_compatible_with(TT, TT[A].elem, ins.arg)
                /\ IndexOk(Top(stack).type)
                /\ ElemChecksOk(il_ptr)
      IN  \/ ~ok /\ Fail
          \/ /\ ok
             /\ Done(Append(SubSeq(stack, 1, Len(stack) - 2),
                            Entry(get_by_ref_type(TT, type_get_intermediate_type(TT, ins.arg)),
                                  name_gen + k + 1)), k + 1, "next")
             /\ UNCHANGED <<snaps, chain, entry, edges>>

\* neg and not (jit.c 1889-1965): pop the value and push a register of the
\* same type. neg takes an integer (MIR_NEGS on an int32, MIR_NEG on int64
\* and native int) or Single/Double (FNEG/DNEG); not only an integer
\* (XORS/XOR with -1). An object, value type or by-ref is CHECK_FAIL.
UnaryOperands == [neg |-> IntTypes \cup {"Float"}, not |-> IntTypes]

Unary ==
    \E ins \in Instrs : ins.op \in DOMAIN UnaryOperands /\ Read(ins) /\
      LET ok == Len(stack) > 0 /\ ST(Top(stack).type) \in UnaryOperands[ins.op]
      IN  \/ ~ok /\ Fail
          \/ /\ ok
             /\ Done(Append(Popped(stack), Entry(Top(stack).type, name_gen + 1)), 1, "next")
             /\ UNCHANGED <<snaps, chain, entry, edges>>

\* box T (jit.c 3482-3540): pop a value verifier-assignable to T and push it
\* as System.Object (register name_gen + 1). A value type T is allocated by
\* jit_new, with its OutOfMemoryException path, and the value stored in it;
\* a reference is moved unchanged; a by-ref T is CHECK_FAIL.
BoxNewRegs(o, T) == IF IsValueType(TT, T) THEN JitNewRegs(o, T) ELSE 0

Box ==
    \E ins \in Instrs : ins.op = "box" /\ Read(ins) /\
      LET T  == ins.arg
          ok == /\ Len(stack) > 0 /\ VA(Top(stack).type, T)
                /\ IsValueType(TT, T) => \A c \in JitNewClauses(il_ptr, T) : JumpToClauseOk(c)
                /\ ~IsByRef(TT, T)
      IN  \/ ~ok /\ Fail
          \/ /\ ok
             /\ Done(Append(Popped(stack), Entry("Object", name_gen + 1)), 1 + BoxNewRegs(il_ptr, T), "next")
             /\ UNCHANGED <<snaps, chain, entry, edges>>

\* type_is_integer (types.c 370-374).
IntegerTypes == {"Byte", "Int16", "Int32", "Int64", "SByte", "UInt16", "UInt32", "UInt64",
                 "UIntPtr", "IntPtr", "Char", "Boolean"}

\* The implicit coercion of an argument of stack type A to parameter type P
\* (jit.c 2999-3050): the type the argument is then checked as, the MIR
\* instruction applied to its register, and the register a float
\* conversion creates.
ArgType(A, P) ==
    CASE A = "Int32" /\ P \in {"SByte", "Byte", "Boolean", "Int16", "UInt16", "IntPtr", "UIntPtr"} -> P
      [] A = "IntPtr" /\ P \in IntegerTypes -> P
      [] {A, P} = {"Single", "Double"}      -> P
      [] OTHER                              -> A
\* Mutant: an int32 passed as native unsigned int is not zero-extended.
ArgConvCodeNoZeroExt(A, P) == IF A = "Int32" /\ P = "IntPtr" THEN "EXT32" ELSE "MOV"

ArgConvCode(A, P) ==
    CASE A = "Int32" /\ P = "IntPtr"  -> "EXT32"
      [] A = "Int32" /\ P = "UIntPtr" -> "UEXT32"
      [] OTHER                        -> "MOV"
ArgRegs(A, P) == IF {A, P} = {"Single", "Double"} THEN 1 ELSE 0

\* call, callvirt and newobj of method m (jit.c 2962-3245). m is a record:
\* its DeclaringType, parameter types, return type ("void" for none) and
\* flags. The opcode's CHECK on m; the arguments popped last first, each
\* coerced and verifier-assignable to its parameter; then `this`: newobj
\* pushes the new object (a non-abstract class is allocated by jit_new, a
\* primitive value type gets a stack slot register), call and callvirt pop
\* it, CHECK it against the declaring type (its by-ref for a value type)
\* and jit_null_check it; a virtual callvirt loads the vtable into a temp;
\* the return value is pushed; and the exception register is tested with a
\* jit_throw of the unknown type. ctx->functions holds every method. A
\* virtual callvirt on null (ldnull) reads the NULL type's flags in the
\* translator itself, which the model takes as a failed translation.
CallOpOk(op, m) ==
    CASE op = "newobj"   -> m.ctor
      [] op = "callvirt" -> ~m.static
      [] OTHER           -> ~m.abstract

CallThisType(m) == IF IsValueType(TT, m.decl) THEN get_by_ref_type(TT, m.decl) ELSE m.decl

Call ==
    \E ins \in Instrs : ins.op \in {"call", "callvirt", "newobj"} /\ Read(ins) /\
      LET o    == il_ptr
          m    == ins.arg
          n    == Len(m.params)
          hasThis == ~m.static /\ ins.op # "newobj"
          argAt(i) == stack[Len(stack) - n + i].type
          thisT == stack[Len(stack) - n].type
          base == SubSeq(stack, 1, Len(stack) - n - (IF hasThis THEN 1 ELSE 0))
          regs[i \in 0 .. n] == IF i = 0 THEN 0 ELSE regs[i - 1] + ArgRegs(argAt(i), m.params[i])
          ka   == regs[n]
          newobj == ins.op = "newobj" /\ ~m.static
          kt   == CASE newobj /\ IsValueType(TT, m.decl) ->
                          1 + (IF ST(m.decl) # "ValueType" THEN 1 ELSE 0)
                    [] newobj -> 1 + JitNewRegs(o, m.decl)
                    [] hasThis -> NullCheckRegs(o, thisT)
                    [] OTHER -> 0
          kv   == IF ins.op = "callvirt" /\ m.virtual THEN 1 ELSE 0
          withThis == IF newobj THEN Append(base, Entry(m.decl, name_gen + ka + 1)) ELSE base
          kr   == IF m.ret # "void" THEN 1 ELSE 0
          result == IF m.ret # "void"
                    THEN Append(withThis, Entry(type_get_intermediate_type(TT, m.ret),
                                                name_gen + ka + kt + kv + 1))
                    ELSE withThis
          clauses == HandlerSearch(1, o, NullType)
                     \cup (IF newobj /\ ~IsValueType(TT, m.decl) THEN JitNewClauses(o, m.decl) ELSE {})
                     \cup (IF hasThis THEN ThrowNewClauses(o, NRE) ELSE {})
          ok   == /\ CallOpOk(ins.op, m)
                  /\ Len(stack) >= n + (IF hasThis THEN 1 ELSE 0)
                  /\ \A i \in 1 .. n :
                        VA(type_get_verification_type(TT, ArgType(argAt(i), m.params[i])), m.params[i])
                  /\ newobj => /\ ~TT[m.decl].abstract /\ ~IsInterface(TT, m.decl)
                               /\ CanPush(base)
                  /\ hasThis => /\ VA(type_get_verification_type(TT, thisT), CallThisType(m))
                                /\ IsObjectRef(TT, thisT)
                  /\ (ins.op = "callvirt" /\ m.virtual) => thisT # NullType
                  /\ m.ret # "void" => CanPush(withThis)
                  /\ \A c \in clauses : JumpToClauseOk(c)
      IN  \/ ~ok /\ Fail
          \/ /\ ok
             /\ Done(result, ka + kt + kv + kr + ThrowRegs(o, NullType), "next")
             /\ UNCHANGED <<snaps, chain, entry, edges>>

\* leave: jit_resolve_branch with the current stack, no region check. Every
\* finally whose try holds the offset, in clause order, is chained: the
\* first is jumped to, each one's endfinally goes to the next, the last's to
\* the target. The offset must be in some try or handler.
Leave ==
    \E ins \in Instrs : ins.op = "leave" /\ Read(ins) /\
      LET o    == il_ptr
          r    == jit_resolve_branch(o, ins.arg, stack)
          fins == {c \in DOMAIN Clauses : InTry(c, o) /\ Clauses[c].Flags = "finally"}
          \* the next finally of the chain after c, 0 for none
          next(c) == IF \E d \in fins : d > c
                     THEN CHOOSE d \in fins : d > c /\ \A e \in fins : e > c => d <= e
                     ELSE 0
          ok   == r.ok /\ \E c \in DOMAIN Clauses : InTry(c, o) \/ InHandler(c, o)
      IN  \/ ~ok /\ Fail
          \/ /\ ok
             /\ snaps' = r.snaps
             /\ chain' = [c \in DOMAIN Clauses |->
                            IF c \notin fins THEN chain[c]
                            ELSE IF next(c) = 0
                                 THEN [endfinally |-> ins.arg, last_in_chain |-> TRUE]
                                 ELSE [endfinally |-> Clauses[next(c)].HandlerOffset,
                                       last_in_chain |-> FALSE]]
             /\ edges' = edges \cup {Branch(ins.arg, stack, "leave")}
             /\ Done(stack, 0, "branch")
             /\ UNCHANGED entry

\* endfinally: the first clause whose handler holds the offset must be a
\* finally whose endfinally label a leave has set.
EndFinally ==
    \E ins \in Instrs : ins.op = "endfinally" /\ Read(ins) /\
      LET hs == {c \in DOMAIN Clauses : InHandler(c, il_ptr)}
          c  == CHOOSE c \in hs : \A d \in hs : c <= d
          ok == hs # {} /\ Clauses[c].Flags = "finally" /\ chain[c].endfinally # NoLabel
      IN  \/ ~ok /\ Fail
          \/ ok /\ Done(stack, 0, "return") /\ UNCHANGED <<snaps, chain, entry, edges>>

\* After the last instruction: the last one must not fall off the end.
Finish ==
    /\ status = "translating" /\ phase = "head" /\ il_ptr = IlLength
    /\ status' = IF last_cf \in {"throw", "branch", "return"} THEN "ok" ELSE "failed"
    /\ UNCHANGED <<il_ptr, phase, last_cf, stack, snaps, name_gen, chain, il, entry, edges>>

\* jit_method has returned.
Returned == status # "translating" /\ UNCHANGED vars

Next ==
    \/ LoopHead
    \/ LoadConstant \/ LoadLocal \/ StoreLocal \/ Dup \/ Pop
    \/ BinaryNumeric \/ Conv \/ Compare \/ Switch \/ Cast
    \/ NewArr \/ LdLen \/ LdElem \/ StElem \/ LdElemA \/ Unary \/ Box \/ Call
    \/ Br \/ BrTrue \/ CompareBranch
    \/ Ret \/ Throw \/ Leave \/ EndFinally
    \/ Finish
    \/ Returned

Spec == Init /\ [][Next]_vars
-----------------------------------------------------------------------------
(***************************************************************************)
(* Properties.                                                             *)
(***************************************************************************)
TypeOK ==
    /\ il_ptr \in 0 .. IlLength
    /\ phase \in {"head", "body"}
    /\ last_cf \in {"invalid", "next", "branch", "cond_branch", "return", "throw"}
    /\ \A i \in 1 .. Len(stack) : stack[i].reg \in 1 .. name_gen
    /\ Len(stack) <= MaxStackSize
    /\ DOMAIN snaps \subseteq Offsets
    /\ DOMAIN entry \subseteq 0 .. il_ptr
    /\ status \in {"translating", "ok", "failed"}
    /\ \A e \in edges : e.from \in Offsets /\ e.kind \in {"next", "branch", "leave"}

\* Every control edge the translator emits into an offset carries as many
\* values as the stack that offset was translated with (spec.md section 8,
\* property 5), whichever of the branch, the fall-through or the leave is
\* seen first and whether the target lies before or after the source.
DepthAgree ==
    \A e \in edges : e.to \in DOMAIN entry => Len(e.stack) = Len(entry[e.to])

\* Once an offset has been translated its snapshot never changes: the MIR
\* already emitted there reads the snapshot's types and registers, so a
\* later branch back to it may not widen it (jit_resolve_branch's backward
\* case).
TranslatedSnapshotsFrozen ==
    [][\A o \in DOMAIN entry : snaps'[o] = snaps[o]]_vars

\* A branch or fall-through never enters or leaves a try or a handler,
\* except by falling into the first offset of a try (spec.md 4.7, try-region
\* validation): jit_branch_point and the loop head's boundary check.
RegionDiscipline ==
    \A e \in edges : e.kind # "leave" =>
        \A c \in DOMAIN Clauses :
            /\ InHandler(c, e.from) = InHandler(c, e.to)
            /\ \/ InTry(c, e.from) = InTry(c, e.to)
               \/ e.kind = "next" /\ e.to = Clauses[c].TryOffset

\* In an accepted method, every value reaching an offset along an edge is
\* where and what the code at that offset reads (spec.md 4.7, snapshots
\* and merging): in the register the offset was translated with, since
\* the branch and the fall-through emit no moves, and of a type
\* verifier-assignable to the one it was translated with. The loop head
\* merges into the snapshot but goes on with the fall-through's stack.
JoinSound ==
    status = "ok" =>
        \A e \in edges : e.to \in DOMAIN entry =>
            \A i \in 1 .. Len(e.stack) :
                /\ e.stack[i].reg = entry[e.to][i].reg
                /\ VA(e.stack[i].type, entry[e.to][i].type)

\* Where the endfinally chain from finally clause c finally jumps.
RECURSIVE ChainEnd(_, _)
ChainEnd(c, fuel) ==
    IF chain[c].last_in_chain \/ fuel = 0 THEN chain[c].endfinally
    ELSE LET d == CHOOSE d \in DOMAIN Clauses : Clauses[d].HandlerOffset = chain[c].endfinally
         IN  ChainEnd(d, fuel - 1)

\* In an accepted method, every leave reaches its own target after running
\* the finally blocks around it (spec.md 4.7, leave): the chain from the
\* innermost enclosing finally ends at the leave's target.
LeaveReachesTarget ==
    status = "ok" =>
        \A o \in DOMAIN il : il[o].op = "leave" =>
            LET fins == {c \in DOMAIN Clauses : InTry(c, o) /\ Clauses[c].Flags = "finally"}
            IN  fins # {} =>
                    ChainEnd(CHOOSE c \in fins : \A d \in fins : c <= d, Len(Clauses)) = il[o].arg

\* A finally block whose try has no leave (and no ret, which ECMA-335
\* forbids in a try) is entered only when an exception unwinds through it,
\* as in try { throw } finally { }, which is valid C#; its endfinally then
\* passes the exception on. Translating that endfinally never rejects the method.
EndFinallyByExceptionAccepted ==
    [][\A c \in DOMAIN Clauses :
         /\ phase = "body" /\ il_ptr \in DOMAIN il' /\ il'[il_ptr].op = "endfinally"
         /\ Clauses[c].Flags = "finally" /\ InHandler(c, il_ptr)
         /\ \A o \in DOMAIN il : InTry(c, o) => il[o].op \notin {"leave", "ret"}
         => status' # "failed"]_vars

\* R derives from C: C is R or on R's BaseType chain.
Derives(R, C) == C \in {R} \cup BaseChain(TT, R)

\* The least clause index of a set, 0 for none.
FirstOf(cs) == IF cs = {} THEN 0 ELSE CHOOSE c \in cs : \A d \in cs : c <= d

\* Where the code jit_throw emits at o sends an exception of run-time class
\* R thrown as static type T: the first clause of HandlerSearch that takes
\* it (a catch found statically, a catch whose isinstance test R passes,
\* or a finally). From a finally the exception leaves the method: the
\* endfinally at the end of its chain returns with the exception register
\* set (jit.c 4157-4170). 0 is leaving the method.
CompiledDestination(o, T, R) ==
    LET c == FirstOf({d \in HandlerSearch(1, o, T) :
                        Clauses[d].Flags = "finally" \/ T # NullType
                        \/ Derives(R, Clauses[d].CatchType)})
    IN  IF c # 0 /\ Clauses[c].Flags = "catch" THEN c ELSE 0

\* CLI exception dispatch (spec.md 4.8 and ECMA-335 I.12.4.2): the first
\* catch, innermost first, whose try holds o and whose type the run-time
\* class derives from; the finallies in between run on the way.
CliDestination(o, R) ==
    FirstOf({c \in CatchClauses : InTry(c, o) /\ Derives(R, Clauses[c].CatchType)})

\* In an accepted method, an exception thrown by throw reaches the handler
\* CLI dispatch chooses for the object's run-time class, for every class
\* the value's static type allows: jit_throw chooses catches from the
\* static type, and a finally on the way ends the search.
ThrowReachesHandler ==
    status = "ok" =>
        \A o \in DOMAIN il : il[o].op = "throw" /\ Top(entry[o]).type # NullType =>
            \A R \in {R2 \in DOMAIN TT : TT[R2].kind = "class" /\ Derives(R2, Top(entry[o]).type)} :
                CompiledDestination(o, Top(entry[o]).type, R) = CliDestination(o, R)
-----------------------------------------------------------------------------
(***************************************************************************)
(* The integer code jit_method emits, run on the values of MirArithmetic,  *)
(* against the CLI's meaning of the instruction it translates. The operand *)
(* types of an instruction are the stack its offset was translated with.   *)
(***************************************************************************)
\* Mutant: conv.u8 and conv.u sign-extend an int32, like conv.i8.
ConvCodeU8Signed(op, st) ==
    IF st = "Int32"
    THEN IF op \in {"conv_i4", "conv_u4"} THEN "MOV" ELSE "EXT32"
    ELSE CASE op = "conv_i4" -> "EXT32"
           [] op = "conv_u4" -> "UEXT32"
           [] OTHER          -> "MOV"

\* The MIR instruction conv.* emits for an integer operand (jit.c 2002-2035).
ConvCode(op, st) ==
    IF st = "Int32"
    THEN CASE op \in {"conv_i4", "conv_u4"} -> "MOV"
           [] op \in {"conv_i8", "conv_i"}  -> "EXT32"
           [] op \in {"conv_u8", "conv_u"}  -> "UEXT32"
    ELSE CASE op = "conv_i4" -> "EXT32"
           [] op = "conv_u4" -> "UEXT32"
           [] OTHER          -> "MOV"

\* The operand widening of jit_binary_numeric_operation, jit_compare and
\* jit_compare_branch: an int32 next to a native int gets MIR_UEXT32.
Widened(st, other, r) == IF st = "Int32" /\ other = "IntPtr" THEN MirUnary("UEXT32", r) ELSE r

\* jit_binary_numeric_operation's code on registers r1, r2 with e in the
\* exception register: for div, "BT skip, exception_reg" and else
\* jit_throw_new(DivideByZeroException); then the widening, and the
\* 32-bit variant (code += 1) for int32 x int32.
CompiledBinary(op, st1, st2, r1, r2, e) ==
    IF op = "div" /\ e = 0 THEN Exc(DBZ)
    ELSE MirBinary(op, OperandWidth(st1, st2), Widened(st1, st2, r1), Widened(st2, st1, r2))

\* jit_compare (ceq, clt) and jit_compare_branch (beq, blt: taken iff 1).
CompiledCompare(op, st1, st2, r1, r2) ==
    MirCompare(op, OperandWidth(st1, st2), Widened(st1, st2, r1), Widened(st2, st1, r2))

\* switch over n targets: "BGE not_taken, value, n", a signed 64-bit
\* compare, then MIR_SWITCH on the value.
CompiledSwitch(r, n) ==
    CASE Signed(r, NativeBits) >= n -> [kind |-> "fallthrough", val |-> 0]
      [] Signed(r, NativeBits) >= 0 -> [kind |-> "target", val |-> Signed(r, NativeBits)]
      [] OTHER                      -> Fault

\* The exception register when the instruction at o runs. In a catch
\* handler it holds the caught exception: jit_throw moves it there and
\* nothing clears it. Elsewhere it is 0 after a call that returned, the
\* stale exception after a handler, or, before any call, whatever the
\* register held: MIR_new_func_reg (jit.c:1595) gives it no value.
ExceptionRegValues(o) == IF \E c \in CatchClauses : InHandler(c, o) THEN {1} ELSE {0, 1}

\* The stack types of the two operands of the instruction at o.
Arg1(o) == ST(entry[o][Len(entry[o]) - 1].type)
Arg2(o) == ST(Top(entry[o]).type)

CmpOp == [ceq |-> "ceq", clt |-> "clt", beq |-> "ceq", blt |-> "clt"]

\* The integer conversions of an accepted method compute what ECMA-335
\* III.3.27 says for every int32, int64 and native int value (conv.i8 and
\* conv.i sign-extend an int32, conv.u8 and conv.u zero-extend it, conv.i4
\* and conv.u4 truncate): the MIR_EXT32/UEXT32/MOV chosen by conv.*.
ConversionsAgreeWithCli ==
    status = "ok" =>
        \A o \in DOMAIN il :
            il[o].op \in DOMAIN ConvResult /\ Arg2(o) \in IntTypes =>
                \A v \in Values(Arg2(o)) :
                    Denote(ConvResult[il[o].op], MirUnary(ConvCode(il[o].op, Arg2(o)), Reg(Arg2(o), v)))
                        = CliConv(il[o].op, Arg2(o), v)

\* What the callee receives for an int32 argument in register r passed to a
\* native int or native unsigned int parameter: the register after the
\* coercion jit.c emits, read signed for IntPtr and unsigned for UIntPtr.
CompiledArg(P, r) ==
    LET x == MirUnary(ArgConvCode("Int32", P), r)
    IN  IF P = "IntPtr" THEN Signed(x, NativeBits) ELSE Wrap(x, NativeBits)

\* ECMA-335 III.1.6: an int32 argument to a native int parameter is
\* sign-extended, to a native unsigned int parameter zero-extended.
CliArg(P, v) == IF P = "IntPtr" THEN v ELSE Wrap(v, Int32Bits)

\* Every int32 argument an accepted call, callvirt or newobj passes to a
\* native int or native unsigned int parameter arrives as ECMA-335's
\* implicit coercion gives it, for every int32 value: the EXT32/UEXT32
\* chosen while the arguments are popped.
CallArgumentsAgreeWithCli ==
    status = "ok" =>
        \A o \in DOMAIN il :
            il[o].op \in {"call", "callvirt", "newobj"} =>
                LET m == il[o].arg
                    n == Len(m.params)
                IN  \A i \in 1 .. n :
                        (entry[o][Len(entry[o]) - n + i].type = "Int32" /\ m.params[i] \in {"IntPtr", "UIntPtr"}) =>
                            \A v \in Values("Int32") :
                                CompiledArg(m.params[i], Reg("Int32", v)) = CliArg(m.params[i], v)

\* The integer arithmetic, compares and switches of an accepted method
\* compute what ECMA-335 says for every operand value and whatever the
\* exception register holds (spec.md 4.7: int32 x native int sign-extends
\* the int32; div's guard tests the denominator; scenario S2): add, and,
\* div (DivideByZeroException, ArithmeticException), neg and not (MIR
\* NEGS/NEG and XORS/XOR with -1 at the stack type's width), ceq/clt and beq/blt,
\* and switch on an int32 read as unsigned.
ArithmeticAgreesWithCli ==
    status = "ok" =>
        \A o \in DOMAIN il :
            LET op == il[o].op IN
            /\ (op \in {"add", "and", "div"} /\ Arg1(o) \in IntTypes /\ Arg2(o) \in IntTypes) =>
                  \A v1 \in Values(Arg1(o)), v2 \in Values(Arg2(o)), e \in ExceptionRegValues(o) :
                      CompiledBinary(op, Arg1(o), Arg2(o), Reg(Arg1(o), v1), Reg(Arg2(o), v2), e)
                          = CliBinary(op, Arg1(o), Arg2(o), v1, v2)
            /\ (op \in DOMAIN CmpOp /\ Arg1(o) \in IntTypes /\ Arg2(o) \in IntTypes) =>
                  \A v1 \in Values(Arg1(o)), v2 \in Values(Arg2(o)) :
                      CompiledCompare(CmpOp[op], Arg1(o), Arg2(o), Reg(Arg1(o), v1), Reg(Arg2(o), v2))
                          = CliCompare(CmpOp[op], v1, v2)
            /\ (op \in DOMAIN UnaryOperands /\ Arg2(o) \in IntTypes) =>
                  \A v \in Values(Arg2(o)) :
                      MirNegate(op, Width(Arg2(o)), Reg(Arg2(o), v)) = CliNegate(op, Width(Arg2(o)), v)
            /\ (op = "switch" /\ Arg2(o) = "Int32") =>
                  \A v \in Values("Int32") :
                      CompiledSwitch(Reg("Int32", v), Len(il[o].arg)) = CliSwitch(v, Len(il[o].arg))
-----------------------------------------------------------------------------
(***************************************************************************)
(* The casts jit_method emits, run on an object of each run-time class its *)
(* static type allows, against ECMA-335 III.4.3 (castclass), III.4.6       *)
(* (isinst) and III.4.33 (unbox.any).                                      *)
(***************************************************************************)
\* The run-time classes a non-null value of static type S can have: the
\* classes and boxed value types that derive from S or implement it.
RuntimeClasses(S) ==
    {R \in DOMAIN TT : TT[R].kind \in {"class", "int", "float"}
                       /\ (Derives(R, S) \/ S \in TT[R].impls)}

\* The outcome of a cast: the object (a class, or NullType for null), a
\* managed exception, or a machine fault.
Obj(x)      == [kind |-> "value", obj |-> x]
Thrown(e)   == [kind |-> "exception", obj |-> e]
NullDeref   == [kind |-> "fault", obj |-> NullType]

\* isinstance (types.c 652-657): null passes; otherwise the object's
\* vtable->type is verifier-assignable to the type.
isinstance(x, T) == x = NullType \/ VA(x, T)

\* dynamic_cast_obj_to_interface (jit.c 47-62): reads source->vtable
\* before anything else; FALSE, with the interface zeroed, when no
\* InterfaceImpl matches.
dynamic_cast_obj_to_interface(x, I) ==
    IF x = NullType THEN NullDeref ELSE Obj(type_get_interface_impl(x, I))

\* The code of isinst, castclass and unbox.any T on object x (jit.c
\* 3374-3460): to an interface, dynamic_cast_obj_to_interface, else the
\* isinstance call; on failure isinst gives null and the others throw
\* InvalidCastException; on success a reference is moved, and a value is
\* loaded from the object's payload.
CompiledCast(op, T, x) ==
    LET test == IF IsInterface(TT, T) THEN dynamic_cast_obj_to_interface(x, T)
                ELSE Obj(isinstance(x, T))
    IN  CASE test.kind = "fault"          -> NullDeref
          [] ~test.obj                    -> IF op = "isinst" THEN Obj(NullType) ELSE Thrown(ICE)
          [] ST(T) # "O" /\ x = NullType  -> NullDeref
          [] OTHER                        -> Obj(x)

\* An object of run-time class R is an instance of T (ECMA-335 I.8.7):
\* R derives from or implements a reference type T; a value type T is
\* unboxed only from a box of exactly T.
CliIsA(R, T) == IF ST(T) = "O" THEN Derives(R, T) \/ T \in TT[R].impls ELSE R = T

\* ECMA-335: null casts to null and unbox.any of null to a value type
\* throws NullReferenceException; an instance of T is the result;
\* otherwise isinst gives null and the others throw InvalidCastException.
CliCast(op, T, x) ==
    CASE x = NullType   -> IF ST(T) = "O" THEN Obj(NullType) ELSE Thrown(NRE)
      [] CliIsA(x, T)   -> Obj(x)
      [] op = "isinst"  -> Obj(NullType)
      [] OTHER          -> Thrown(ICE)

\* The casts of an accepted method do what ECMA-335 says for null and for
\* an object of every run-time class the cast's static operand type
\* allows.
CastsAgreeWithCli ==
    status = "ok" =>
        \A o \in DOMAIN il :
            il[o].op \in CastOps =>
                \A x \in {NullType} \cup RuntimeClasses(Top(entry[o]).type) :
                    CompiledCast(il[o].op, il[o].arg, x) = CliCast(il[o].op, il[o].arg, x)

-----------------------------------------------------------------------------
(***************************************************************************)
(* The array code jit_method emits, against ECMA-335 III.4.7-4.9 (ldelem,  *)
(* ldlen), III.4.20 (newarr) and III.4.26 (stelem).                        *)
(***************************************************************************)
\* The arrays an access can meet: null, or an array whose int32 Length is
\* what newarr of a non-negative count gives.
ArrayLengths == {0, 1, MaxInt(Int32Bits)}
Arrays == {[null |-> TRUE, len |-> 0]} \cup {[null |-> FALSE, len |-> n] : n \in ArrayLengths}

\* The index register after ldelem/stelem's widening: an int32 index is
\* sign-extended with MIR_EXT32 (jit.c 3643-3651, 3789-3797).
IndexReg(st, r) == IF st = "Int32" THEN MirUnary("EXT32", r) ELSE r

\* Mutant: the bound test compares signed.
OobCheckSigned(idx, len) == Signed(idx, NativeBits) < len

\* jit_oob_check (jit.c 1320-1335): "UBLT not_oob, index, Length", an
\* unsigned 64-bit compare with the int32 Length field loaded as
\* MIR_T_I32 (sign-extended); otherwise IndexOutOfRangeException.
jit_oob_check(idx, len) == Wrap(idx, NativeBits) < Wrap(len, NativeBits)

\* The outcome of an element access at index register r of stack type st
\* into array a: jit_null_check, then jit_oob_check, then the element at
\* the index.
CompiledElemAccess(a, st, r) ==
    CASE a.null                                 -> Exc(NRE)
      [] ~jit_oob_check(IndexReg(st, r), a.len) -> Exc(IOORE)
      [] OTHER                                  -> Val(Signed(IndexReg(st, r), NativeBits))

\* The outcome of stelem of an object reference into an array of a
\* non-interface element type (jit.c 3700-3729), the index in register
\* number reg: the same null and bound checks, then index_reg is scaled to
\* index * StackSize + sizeof(System.Array), but gc_update is handed
\* MIR_new_int_op(index_reg), the register's number, as the byte offset:
\* the store lands at offset reg whatever the index.
CompiledStElemRefAt(a, st, r, reg) ==
    CASE a.null                                 -> Exc(NRE)
      [] ~jit_oob_check(IndexReg(st, r), a.len) -> Exc(IOORE)
      [] OTHER                                  -> Val([offset |-> reg])

\* ECMA-335: a null array throws NullReferenceException, an index outside
\* 0 .. n-1 IndexOutOfRangeException.
CliElemAccess(a, v) ==
    CASE a.null              -> Exc(NRE)
      [] v < 0 \/ v >= a.len -> Exc(IOORE)
      [] OTHER           -> Val(v)

\* Every element load, element address and store of a number of an
\* accepted method reaches exactly the elements ECMA-335 allows, for every
\* int32 or native int index value (negative, past the end, beyond the
\* int32 range) and every array length, and a null array throws: the sign
\* extension of the index by ldelem, ldelema and stelem and jit_oob_check's
\* unsigned compare together. (A store of a reference goes through
\* gc_update, CompiledStElemRefAt, and is compared in ArraysAgreeWithCli.)
ArrayAccessAgreesWithCli ==
    status = "ok" =>
        \A o \in DOMAIN il :
            (\/ il[o].op \in {"ldelem", "ldelema"}
             \/ il[o].op = "stelem" /\ ST(Top(entry[o]).type) # "O") =>
                LET d  == IF il[o].op = "stelem" THEN 1 ELSE 0
                    st == ST(entry[o][Len(entry[o]) - d].type)
                IN  \A a \in Arrays, v \in Values(st) :
                        CompiledElemAccess(a, st, Reg(st, v)) = CliElemAccess(a, v)

\* The run-time array classes a value of static array type A can have:
\* A, or an array of a reference type that is an instance of A's element
\* type (array covariance, ECMA-335 I.8.7.1).
RuntimeArrays(A) ==
    {R \in DOMAIN TT : IsArray(TT, R)
                       /\ (R = A \/ (ST(TT[R].elem) = "O" /\ CliIsA(TT[R].elem, TT[A].elem)))}

\* stelem of a reference: the code stores the value whatever the array's
\* run-time element type; ECMA-335 III.4.26 throws
\* ArrayTypeMismatchException unless the value is null or an instance of it.
ATME == "ArrayTypeMismatchException"
CompiledStElemRef(R, x) == Obj(x)
CliStElemRef(R, x) == IF x = NullType \/ CliIsA(x, TT[R].elem) THEN Obj(x) ELSE Thrown(ATME)

\* newarr of count v: the size v * StackSize + sizeof(System.Array) goes
\* to gc_new, which returns an object or NULL (then OutOfMemoryException),
\* and v is written to Length; ECMA-335 III.4.20 throws OverflowException
\* for a negative count.
CompiledNewArr(v) == {Val(v), Exc(OOM)}
CliNewArr(v) == IF v < 0 THEN {Exc("OverflowException")} ELSE {Val(v), Exc(OOM)}

\* The array code of an accepted method does what ECMA-335 says: a
\* reference stored into an array of every run-time class the static array
\* type allows, at the element of every index value, and newarr of every
\* int32 count.
ArraysAgreeWithCli ==
    status = "ok" =>
        \A o \in DOMAIN il :
            /\ (il[o].op = "stelem" /\ ST(Top(entry[o]).type) = "O") =>
                  LET A   == entry[o][Len(entry[o]) - 2].type
                      idx == entry[o][Len(entry[o]) - 1]
                  IN  /\ \A R \in RuntimeArrays(A), x \in {NullType} \cup RuntimeClasses(Top(entry[o]).type) :
                            CompiledStElemRef(R, x) = CliStElemRef(R, x)
                      /\ \A a \in Arrays, v \in Values(ST(idx.type)) :
                            CompiledStElemRefAt(a, ST(idx.type), Reg(ST(idx.type), v), idx.reg) = CliElemAccess(a, v)
            /\ il[o].op = "newarr" =>
                  \A v \in Values("Int32") : CompiledNewArr(v) \subseteq CliNewArr(v)

\* The code jit_method emits for an accepted method computes what the CLI
\* defines: its integer arithmetic, compares and switches, its casts and
\* its array allocation and stores.
EmittedCodeAgreesWithCli ==
    ArithmeticAgreesWithCli /\ CastsAgreeWithCli /\ ArraysAgreeWithCli
=============================================================================
