# TLA+ models of tinydotnet's verifier and JIT

tinydotnet is a small CLI runtime. Its loader turns an assembly's metadata into
`System_Type` objects. `types.c` gives the verifier's type relations and
builds array and by-ref types on demand. `jit/jit.c` verifies and translates
every CIL method body to MIR in a single forward pass. This directory holds
TLA+ modules for the parts where the hard questions are:
- which values the verifier lets flow where;
- how the abstract evaluation stack is merged at control-flow joins;
- how `try`, `catch` and `finally` regions constrain branches, `leave`,
  `endfinally` and `throw`;
- whether the integer MIR emitted for `div`, compares, conversions and
  `switch` computes what the CLI defines.

## The system's parts and how they interact

| Part | Code | State and operations |
|------|------|----------------------|
| Verifier type relations | `types.c` 370-563 | Pure functions of the type graph: the underlying, reduced, verification and intermediate types; compatible-with; assignable-to; verifier-assignable-to. |
| Derivative caches | `types.c` 232-327 | `ArrayType` and `ByRefType` fields filled on first use under the type's monitor, read without it first. |
| Generic instantiation | `types.c` 850-980 | `type_make_generic` searches the definition's `NextGenericInstance` chain under its monitor, and builds and links a new instance with `expand_type`. |
| Token lookups, accessibility, interface lookup | `types.c` 106-230, 612-848 | Table reads and pure checks. |
| Evaluation stack | `jit.c` 262-524 | `ctx->stack` holds (type, register) entries. `pc_to_stack_snapshot` maps an IL offset to a saved stack and a label. `new_reg` hands out registers. |
| Translator | `jit.c` 1521-4240 (`jit_method`) | The loop head, which merges with or takes a snapshot and checks region boundaries. Then one case per opcode. Branches go through `jit_branch_point`/`jit_resolve_branch`. Throwing sites go through `jit_throw`. `leave`/`endfinally` go through `clause_to_label`. |
| Runtime helpers, driver | `jit.c` 29-218, 4244-4504 | Helpers called from compiled code; set-up of MIR modules and vtables. |

The translator consults the type relations at every store, merge, return and
call. It keeps one stack, and a snapshot per branch target. Every later edge
into a target is merged with that target's snapshot. The exception-clause table
is read at every branch, at the loop head, at `throw`, `leave` and `endfinally`.

## Modules

- **TypeSystem.tla**: the relations of `types.c` as operators over a type table `H`. `H` maps a type name to `[kind, base, elem, impls]`, which is `BaseType`, `ElementType` and `InterfaceImpls`. The well-known types are their names and the NULL type is `NullType`. The kind predicates and `type_get_stack_type` live in `types.h`, which is not in the source, so they follow spec.md 4.7.
- **MCTypeSystem.tla**: one state per type table a loader can build. The tables cover classes A, B and C in every base-class chain, interfaces I and J with every declaration the loader allows, an enum over Int32 or Byte, a struct, the integer and float types, and arrays and by-refs of them. `InterfaceImpls` is closed over base classes and interface inheritance, as spec.md 4.4 describes the loader.
- **JitMethod.tla**: `jit_method` at the level of the evaluation stack.
  - The state: `il_ptr`, `last_cf`, `stack`, `snaps` (`pc_to_stack_snapshot`), `name_gen`, `chain` (each finally's `endfinally` and `last_in_chain`) and `status`. There are also three history variables: the instruction read at each offset, the stack each offset was translated with, and every control edge emitted with its stack.
  - The actions:
    - `LoopHead` models `jit.c` 1675-1735.
    - One action per opcode case: ldc/ldstr/ldnull, ldloc, stloc, dup, pop, add/and/div, neg/not (`Unary`), conv.*, ceq/clt, br, brtrue, beq/blt, switch, ret, throw, leave and endfinally.
    - `div` includes its guard (jit.c 1347-1362): a `jit_throw_new` of DivideByZeroException, whose registers and catch-snapshot CHECKs are part of the step.
    - `switch` pops the index and makes every target a branch point with the remaining stack (jit.c 3999-4031).
    - `Cast` is isinst, castclass and unbox.any (jit.c 3349-3479): the downcast CHECK, the push of the target type, and for castclass/unbox.any a `jit_throw_new` of InvalidCastException.
    - `NewArr`, `LdLen`, `LdElem` and `StElem` are newarr, ldlen, ldelem and stelem (jit.c 3548-3859). Each action covers the case's CHECKs: the array type, element compatibility, an int32 or native int index, and the interface and struct cases that are CHECK_FAIL. It also covers the `jit_null_check`, `jit_oob_check` and `jit_new` that the case emits, with their registers and catch-snapshot CHECKs.
    - `LdElemA` is ldelema (jit.c 3861-3920): the same checks as ldelem, then a push of the by-ref type of the element. `Box` is box (jit.c 3482-3540): the assignability CHECK, a push of System.Object, and `jit_new` with its OutOfMemoryException path for a value type.
    - `Call` is call, callvirt and newobj (jit.c 2962-3245): the opcode/method CHECKs (`CallOpOk`), the arguments popped last to first, each CHECKed assignable to its parameter after the implicit coercion (`ArgType`: int32 to a small integer or native int, native int to any integer, float to double) with its `EXT32`/`UEXT32` move (`ArgConvCode`). For newobj it pushes the new object, with `jit_new` for a reference type; otherwise it pops `this`, a by-ref for a value type, CHECKed assignable and null-checked. A virtual callvirt takes a vtable register, and a non-void return is pushed. No passing run has a callvirt: its state space, on top of the others, takes the runs past their time bound.
    - `Finish` is the final control-flow CHECK.
  - Each opcode action has a failing disjunct, which covers every CHECK of the case and of the helpers it calls, and a succeeding one.
  - The translator reads each instruction once, in order, without looking ahead. So the instruction at `il_ptr` is chosen from `Instrs` when it is reached, and the state space covers every body of `IlLength` instructions over `Instrs`. Every instruction takes one offset.
  - `throw` includes `jit_null_check`, `jit_throw_new`, `jit_new` and every `jit_throw` they emit. Each of those CHECKs the catch snapshots it jumps to, and each creates registers.
  - MIR emission is left out, except for the integer instructions that the arithmetic properties are about. Registers are numbers from `name_gen`.
  - `ConvCode`, `Widened`, `CompiledBinary`, `CompiledCompare` and `CompiledSwitch` are the MIR sequences jit.c emits for those opcodes, given a meaning by MirArithmetic. `ExceptionRegValues` is what `exception_reg` can hold at an offset: it is created without a value (jit.c:1595), calls and `jit_throw` set it, and inside a catch handler it holds the caught object.
  - `CompiledCast` is the cast code run on null or an object of a run-time class: `isinstance` (types.c 652-657), or for an interface `dynamic_cast_obj_to_interface` (jit.c 47-62) with `type_get_interface_impl`. `CliCast` is ECMA-335's castclass, isinst and unbox.any, a reference definition.
  - `CompiledElemAccess` is an element access: the null check, `jit_oob_check` (an unsigned compare of the index, sign-extended by `IndexReg`, with Length loaded as a sign-extended int32), then the element. This holds for ldelem, ldelema and a store of a number. `CompiledStElemRefAt` is a store of an object reference: the same checks, then `gc_update` at the byte offset given by the index register's number (jit.c:3728). `CliElemAccess` is ECMA-335's rule. `CompiledStElemRef` and `CompiledNewArr` are what stelem.ref and newarr do at run time. `CliStElemRef` and `CliNewArr` are ECMA-335's rules, which add ArrayTypeMismatchException and OverflowException.
- **MirArithmetic.tla**: machine words as naturals mod 2^w, the integer MIR instructions (MOV, EXT32, UEXT32, ADD/AND/DIV, NEG and XOR and their 32-bit forms, EQ/LT, SWITCH), and reference definitions of the CLI's add, and, div, neg, not, ceq, clt, conv.* and switch (ECMA-335 III). TLC's integers are 32-bit, so the widths are constants: `Int32Bits` = 4 stands for 32 and `NativeBits` = 8 for 64. What the properties tell apart (sign against zero extension, signed against unsigned order, the most negative value, values just outside the int32 range) exists at every pair of widths. `Reg` is how ldc.i4 holds an int32: its `int32_t` operand widened to int64 (jit.c 2356-2362).
- **MCJitMethod.tla**: a type table with String, Exception and its subclasses (with InvalidCastException), an interface IFoo and a class Foo implementing it, and Boolean/SByte/Int32/Int64/IntPtr/UIntPtr/Single/Double. It also has the array types object[], string[] and int32[], and the by-ref types of Object, String and Int32. The method has three locals (object, string, object[]). Methods are records of their declaring type, parameters, return type and static/virtual/abstract/.ctor flags: Foo's constructor and a static Foo method taking a native unsigned int. It also defines the clause tables and instruction sets of the runs.
- **DerivativeCache.tla**: `get_array_type` and `get_by_ref_type` (types.c 232-327) run by several threads.
  - Each thread makes one call and steps through `read1` (the unlocked read), `enter` (`monitor_enter`), `read2` (the check under the monitor), `alloc` (allocate, fill, publish), `exit` (`monitor_exit`) and `reread` (the final `return type->ArrayType`).
  - Stores go to a per-thread store buffer `buf`. `Drain` makes one visible in `mem` (the `ArrayType`/`ByRefType` fields) or in `objs` (a derivative's fields). `StoreOrder` "fifo" drains in program order, which is x86-64's TSO. "any" drains in any order, which is a weakly ordered machine. `monitor_exit` is a release: it waits for the buffer to be empty.
- **AtomicDerivative.tla**: the abstract cache. A derivative is created once, complete, when a pending call asks for it, and every call returns it. DerivativeCache instantiates it with the refinement mapping "a field's derivative exists once the field and the derivative's fields are visible". A call's return is `Return`.
- **MCDerivativeCache.tla**: three threads over Int32 and a class A, with both kinds of request.
- **GenericInstances.tla**: `type_make_generic` and `expand_type` (types.c 850-980). Threads request an instance of one generic definition over argument lists. Under the monitor they search the chain (`Lookup`) and otherwise build the instance (`Create`). Building expands the members and the BaseType, and links the instance at the chain head when no argument is a generic parameter. `BaseWalkReaches` is the DeclaringType walk of `ldfld`/`stfld` (jit.c 2826-2830).
- **MCGenericInstances.tla**: three threads and a `G<T> : B` with members `!0` and `Int32`. The arguments are `<Int32>`, `<String>` and `<!0>` (an open instance, which is not linked).

## Runs

| Run | Checks | Result |
|-----|--------|--------|
| `types` (`MCTypeSystem.cfg`) | `VerifierAssignableTransitive`, `StackKindPreserved` over 140 tables | pass |
| `types_byref` | `ByRefOnlyToByRef` | violated: `A&` is verifier-assignable to `A` and `Object`, because the `BaseType` walk (types.c:497) follows a by-ref's referent |
| `jit_stack` | `TypeOK`, `DepthAgree`, `ConversionsAgreeWithCli`, `TranslatedSnapshotsFrozen`, over every 5-instruction body of constants, locals, dup, pop, add, div, neg, conv.u8, ceq, switch (targets 2 and 4), br/brtrue to offsets 0, 2 and 4, beq to 4, and ret | pass, about 151k states |
| `jit_eh` | `RegionDiscipline`, `ArrayAccessAgreesWithCli` and `CallArgumentsAgreeWithCli`, over every 7-instruction body in a try/catch (0..3, handler 4) nested in a try/finally (0..4, handler 5). The bodies use `br 0` into the try, `leave` to 4 and 6, throw, endfinally, castclass (which throws InvalidCastException into the regions), and array code: ldloc of the object[] local, ldc.i4, newarr, ldlen, ldelem.ref, ldelema object, stelem.ref and box int32, and calls (`call` of a static method with a native unsigned int parameter, `newobj` of Foo's constructor), each of which throws NullReferenceException, IndexOutOfRangeException or OutOfMemoryException into the regions. `ArrayAccessAgreesWithCli` states that every ldelem, ldelema and stelem of a number in an accepted method reaches exactly the elements ECMA-335 allows (a reference store goes through `gc_update` and is compared in `jit_emitted`): the index may be negative, past the end or beyond the int32 range, the array may be null or have length 0, 1 or the int32 maximum. `CallArgumentsAgreeWithCli` states that an int32 passed to a native int or native unsigned int parameter arrives sign- or zero-extended, as ECMA-335 III.1.6 says, for every int32 value | pass, about 151k states |
| `jit_join` | `JoinSound`: every edge into a translated offset carries the registers the code after it reads, and types assignable to its entry types | violated: the loop head merges a fall-through into the snapshot but continues with the fall-through's stack (jit.c:1703), and no move is emitted for the second edge (jit.c:829). In `ldc.i4; ldc.i4; brtrue 5; pop; ldc.i4; pop; ret` the value reaches offset 5 in one register by the branch and in another by fall-through. The same mechanism lets `ldloc.0; ldc.i4; brtrue 5; pop; ldstr; stloc.1; ret` store an object in a string local. |
| `jit_emitted` | `EmittedCodeAgreesWithCli`: for every div, add, and, neg, not, compare, compare-branch, switch, isinst, castclass and unbox.any the body translates, and every array store and allocation, and every operand value and `exception_reg` value (for a cast: null and every run-time class the operand's static type allows), the emitted code gives the CLI's result | violated: `ldc.i4; ldc.i4; div` throws DivideByZeroException whatever the divisor, because the guard tests `exception_reg` (jit.c:1356), which outside a handler is 0 or unset. Checked separately, the other conjuncts fail too: `ldc.i4; ldc.i4; conv.i; ceq` compares -1 with -1 as unequal, because the int32 is zero-extended (jit.c:725); `ldc.i4; switch` with a negative index passes the signed bound check (jit.c:4021) and indexes MIR_SWITCH outside its table; division of the most negative value by -1 is unguarded. Among the casts: `ldloc.0; isinst IFoo` dereferences a null object (jit.c:49); `unbox.any Int32` of null loads from it (jit.c:3458) where the CLI throws NullReferenceException; `castclass Object` of a boxed Int32 throws InvalidCastException and `unbox.any Int32` of a boxed Boolean succeeds, because `isinstance` uses the verifier's assignability (types.c:656). Among the arrays: `ldloc.2; ldc.i4; ldloc.0; stelem.ref` stores an object, a Foo, into an object[] whose run-time class may be String[], with no ArrayTypeMismatchException (jit.c:3699). `ldloc.2; ldc.i4; ldstr; stelem.ref; ret` stores the reference at the byte offset given by the index register's number, not at the element: `gc_update` is handed `MIR_new_int_op(index_reg)` (jit.c:3728), `CompiledStElemRefAt`. `ldc.i4; newarr int32` with a negative count allocates where the CLI throws OverflowException (jit.c:3555). Length is then negative, and because jit_oob_check compares unsigned against the sign-extended Length, every index passes it. |
| `jit_leave_chain` | `LeaveReachesTarget` | violated: a second `leave` from the same try overwrites the finally's single `endfinally` label (jit.c:4107) |
| `jit_finally_by_exception` | `EndFinallyByExceptionAccepted` (an action property) | violated: `try { throw } finally { }` is rejected, because `endfinally` CHECKs a label that only `leave` sets (jit.c:4155) |
| `jit_throw_dispatch` | `ThrowReachesHandler` | violated: `ldloc.0; throw` inside `catch (Exception)` leaves the method. The catch is chosen from the static type `Object` (jit.c:4057, 1069), while the CLI chooses from the run-time class of the object. |
| `derivative_cache` | `TypeOK`, `UniqueDerivative`, `ReturnedFilled`, `EveryCallReturns`, `ImplementsAtomicDerivative` | pass, about 39k states |
| `generics` | `TypeOK`, `UniqueInstance` | pass, about 1.4k states |
| `generics_wellformed` | `InstanceWellFormed` | violated: every instance gets a NULL BaseType (`expand_type(instance->BaseType)`, types.c:951). Its members keep the definition as DeclaringType (types.c:855), so `ldfld` on a `G<Int32>` value fails the DeclaringType walk. |

`ThrowReachesHandler` compares two operators:
- `CompiledDestination` is where `jit_throw`'s compile-time search sends an object of class R thrown as static type T.
- `CliDestination` is a reference definition: the first catch whose type R derives from.

`StoreOrder` "any" stands for a weakly ordered machine. No run checks it, so the project makes no claim about that order. The code has no release barrier between the derivative's field stores and the publishing store (types.c:280, 323), so on such a machine an unlocked reader could see the pointer before the fields. Only x86-64's store order, which the runs check, rules that out.

Each property of a passing run has a mutant in `PROJECT.json`: a plausible
bug in the code it is about, which the run then catches.
- The push bound checked after the push.
- `stack_merge` without the depth CHECK.
- A backward branch that widens.
- `jit_branch_point` letting a branch enter a try.
- A base-class walk of one step.
- The base-class walk done for value types.
- For the derivative cache:
  - the second check dropped;
  - the found path keeping the monitor;
  - the publishing store before the fills;
  - `get_by_ref_type` publishing into `ArrayType`;
  - the wrong field read.
- A conversion that sign-extends for conv.u8.
- For generics: a chain search that looks only at the head, and an off-by-one instance index.

`jit_emitted` uses five instructions: a compare of an int32 with a native int
needs two constants, a conversion and the compare before `ret`, and a
stelem.ref needs the array, the index and the value before it. The values
tried (`Values`) are 0, 1, -1 and the extremes of each width, plus for the
64-bit types the int32 extremes and the values just past them.

**Bounds.** Five to seven instructions reach every shape these properties are
about:
- a forward branch over code that changes the stack;
- a loop back to a translated offset;
- two edges into one offset;
- a branch out of and into each region of a two-deep nesting.

`MaxStackSize` 2 makes the push bound bite. `jit_eh` and `jit_emitted` use 3,
the depth of array, index and value for stelem. In `jit_eh` the try is
four instructions long so that ldloc, ldc.i4, ldstr and stelem fit in it. The type tables are every
combination of three classes and two interfaces. Longer chains only repeat
the same steps.

For the caches, three threads are the fewest in which two race on one
derivative while a third takes the unlocked fast path. Two types make one
type's monitor independent of another's.

**Fairness.** `jit_method` is a sequential single pass, and its properties are
safety properties. `Returned` is the stutter after the function returns, so the
runs check deadlock.

In DerivativeCache and GenericInstances, every thread is weakly fair, and so is
every store buffer's drain:
- threads of compiled code are OS threads, which keep being scheduled;
- a thread blocked on a monitor is enabled again once the holder, which makes one call, exits;
- a store buffer drains on its own.

`EveryCallReturns` and the refinement's own fairness (`Return`, `Create`) are
checked under these assumptions.

## Not modelled, and the plan

1. **Runtime helpers**: the cast helpers are modelled; `managed_memcpy` (jit.c 67-91) hands the write
   barrier `*((System_Object*)from + current_offset)`, a pointer-scaled
   offset (jit.c:80), but the bytes it copies are right. Only the collector
   would see the wrong value, and the collector is not in the repository.
2. **Arguments, locals by address and fields** in JitMethod (arrays,
   casts, boxing and calls are modelled). Each would be its own opcode action with its CHECKs.
   Without ldloca and ldarg no by-ref of a value type reaches the stack, so
   the rejection of every instance call on a value type (its by-ref `this`
   fails `jit_null_check`'s object-ref CHECK, jit.c:3121) is a hazard with no
   property. A virtual callvirt on ldnull makes the translator call
   `type_is_interface(NULL)` (jit.c:3150); the model counts that as a failed
   translation.
   `switch` pops an index of any stack type (jit.c:4001); the runs give it
   int32 values only. `ldelem.r8` chooses `MIR_MOV` because of a repeated
   `tSystem_Single` test (jit.c:3838). Element values are abstracted away, so
   no property sees the instruction chosen.
3. **Accessibility** (types.c 756-848) is not modelled. Against ECMA-335
   II.8.5.3 it differs as soon as types nest: a private member is accessible
   only from its own type, not from nested types, and a nested type's
   visibility ignores that of its enclosing type. A check of it would be a
   violation run of its own; the project has none left. Interface lookup
   and isinstance are covered by the cast helpers.

The following are left out:
- Strings, name printing, `assembly_dump` and the opcode disassembler, which
  are formatting and output.
- The thread interface, which is declarations only.
- The MIR module and linker set-up.
- The ordering of nested clauses: ECMA-335 II.19 requires inner clauses to be
  listed first, and `RegionDiscipline` holds for that order.
