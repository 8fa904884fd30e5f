# TLA+ models of LDC's exception-handling lowering and the `mem` allocator

This directory holds TLA+ models of three files:

- `src/ir/irlandingpad.cpp` is LDC's landing-pad builder. It turns nested
  `try`/`catch`/`finally` into LLVM's `eh.exception`/`eh.selector`
  landing pads.
- `src/src/dmd/tk/mem.c` is the front end's memory package.
- `src/gen/abi.h` holds the ABI rewrite interfaces.

TLC checks the models, and the runs below show what holds and what does not.

## 1. The system (inventory)

### 1.1 Landing-pad builder (`ir/irlandingpad.cpp`)

Each function being compiled owns one `IRLandingPad`. Its state:

| code | model (`IRLandingPad.tla`) |
|---|---|
| `std::deque<IRLandingPadInfo> infos` (live handlers, innermost last) | `infos` |
| `std::stack<size_t> nInfos` (length of `infos` at each `push`) | `nInfos` (top = `Last`) |
| `std::deque unpushed_infos` (staged by `addCatch`/`addFinally`) | `unpushed` |
| `std::stack<BasicBlock*> padBBs` (unwind target of invokes) | `padBBs`, as indexes into `pads` |
| `LLValue* catch_var` (shared exception slot, made on demand) | `catch_var` (allocated or not) |
| the landing pads emitted | `pads`: owner, selector list, store of `eh_ptr`, cascade |

The operations and how they are modelled:

- **`addCatch`/`addFinally`** (`push_front` onto `unpushed_infos`) are `AddInfo`.
- **The catch `IRLandingPadInfo` constructor** gives the catch variable its storage, maybe through `getExceptionStorage`, then lowers the handler. It is `CatchCtor`, then the handler's statements, then `AddCatchStep`.
- **`push`** checkpoints the list, splices in the staged infos and calls `constructLandingPad`. It is `PushStep`, then one `WalkCatchStep` or `WalkFinallyStep` per live info, back to front, then `WalkDoneStep`. `constructLandingPad` does the following:
  - It builds the selector list: catch types inserted at the front, then `0` if there is any finally. This is `SelectorArgs`.
  - It stores `eh_ptr` into the slot if the pad has a catch and the slot exists.
  - It walks a copy of the list backwards:
    - A catch becomes a typeid test.
    - A finally truncates the *live* list to the top checkpoint, pops that checkpoint, and lowers its body inline. That lowering calls back into statement lowering.
  - It restores the list and checkpoints and pushes the pad.
- **`pop`** is `PopStep`/`Pop`.
- **`get`** is `Get`.

The statement lowering that drives the builder lives outside this repository (`TryCatchStatement::toIR`, `TryFinallyStatement::toIR`). It is modelled from the spec, in `Lowering.tla` (marked `spec_modelled` in PROJECT.json):

- A try-catch stages each clause, lowering its handler along the way. Then it pushes, lowers the body and pops.
- A try-finally calls `addFinally`, pushes, lowers the body, pops, then lowers the finally block for the normal path.
- Every call is an invoke to `get()`.

Code generation is one recursive sequential process. `work` is its continuation stack, and every call into `IRLandingPad` is one step. A finally replay runs in the middle of `constructLandingPad`, re-enters `toIR` and can push and pop again. This re-entrancy is the hard part.

What lowering must get right is dispatch. For each invoke and each class of exception:

- the same finally blocks must run in the same order as the language says;
- the same catch must be reached;
- the catch variable must be bound to the thrown object.

`EHSource.tla` states the language's semantics over statement trees. `SourceOutcome` gives the handler chain innermost first, then unwinds through it. `PadOutcome` gives what an emitted pad does: the personality routine takes the first selector entry that matches (or the cleanup `0`), and the cascade runs the finallys and branches on the typeid.

### 1.2 Memory package (`src/dmd/tk/mem.c`, release build)

The package's state is `mem_inited`, `mem_count`, `mem_behavior` (plus `oom_fp`), and the bump allocator's `heap` and `heapleft`. The model (`MemAlloc.tla`) adds the C heap (`blocks`: id -> size) and the pointers the client holds (`held`). A pointer is `[blk, off]`, where `blk = 0` means NULL, so arithmetic on a NULL arena shows up in the state. `size_t` is `Width` bits wide.

Each operation below is one action. Each retry loop `do malloc while (NULL && mem_exception())` is one step that ends in a block, NULL, or `exit`:

- `mem_malloc`/`mem_calloc`/`mem_strdup` (counted),
- `mem_free` (with its `assert(mem_count != 0)`),
- `mem_realloc` (NULL, zero size, in place, moved, failed),
- `mem_fmalloc`/`mem_fcalloc`/`mem_fstrdup` (round up to 16, carve, or refill the arena with `numbytes + 0x3C00` or `numbytes`),
- `mem_setexception`,
- `mem_init`/`mem_term` (the leak assertion).

`mem_exception` becomes `OomOutcomes`:

- `ABORTMSG`/`ABORT` exit.
- `RETNULL` gives up.
- `RETRY` retries.
- `CALLFP` may lead to any of these, depending on the application's handler.

Allocation calls happen between `mem_init` and `mem_term`, as the header (mem.c:53-56) asks.

`mem_exception`'s outcomes and `mem_setexception` live in `MemException.tla`, which both builds extend.

`MemRetry.tla` takes the out-of-memory path apart that `MemAlloc` takes as one step: `mem_malloc`'s `while (1)` around `malloc`, and `mem_exception`'s own `while (1)` around its switch, where `MEM_CALLFP` calls the application's `oom_fp` and switches again on the behaviour it returns. `pc` says where the running call is (`malloc`, `exception`, `handler`) and `behavior` is `mem_exception`'s local. The handler is application code; the model's handler follows the header's rule (mem.c:93-100): it returns `MEM_RETRY` or `MEM_CALLFP` only after it has released a block it cached, and otherwise any `MEM_E` value.

### 1.3 Memory package, `MEM_DEBUG` build (`MemDebug.tla`)

The debug build keeps every block on a doubly linked list headed by the static `mem_alloclist`, with a guard word before and after the user data. The model's state:

- `mem` holds `mem_count`, `mem_numalloc`, `mem_maxalloc`, the list head's `next` (`first`) and the blocks' `dl` records (`next`, `prev`, `nbytes`, guard state);
- `held` is the pointers the client holds;
- `status` is running, exited or assertion-failed.

The list pointers are block ids, `Nil` is NULL and `AllocList` is `&mem_alloclist`. The actions are `mem_malloc`, `mem_calloc`, `mem_strdup`, `mem_free`, `mem_realloc`, `mem_check`, `mem_checkptr`, `mem_setexception`, `mem_init` and `mem_term`, plus `Overrun`: the client writing past a block, which `mem_check`/`mem_free` must then report. `mem_calloc_debug` allocates even for `n = 0`, unlike the header comment (mem.c:166-171); `mem_realloc_debug` allocates the new block, copies, then frees the old one only if the allocation worked.

`MemHeap.tla` is the abstract allocator the header promises: a set of live blocks with their sizes, allocation of a fresh nonzero-sized block, free, realloc to a fresh block or in place, and stop. `MemDebug` maps its list onto it (`RefinesMemHeap`). The only request size on which the mapping says more than `ListIntegrity` is 0, so the refinement is checked in the `mem_debug_zero` run, where it fails (finding 6).

### 1.4 Run-time use of the exception slot (`CatchSlot.tla`)

The builder gives every function one exception slot (`getExceptionStorage`, irlandingpad.cpp:193). A catch variable that no nested function references *is* that slot (line 27); one that is referenced gets its own storage and a copy of the slot when its handler starts (lines 30-38). Every pad with a catch stores the thrown object into the slot (line 147). `CatchSlot` runs a stack of handlers: a throw caught inside the innermost handler runs a pad store and enters a new handler, a handler reads its variable, or it finishes.

### 1.5 Not modelled

- **The ABI rewrite (`gen/abi.h`)** is declarations of interfaces only, so there is no behaviour to check.
- **`MEM_NONE`** is just macros that forward to libc.
- **`mem_setnewfileline`, `mem_printl`, `mem_fillin`** and the debug build's diagnostics only record or print file and line information; they change no state a property is about.
- **`TryCatchStatement::toIR` and `TryFinallyStatement::toIR`** are not in this repository. `Lowering` models their calls into `IRLandingPad` from the spec, so the "try statement lowering" component stays partly modelled.
- **A double free in the debug build** (mem.c:624). `mem_free_debug` finds the header by pointer arithmetic and never looks the pointer up in the list. A stale pointer is caught only if its storage still holds the `BADVAL` stomp. The model's client frees only pointers it holds, and block ids do not tie a reused address to the freed pointer. The hazard list records it without a property.
- **Out-of-range `MEM_E` values** (mem.c:378). They reach `default: assert(0)`, and with `NDEBUG` `mem_exception` spins forever. The models take the five documented values only.
- **Pads that clean up without catching.** A pad whose try has a catch stores `eh_ptr` into the slot whenever it is entered, also when it is entered only for a cleanup and the exception passes on. `CatchSlot` stores only for the catch that takes the exception, so it shows fewer ways to clobber the slot than the code has.
- **An `oom_fp` handler that frees the client's memory** is modelled in `MemRetry` only. `MemAlloc` takes the whole retry loop as one step, so a full heap under `MEM_CALLFP` never ends in a block there.

## 2. Modules

| module | models |
|---|---|
| `EHTypes` | `IRLandingPadInfo` as records; constants for classes and catch types |
| `EHSource` | the language's try/catch/finally semantics over statement trees (the reference) |
| `IRLandingPad` | the builder's state and one operator per operation or walk step |
| `Lowering` | `EXTENDS IRLandingPad, EHSource`: lowering a function body step by step |
| `MCLowering` | classes, the subclass relation and the sets of bodies to lower |
| `MemException` | `mem_behavior`, `mem_setexception` and the outcomes of `mem_exception`'s retry loop, shared by both builds |
| `MemAlloc` | the release build of mem.c |
| `MemRetry` | `mem_malloc`'s retry loop and `mem_exception`'s loop step by step, with the `oom_fp` handler |
| `MemHeap` | the abstract allocator: live blocks and their sizes |
| `MemDebug` | the `MEM_DEBUG` build: the allocation list, guards, counts; refines `MemHeap` |
| `CatchSlot` | the run-time contents of the shared exception slot and the catch variables |

## 3. Runs

| run | cfg | result | shows |
|---|---|---|---|
| lowering_core | MCLowering.cfg | pass (1.1M states, ~1 min) | `TypeOK`, `ScopeStackMatchesPosition` and `DispatchMatchesSource` hold for the bodies below, and only for them |
| staging_pollution | MCLowering_staging.cfg | violation | finding 1 |
| finally_replay_target | MCLowering_replay_target.cfg | violation | finding 3 |
| finally_replay_recursion | MCLowering_replay_recursion.cfg | violation | finding 2 |
| mem_count | MemAlloc_count.cfg | pass (24k states) | `CountMatchesHeld` under every OOM behaviour |
| mem_fmalloc | MemAlloc_fmalloc.cfg | pass (13k states) | `FmallocPointersValid`, `FmallocDisjoint` when `mem_exception` never returns 0 |
| fmalloc_null_arena | MemAlloc_null_arena.cfg | violation | finding 4 |
| fmalloc_size_wrap | MemAlloc_wrap.cfg | violation | finding 5 |
| mem_debug_list | MemDebug.cfg | pass (157k states) | `ListIntegrity` (the list is a well-linked chain from `mem_alloclist` through exactly the live blocks), `AccountingMatchesList` (`mem_count`, `mem_numalloc` match the list) under overruns, failed frees and failed reallocs |
| mem_debug_zero | MemDebug_zero.cfg | violation | finding 6 |
| mem_retry | MemRetry.cfg | pass (896 states) | `CallReturns`: under weak fairness of the steps inside a call, every `mem_malloc` that meets a full heap returns or exits |
| catch_slot_shared | CatchSlot_shared.cfg | violation | finding 7 |

**Bounds.** The core run lowers every body made of two kinds of nesting:

- **Wide:** up to two nested try-catch statements of one or two clauses. Each clause has type `Base` or `Derived`, a variable or none, and a call or skip as its handler.
- **Deep:** three nested tries of one clause each.

Each shape may have one try-finally, innermost, directly around a call or skip and with a call or skip as its finally block. A try-finally is never inside another try-finally and never has a try in its body.

The classes are `Base`, `Derived <: Base` and an unrelated `Other`. This covers the following:

- a subclass caught by a base-class clause;
- clause precedence between the two types;
- an exception that nothing catches;
- finallys below and between catches;
- catches that share the slot.

**What the core run leaves out.** The core shapes are narrower than "every nest without a try in a handler or finally block", and the property is not claimed beyond them. A try-catch inside a try-finally body already breaks `ScopeStackMatchesPosition`: the pad's walk truncates to the try-catch's checkpoint, so while the finally block is lowered `infos` still holds the finally and `padBBs` its own pad (irlandingpad.cpp:164-167, the mechanism of finding 2). A try-finally inside a try-finally whose finally block calls breaks `DispatchMatchesSource` (finding 3). Tries inside a handler break it too (finding 1). Each of these shapes has its own violation run, which shows what goes wrong. `MaxWork` (20) bounds the lowering stack. In the recursion run the unbounded recursion hits this bound and stops, and `LoweringTerminates` reports it.

**Allocator bounds.** `Width = 16` stands for a 64-bit `size_t`: the constants `0x3C00` and `16372` are the code's own, and only the wrap point moves. The sizes are:

- 0;
- 1, which rounds to 16 and gives a 15376-byte arena with room for many carves;
- 2000, above the 16372 threshold, which gives an exact-size arena;
- 15000.

There are three C heap blocks, at most three or four pointers held at once, and at most two nested `mem_init` calls.

**Debug-build bounds.** Three block ids, request sizes 1 and 2 (so that realloc changes size; `realloc(p, 0)` is always possible; 0-byte allocations are the subject of `mem_debug_zero`), at most three held pointers and two `mem_init` calls, and the OOM behaviours `ABORTMSG`, `RETNULL` and `RETRY`. Three blocks are enough for a block in the middle of the list to be unlinked, the case where both neighbours' pointers change.

**Catch-slot bounds.** Two objects, handlers nested three deep, and all three kinds of catch. The violation needs an outer handler with a shared variable and one inner catch; TLC's shortest trace is exactly that.

**Retry-loop bounds.** Three heap blocks, the flags `ABORTMSG`, `ABORT`, `RETNULL` and `CALLFP` (the ones the header lists for `mem_setexception`), and every `MEM_E` value as a handler result. `mem_setexception(MEM_RETRY)` with a full heap loops forever by construction, as the header warns, so the run leaves it out.

**Fairness.** `Lowering` assumes weak fairness of `Next`: code generation is one thread that keeps running. Its only liveness property, `LoweringTerminates`, is checked in the recursion run, where it fails. On the core shapes every finally block is a leaf, so lowering ends unless a step gets stuck, and the deadlock check would report that. `MemRetry` assumes weak fairness of the steps inside a call (`InCall`) and none for the client's calls: the program is single-threaded, so once inside `mem_malloc` it keeps running until the call returns. `MemAlloc`, `MemDebug` and `CatchSlot` assume none, since the client (or the program) may stop at any time; they check safety only.

## 4. Findings

1. **Staging pollution** (irlandingpad.cpp:64, 76). Catch clauses are staged in `unpushed_infos` while the earlier handlers are lowered. A try inside the second handler therefore splices the outer try's first catch into its own pad and tests it first. The outer try's pad then lacks that catch.
2. **Wrong truncation during a finally replay** (irlandingpad.cpp:164). The replay pops the *top* checkpoint, not the finally's own. With a try-catch inside a try-finally, the finally body is lowered with its own finally still live. A try inside that body replays it again, forever.
3. **Wrong unwind target during a finally replay** (irlandingpad.cpp:167, 99). `padBBs` is left as it is while a finally body is lowered inline. A call in an outer finally, replayed by an inner pad, therefore unwinds to the pad that runs that same finally again.
4. **NULL arena** (mem.c:955). After a failed refill under `MEM_RETNULL`, `heap` is NULL and `heapleft` is large, so later calls return `NULL+16`, `NULL+32`, and so on.
5. **size_t wrap** (mem.c:944). `numbytes + 0x3C00` wraps, and a huge request gets a 16-byte arena.

6. **Debug `malloc(0)` is not NULL** (mem.c:592). The header says `mem_malloc(0)` returns NULL; the debug build allocates a list node for it and returns a live pointer, so the debug build does not implement the abstract allocator for size 0.
7. **Nested catch clobbers the catch variable** (irlandingpad.cpp:27, 147). A catch variable that aliases the shared slot is overwritten by the pad of any catch inside its handler, so after the inner handler ends the outer variable holds the inner exception.

## 5. Further work

- An abstract scope-stack specification (a stack of try frames with push and pop), with `IRLandingPad` refining it on the shapes where it is correct. `ScopeStackMatchesPosition` checks the same correspondence today as an invariant.
