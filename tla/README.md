# A verification project for libdft-dr

libdft-dr is a dynamic taint engine on DynamoRIO: it labels every byte a program
reads from a tracked input file with its offset, carries the labels through the
instructions the program executes, and reports which offsets reach compares and
address computations. These TLA+ modules model it, from the hooks of the system calls to
the summaries of library functions; TLC checks them on small instances, and TLAPS proves,
for all instances, what the tag map promises, that input bytes and only they get their
offsets, that the propagation neither loses nor misplaces a label, and that skipping,
summaries and sinks hit the code they are meant for, and that a summary has the effect of
its function.

`PROJECT.json` lists components, runs, mutants, the map from definitions to source
lines, findings, hazards and theorems.

## 1. Inventory

| Component | State | Operations | Hard behaviour | What makes it correct |
|---|---|---|---|---|
| Tag map (`tagmap.*`) | `g_sets`, `g_intern`, `g_combine`, `tag_dir` | label, union, set, get and clear of shadow bytes | ids without reference counts; memoized answers; pages allocated on demand; addresses at page, table and directory ends | equal tags are equal sets, for good; the memo is the union; the whole is a map from bytes to sets |
| Syscall dispatch (`libdft_api_dr.cpp`) | `syscall_ctx_t` per thread | filter, pre event, post event, default clean-up | failing calls reach the hooks too | buffers the kernel wrote lose their tags |
| File source (`syscall_desc_dr.*`, `osutils_dr.*`) | `fdset`, the syscall table | hooks of open, openat, close, dup, dup2, dup3, read, pread64, mmap, munmap | descriptors change behind the hooks; the position is read after the call, and a FIFO has none; mmap's result is an address or an errno | `fdset` is what resolves to the input; every byte of the input has its label, no other byte has one |
| Opcode propagation (`libdft_core_dr.cpp`) | `gpr_file` | one handler per operand shape, 40 cases of the router | sub-registers, implicit operands, handlers that run before the instruction and write several outputs | no offset is lost, no offset is invented |
| CMP and LEA sinks (`libdft_core_dr.cpp`) | none | record, filter, emit | the cap on offsets per byte | every compare with the input is reported |
| Sink registry, function and PC-range sinks (`src/api_sinks.cpp`) | registered sinks, resolved addresses | register, resolve at module load, dispatch | order of registration, init and loads; unloads; decisions taken at translation | a registered sink fires for its function, and no other |
| MNT consumer (`mnt_consumer_dr.*`) | images, last-image cache, routine ranges | init, module load, unload, `add_rtn_range`, `is_mnt` | stale cache and ranges, lazy sorting, truncated files | a skipped instruction is one that may be skipped |
| Function summaries (`sdft_*`) | summaries, wrapped addresses | load, find, wrap at module load, propagate at call | lengths from the program's arguments, aliases, IFUNCs, overlapping buffers, a cap on bytes | the summary has the effect of the function |
| Life cycle, sources (`src/api_lifecycle.cpp`, `src/api_sources.cpp`) | options, file name | init, register, shutdown | order of calls | options are in force before the first event |
| Public tag API (`src/api_tag.cpp`) | none | wrappers of the tag map and the register file | - | same as the tag map |
| EWAH (third party), clients, tools, tests | - | - | - | not modelled |

How they interact: DynamoRIO calls the syscall events and, for every instruction of a
block about to be translated, the router, which inserts clean calls that run before
the instruction. Hooks and handlers read and write the tag map; handlers also read and
write the register file of the thread. Sinks are called from handlers. MNT decides
whether an instruction gets handlers at all; summaries replace the handlers of a
routine. The engine supports one application thread (DESIGN.md, section 9).

## 2. Modules

| Module | Models |
|---|---|
| `TaintMemory` | abstract specification of the tag map: bytes and held tags are label sets |
| `TagMap` | the tag map, and its refinement mapping |
| `TagMapProofs` | theorems about `TagMap` |
| `LoopTheorems` | induction on numbers, loops and remainders, for the other proofs |
| `MCTagMap` | instances for TLC |
| `FileSource` | syscall dispatch, hooks and `fdset`, beside the kernel's descriptors |
| `FileSourceProofs` | theorems about `FileSource` |
| `MCFileSource` | instances: sets of calls |
| `Propagation` | router, handlers and reports, beside the flow of the x86-64 instructions |
| `PropagationProofs` | theorems about programs in `Propagation`: no label is lost |
| `PropagationStepProofs` | theorems about single steps: exactness, attribution, the byte loop |
| `MCPropagation` | instances: sets of instructions and registers |
| `SummaryTable` | the table of summaries: the lines of its file and `find` |
| `MntConsumer` | images, cache and bodies of the MNT consumer, with its operations |
| `MntConsumerProofs` | lemmas about reading, sorting and searching |
| `Instrumentation` | composes both with life cycle, registries, module loads and translation |
| `InstrumentationProofs` | theorems about `Instrumentation` |
| `MCInstrumentation` | an instance: a library, a plugin, a file of summaries |
| `Summaries` | extends `Propagation` by calls of summarised functions, beside what they do |
| `SummariesProofs` | theorems about `Summaries` |
| `MCSummaries` | instances: functions of the C library and their lines |

Every module above the tag map works with label sets instead of ids. That is sound
because `TagMap` implements `TaintMemory`, which is proved.

Definitions named `..._late`, `..._unchecked` and the like, with a comment "Fault:", are
deliberately wrong variants of the definition after them. Nothing uses them: putting
one in the place of the right definition must break the property `PROJECT.json` names,
which shows that the property can fail.

### TagMap

A container, or a level of the page table, is a partial function; a key outside its
domain is absent or a NULL pointer. `held` is the tags that callers keep in registers
and locals between calls. `Set` is `dft_label::set`; `tag_combine` is three actions, one
per way through it; `Setb`, `Clrn` and `Getb` are the accessors. `ewah_sprint` is modelled
by the offsets the text names, which is all its use as a key depends on. `ID_SPACE` is
the 2^32 ids of a `uint32_t`; `intern_set` takes the id of a new set modulo it, and the
table is assumed never to outgrow it (each set also owns a printed copy, so the memory
is exhausted before). Failing allocations end the process and are not modelled.

### FileSource

A system call is three steps: the pre event saves it, the kernel executes it, the post
event runs the hook. The kernel is external: `fds` and `ofds` are the descriptors and the
open file descriptions with their positions, `content` says for each byte of memory which
byte of the input it holds. With `Sharing`, a process that shares a description moves its
position between the last two steps. `fstat` stands for all calls that only have a map of
written arguments, `readv` and `fcntl` for calls that are saved but have neither hook nor
map, `lseek` for calls the filter drops. There are four files: the input, another file,
and a directory and a FIFO whose paths also contain the registered name, which is all
`in_dtracker_whitelist` looks at. `fstat` clears all that the kernel writes; a few entries
of the table give less than that (`pipe`: one `int` of two, `syscall_desc_dr.cpp:123`), and
these are not modelled. A failed dup of a tracked descriptor puts its errno into `fdset`
(`:859`); no call succeeds on a negative descriptor, so `FdsetSound` speaks of real
descriptors only. A FIFO has no position: the `lseek` of a hook fails, and the hook goes on
with the error (`lseek_cur`). The bytes of a mapping between its length
and the end of its last page are not modelled.

### Propagation

`tag` is what the engine keeps and `dep` what it is about: for every byte of registers
and memory the input bytes it is computed from. Flow through addresses, through flags
and through the carries of a sum is not flow, which is the engine's own notion. A product,
a quotient, a shifted value and a scaled index are computed from all the bytes they need:
the low half of a product from the bytes at and below each byte, the upper half, a quotient
and a remainder from every byte. An action is one instruction: its clean calls and its effect. `Op` names instructions, and separately the
operand shapes whose handling differs (`overlap`, `mul_acc`, `shld_self_cl`, `shld_mem`,
`lea_scaled`, `lea_rel`, `cmpxchg_alias`, `stack_pointer`, `imul_byte_mem`), so a run can say
which ones it is about. `Covered` is the set of those that are propagated soundly. Left out
are the multiplications and divisions in all forms, ADC, the sign extensions of the
accumulator, BSF, scaled LEA, SHLD into memory and a few aliased operands; section 3 says
what is lost there. `m2m_xfer` is written as one expression; `CopyLoop` is the byte loop of
the code, and the two are proved equal. The widths are scaled: 4 bytes stand for the 8 of
a register, 2 for the 4 whose write clears the rest; the 2-byte AX of the byte forms of MUL and IMUL is the true
width. 16-bit operands behave as 8-bit ones and are not separate. `Init` labels every
byte with an offset of its own, the state that tells most apart; a tag is never
compared with anything, so fewer or shared labels are images of it.

Assumed: a scratch register for an address can always be reserved
(`acquire_mem_addr` gives up silently otherwise), a thread context exists.

### SummaryTable and MntConsumer

A line of `libc_summaries.conf` is given by its tokens; a glob pattern is the set of names
it matches. The table is built once before the program runs and never changes, so it is
constant. In `MntConsumer` a `.mnt.bin` file is a header that is accepted or not, the
entries it announces, and how many of them can be read. `sort` is the sort of the C++ library; the binary
searches are its halving searches, because a list that is not sorted is exactly what
would make them go wrong. `s_last_img`, a pointer, is modelled by the image it showed
when it was set: what a pointer that is not reset would still show.

### Instrumentation

The client registers sinks and calls `init`, in any order the constants allow; then the
program loads and unloads modules and executes their instructions. `Load` runs the three
module-load handlers in their order of registration, `Unload` the one handler there is,
`Execute` translates an instruction when it is not in the code cache (`event_bb_insn`) and
records in `last` what running it calls. DynamoRIO is external: its code cache drops the
translations of an unloaded module, its table of wrapped functions stays. A module is a
size, the offsets of its instructions, its files and its symbols; for an IFUNC the offset
where calls arrive differs from that of the symbol.

### Summaries

`Summaries` adds one action, `Call`: the wrap runs at the entry (`sdft_pre`, `dispatch` and
a handler per shape; the tags after it are `Entered`), then the body, whose instructions are
skipped unless it is an IFUNC (`Body`) or has no line in the file. `Fun` is external and says what a function really does, in the vocabulary of a
summary, so that `dep` gets its effect and `tag` the effect of the handler. Pointers and
lengths that a caller passes are assumed to be computed from no input. `CopyTags` is the
byte loop as one expression, with the effect `M2mIsByteLoop` shows of `m2m_xfer`.

## 3. Runs

Passing runs:

| Run | Bounds | Shows |
|---|---|---|
| `intern` | three offsets up to symmetry, two held tags, tables of up to six sets | canonicity, inverse tables, memo, immutability |
| `memory` | page table 2 x 2 x 2; addresses on both sides of a byte, page and table boundary and past the end | the tag map implements `TaintMemory`; the one-expression `file_tagmap_clrn` is the byte loop |
| `source_exact` | two descriptors, two bytes, a file of two bytes, all hooked calls; all but dup2 and dup3 may fail, and these do not hit a descriptor of the input (`Replacing`) | `fdset` and labels are exact |
| `source_fifo` | the same calls, one byte of memory, a FIFO whose path matches | no false offset from a source without a position; every delivered byte of the input is tagged in the end |
| `source_unhooked` | unhooked calls, a second process, mmap_paint_method 0, MAP_GROWSDOWN | `fdset` stays sound |
| `step` | every instruction once, or one call of ten functions with lengths up to three, a cap of two and nine bytes of memory; seven registers, all widths | only written bytes change, from operands; a call loses no offset in reach of its handler; `m2m_xfer` is its byte loop |
| `covered` | two instructions of 24 kinds, three registers, all widths; the legacy writer with a limit of one offset per byte, which one addition exceeds | no offset lost, every compare within the limit reported, moving instructions exact |
| `modules` | a library with an IFUNC, an alias, a truncated and a whole file, at one address; a plugin at two; two registrations; three policies | `is_mnt` is exact, what is skipped is justified, summaries and sinks fire where they should |

Two descriptors are enough for one descriptor of the input beside one of something else
and for reuse of a number; two bytes for a short read and a partial overwrite. The
properties of `Propagation` are invariants that one instruction can break, from a state
in which they hold; in `covered` the second step lets it start from tags that are already
mixed. In `step` one step is enough: handlers never compare tags, they only copy and unite
them, so what they do to shared labels is the image of what they do to distinct ones. A
cap of two with lengths up to three has buffers below, at and above it. In `modules` the
state space is finite without a bound on steps: the library can be reloaded in the
middle of everything, the plugin moves, and the cache can point at either. There is no
deadlock in any run.

Fairness: `FairSpec` assumes weak fairness of `PostSyscall` only, that is, DynamoRIO raises
the post event of a call that has returned. Nothing is assumed of the program, nor that
a call returns: a read of a FIFO may block. The other modules state no liveness: their
operations are calls that always return, and nothing in them waits.

Runs that find a disagreement between the code and what the repository says of it
(`findings` has the quotations):

| Run | Shows |
|---|---|
| `dup2` | dup2 of another file onto a descriptor of the input leaves it in `fdset` |
| `mmap_errno` | a failed mmap of the input with an error other than EPERM makes the hook read a tag through NULL |
| `late_sink` | a function sink registered after `init`, when none was before, is never called; a client of the repository does just that |
| `conservative` | the default summary of the conservative policy has no length, so it clears RAX instead of tainting it |

More of the kind, which the models contain and the passing runs leave out. Each is seen
by running the model with the constants named:

| Seen with | What the code does |
|---|---|
| `Calls` with `mmap`, `mmap_type` = 0, `MmapNotPainted` | mmap_paint_method 0 still paints, with offsets from the position (`syscall_desc_dr.cpp:941`; `include/libdft_dr/lifecycle.h:28` says it does not paint) |
| `Calls` with `fcntl`, `FdsetComplete` | the descriptor F_DUPFD returns is not tracked (`syscall_desc_dr.cpp:223`) |
| `Calls` with `readv`, `InputBytesTagged` | buffers of readv are neither painted nor cleared (`:117`) |
| `ofds` in `source_exact` | to measure the file, the mmap hook seeks the program's own descriptor to its end and leaves it there (`:945`): a read that follows returns nothing |
| `Sharing`, `InputBytesTagged` | the position is read after the call, when another process may have moved it (`:785`) |
| `Op` = `movzx`, all widths, `Propagation!NoFalseOffsets` | a 32-bit destination keeps the tags of the upper half, which the instruction clears (`libdft_core_dr.cpp:517`, against `DESIGN.md:307`); so do all 32-bit writes |
| `Op` = `adc`, `NoFalseNegatives` | ADC is not in the router (`:2203`), `DESIGN.md:154` lists it as covered |
| `Op` = `shld_self_cl`, `TagsComeFromOperands` | SHLD of a register with itself by CL takes CL for the data operand (`:1671`) |
| `Op` = `imul_byte_mem`, `TagsComeFromOperands` | IMUL of a byte in memory also takes the tags of the byte behind it (`:1359`) |
| `Op` = `cdq` or `cwde`, `NoFalseNegatives` | the sign is copied byte by byte instead of from the top byte (`:1283`, `:1295`) |
| `Op` = `mul` or `div`, `NoFalseNegatives` | only the operand is united into RAX and RDX, byte by byte: the tags of RAX never reach RDX, nor those of AL AH (`:325-340`) |
| `Op` = `imul`, `imul3` or `imul_byte`, `NoFalseNegatives` | a product gets the tags of its factors byte by byte (`:1359`), IMUL of a byte those of AL in AL only |
| `Op` = `mul_acc`, `NoFalseNegatives` | MUL by RAX or RDX is not propagated (`:1308`) |
| `Op` = `bsf`, `NoFalseNegatives` | the tags are copied byte by byte, while the result is computed from every byte of the source (`:1246`) |
| `Op` = `lea_scaled`, `NoFalseNegatives` | the tags of a scaled index stay in their bytes (`:568-597`) |
| `Op` = `lea_rel`, `Propagation!NoFalseOffsets` | LEA relative to RIP returns early: the destination keeps its old tags (`:1428`) |
| `Op` = `shld_mem`, `NoFalseNegatives` | SHLD and SHRD into memory return early (`:1659`) |
| `Op` = `cmpxchg_alias`, `NoFalseNegatives` | CMPXCHG whose source is the accumulator or the destination is not propagated (`:1905`) |
| `Op` = `overlap`, `NoFalseNegatives` | a memory-to-memory move with overlapping operands smears tags (`:316`) |
| `Base` where the plugin may be loaded over the place of the library: at 5, `SkipIsJustified`; at 4, `SummariesApplied` | `s_ranges` and `s_wrapped` outlive their module: code loaded there later is skipped, or not wrapped (`sdft_hook_dr.cpp:301`), though `mnt_consumer_dr.h:7-8` speaks of "PCs proven by static analysis to never carry input-derived taint" |
| `FuncChoice` with module `plugin` or `""`, `FuncSinksFire` | a resolved function sink is not resolved again, neither in a second module nor after a reload elsewhere (`libdft_core_dr.cpp:2278`) |
| `FuncChoice` of `memcpy`, `FuncSinksFire` | a function sink on an IFUNC wraps its resolver (`libdft_core_dr.cpp:2284`) |
| `last.ranges` in `modules` | PC-range sinks do not fire in skipped code (`:2217`); `include/libdft_dr/sinks.h:5` says "every insn" |
| `Body` with `toupper`, `CallsKeepTaint` | for an IFUNC with a PROP_SCALAR summary the body runs on argument registers the wrap has cleared, and the tag of RAX is lost (`sdft_hook_dr.cpp:210`), against "never correctness" (`:315`) |
| `CallsKeepTaint` without `Overlaps` | memmove between overlapping buffers smears tags (`:159`) |
| `CallsKeepTaint` without `Beyond` | tags behind MAX_PROP_BYTES and the NUL of a string keep what they were (`:156`) |
| `Conf` with a `dst` or `len` of the words `ret` | a copy to the returned buffer is not carried out (`:152`), a length given by the result is 0 (`:105`) |
| `Conf` with a length of 0 to 5 | a small literal length is taken for an argument (`sdft_summaries_dr.cpp:96`) |
| `Env` = {""} | without VUZZER_MNT_POLICY the policy is lean (`mnt_consumer_dr.cpp:60`), `src/api_lifecycle.cpp:40` says off; the list of opaque modules becomes a value that also means lean |
| a truncated file as the only candidate, `IsMntExact` with `Accepted` on both sides | its first offsets are used although the log says the image is not skippable (`mnt_consumer_dr.cpp:178`) |
| nested symbols, `IsMntExact` | an address in an outer body behind an inner one is not found (`mnt_consumer_dr.cpp:252`) |

## 4. Proofs

`TagMapProofs`, for every set of offsets and slots, every geometry and every id space:

- `TypeCorrect`, `TagsAreCanonical`, `TablesAreInverse`, `MemoIsSound`: the four
  conjuncts of the inductive invariant `Inv`. Canonicity alone is not inductive: that a
  new set is not in the table follows from a failed lookup only when the intern table is
  the exact inverse of the set table. The memo needs canonicity and the immutability of
  the sets it was computed from; the type invariant needs the memo to answer with ids.
- `SetsAreImmutable`: no step changes what an id stands for.
- `Refinement`: `Spec => TM!Spec`, with the shadow bytes mapped to the label sets of
  their ids. Its core is arithmetic: the three page-table indices determine the address
  (`IndicesInjective`), so a store changes exactly one byte (`SetbGetb`) and a clear exactly
  its range (`ClrnGetb`).

- `ClrnIsTheByteLoop`: `file_tagmap_clrn`, one expression in the model, leaves what the
  loop over `file_tagmap_clrb` leaves, for every address and length.

They rest on the assumptions in `TagMap`: the sizes are positive, addresses and lengths
are naturals, the id space is not empty.

`PropagationProofs`, for every set of registers, every size of registers and memory, and
programs of any length:

- `TypeCorrect`, for all instructions and operand shapes: no handler leaves the register
  file or its operands.
- `NoTagIsLost`: `Op \subseteq Covered` implies `Spec => []NoFalseNegatives`.
  `NoFalseNegatives` with `TypeOK` is inductive. Every handler is a `Store` into `tag` and
  every instruction a `Commit` into `dep`; the lemmas say which bytes these change
  (`StoreAt`, `CommitAt`) and that one stays below the other when the stored values do
  (`CommitBelowStore`, `CommitBelow`, `BelowStore`). Then there is one step per instruction.
  The ones with two outputs need more: XADD and CMPXCHG write their outputs in another
  order than the machine, which is harmless because operands of one width in one register
  are the same or disjoint (`SameLanes`); a copy between memory operands is a plain copy
  only without overlap (`M2mCopies`).
- `SinksReportInputs`: `Op \subseteq Covered` implies `Spec => InputsReported`, for registered
  sinks, the legacy writer and CMPS, and any limit. That a record with an offset passes
  the filters when no byte is over the limit needs the sets of offsets to be finite
  (`OffsetsFinite`), since the filter counts them (`TokenFacts`).

They rest on the assumptions in `Propagation`: a double word is wider than a byte and
narrower than a register, memory has room for a register, the operand widths are these
three, there are finitely many registers, and RAX and RDX are among them.

`PropagationStepProofs`, under the same assumptions:

- `MovesKeepExactness`, for all instructions: from a state in which tags are the flow, an
  instruction that moves bytes, or combines them byte by byte (`Exact`, without RIP-relative
  and scaled LEA), and clears no upper half leads to such a state. There the machine writes as the engine does (`CommitIsStore`).
- `TagsAreAttributed`, under `OwnOperands`: the two shapes in which the code takes a wrong
  operand (`shld_self_cl` and `imul_byte_mem`, section 3) are absent, and widths above a
  byte are even. Only bytes an instruction writes change, and they get what its operands
  carry. An instruction is a sequence of stores; one lemma composes them (each store
  inside an operand written, with values of the operands read), so what is left is where
  each value comes from. Even widths are needed for the sign extensions, whose handler copies
  the lower half of the accumulator over the upper one.
- `M2mIsTheByteLoop`: the copy as one expression is the byte loop, also when the operands
  overlap, where a byte gets the tag of the first byte of its period.

`FileSourceProofs`, for any number of descriptors, any memory, any file that fits the label
space and any set of calls. The properties speak of the moments between two calls; the
inductive invariants also say what holds between the kernel's step and the hook's.

- `TypeCorrect`, without hypotheses. `TypeInv` says that the open
  file descriptions are exactly those some descriptor refers to (so a new one is free) and
  what each result says about its call.
- `NothingElseIsTracked` (`FdsetSound`) for a `CarefulProgram`: it does not replace a
  descriptor of the input with dup2 or dup3 and does not call them for a closed one.
  `SoundInv` allows one stale descriptor, the one a close has freed and its hook has not
  yet dropped, and adds that a twin refers to the same file.
- `NoSourceIsMissed` (`FdsetComplete`) for a program without `fcntl`. `CompleteInv` allows one
  missing descriptor, the one the call has just returned, provided the hook will insert it.
- `OffsetsAreExact` (`InputBytesTagged`) for an `ExactProgram`: no `readv` or `fcntl`,
  mmap_paint_method 1, no second process, no MAP_GROWSDOWN. `TaggedInv` exempts the buffer
  the kernel has just filled and says of it that each byte is the one the hook will compute
  from the position or the offset; it needs `CompleteInv`, or the hook would not paint.
- `NoOffsetIsInvented` (`NoFalseOffsets`) for a `CleanProgram`: a careful one without `readv`
  and MAP_GROWSDOWN, with mmap_paint_method 1. FIFOs and a second process are allowed:
  labels counted from -1 wrap to the top of the label space, above every offset
  (`FifoLabel`). `CleanInv` needs `SoundInv`, or the hook might paint another file.

Each hypothesis leaves out what section 3 shows to be wrong; the instances of `source_exact`
and `source_fifo` satisfy all of them. `BoundsAssumption` is used throughout: the input is
shorter than the label space.

`InstrumentationProofs`, for all modules, symbols, files, policies and registrations, and any
order of loads, unloads and executions:

- `ConsumerTypes`, without hypotheses; `CodeInv` is the part about the code cache.
- `SummariesAreApplied`, under `OwnPlaces` (no address is used by two modules, or by a module
  loaded at two places). `WrapInv`: every wrapped address is the entry of a summarised
  function, with a summary of one of its names, and no loaded module has an entry that is
  not wrapped. The wraps outlive their module, which is why the hypothesis is needed.
- `SinksOfFunctionsFire`, under `SteadySinks`: registered before `init`, `OwnPlaces`, and the
  function a sink names has one address. `FuncInv`: a pending registration is resolved
  exactly when a module that has the function was loaded, to that address.
- `SkipsAreJustified`, under `OwnPlaces`. `ImageInv` says that images and the cache belong to
  loaded modules and hold what their files list; `BodyInv` that every body is one of a
  wrapped function; `SkipInv` carries the reason from translation to execution, which an
  unload ends because the code cache drops the translation.
- `IsMntIsExact`, under `OwnBodies`: `OwnPlaces`, and bodies of one module do not overlap
  (only the last body that begins before an address is looked at). This one needs what
  the algorithms compute: `MntConsumerProofs` shows that reading the candidates keeps a
  prefix of what they list, that sorting keeps the elements and orders them, and that the
  halving search finds an element of a sorted list and only such.

The instance of `modules` satisfies the three hypotheses.

`SummariesProofs`, for every library of functions and every file of summaries, with buffers
anywhere in memory, strings of bytes or wide characters and lengths on both sides of
`MAX_PROP_BYTES`, under `Described`: a line of the file describes the function it is for, and
no function whose body is propagated after its wrap has a PROP_SCALAR summary (the case
section 3 shows to be lost).

- `CallTypes`: a call leaves neither the register file nor the buffers.
- `SummariesLoseNothing` (`CallsKeepTaint`). The effect of a function (`EffectIs`) and of its
  handler (`HandlerIs`) are each stated byte by byte: memory, RAX, the other registers. They
  differ in how far they look: the handler's scan of a string stops at the cap and the
  function's at the end, and the shorter one is the longer one cut off (`ScanShort`, also
  for wide characters, of which the cap is a multiple). The three cases, body only, wrap
  only, and body after wrap, then compare two such descriptions; the last one is where
  overlapping buffers would be copied twice.
- `CallsAreAttributed` (`TagsComeFromOperands`), with `OwnOperands` for the instructions between
  the calls: a call changes the destination and the caller-saved registers, with offsets of
  its arguments and of the buffers it reads. Here overlapping buffers are included: a byte
  of the copy may get the tag of a wrong byte, yet of one in the source (`CopyIndex`).

They rest on `LengthAssumption` and `FunctionAssumption` in `Summaries`: the cap is a number of
whole wide characters, a function takes its buffers and its length from the six argument
registers, and a copy has a source and a destination. The instance of `step` satisfies
`Described` and `OwnOperands`.

Loops are recursive functions on numbers, and the library's induction theorems take a
predicate the provers cannot instantiate. `LoopTheorems` states induction for a set of
numbers instead, from the well-foundedness of the numbers (`UpTo`: a set that holds 0 and
with each number up to n the next holds them all), and that a loop has a run
(`LoopExists`). The byte loops, the sort, the search and the enumeration of symbols are
proved with it.

Only model-checked: `DeliveredIsTagged` (liveness, out of the provers' reach) and the
findings, which are counterexamples.

## 5. Plan

Done: tag map, file source with sources that cannot seek, propagation, MNT consumer,
summaries, sinks and life cycle, and proofs of the safety properties of these. Next: an
engine module that composes `FileSource` and `Propagation` over one tag map, with
`TaintMemory` as its interface, and the public tag API as its operations.

## 6. Not modelled

EWAH compression (vendored; a bitmap is its set), printed formats and logs, the
DynamoRIO runtime, splitting the summaries' configuration into tokens and matching globs
(text processing), the search path of `.mnt.bin` files (only their order matters), REP
string instructions (not expanded by the code), SSE and x87 (no handlers), segment registers (no rows), the public tag
API (stateless wrappers), the accessors of a sink's context, which only read, clients,
tools and benchmarks. Several threads are not modelled because the engine does not support
them (DESIGN.md:267).
