-------------------------- MODULE Instrumentation --------------------------
(***************************************************************************)
(* From the client's registrations to what happens at an instruction: the  *)
(* life cycle (api_lifecycle.cpp, libdft_setup), the sink registries       *)
(* (api_sinks.cpp), the handlers that run when a module is loaded (the MNT *)
(* consumer, sdft_hook and the function sinks of libdft_core_dr.cpp), and  *)
(* event_bb_insn, which decides once, when an instruction is translated,   *)
(* whether it is propagated and whether it calls the PC-range sinks.       *)
(*                                                                         *)
(* The program is external: it loads and unloads modules and executes      *)
(* their instructions.  So are DynamoRIO's code cache, which drops the     *)
(* translations of a module that is unloaded, and its table of wrapped     *)
(* functions, which does not, and where wrapping a function twice with the *)
(* same callback is wrapping it once.                                      *)
(*                                                                         *)
(* What a summary does to the tags is the subject of Summaries, what an    *)
(* instruction does to them that of Propagation.  Modules of DynamoRIO and *)
(* of the client, which event_module_load ignores, are left out.           *)
(***************************************************************************)
EXTENDS MntConsumer, SummaryTable

CONSTANTS
    Base,           \* Base[m]: the addresses module m may be loaded at
    Env,            \* values of VUZZER_MNT_POLICY the user may have set
    SdftEnv,        \* may sdft_hook be initialised: a set of BOOLEANs
    FuncChoice,     \* [name, module] pairs the client registers, module "" for any
    PcChoice,       \* entry points it registers
    RangeChoice,    \* PC ranges <<lo, hi>> it registers
    LateFuncSinks,  \* may it register function sinks after init?
    MaxSinks        \* bound on its registrations

ASSUME ClientAssumption ==
    /\ DOMAIN Base = Module
    /\ \A m \in Module : \A b \in Base[m] : b \in Pc /\ b + Image[m].size - 1 \in Pc
    /\ SdftEnv \subseteq BOOLEAN /\ LateFuncSinks \in BOOLEAN
    /\ PcChoice \subseteq Pc /\ RangeChoice \subseteq Nat \X Nat
    /\ MaxSinks \in Nat

VARIABLES
    phase,                  \* "client" (dr_client_main), "app" or "exited"
    g_initialized,          \* init has been called
    events,                 \* module-load handlers registered by libdft_setup
    g_pending_func_sinks,   \* function sinks [name, module, pc], pc 0 if unresolved
    g_pc_ranges,            \* PC-range sinks <<lo, hi>>
    s_wrapped,              \* entry points sdft_hook has wrapped
    loaded,                 \* external: loaded module -> base
    sdft_wraps,             \* external: wrapped address -> summary for sdft_pre
    func_wraps,             \* external: addresses wrapped with func_sink_pre
    code,                   \* external: translated instruction -> [skip, sinks]
    last                    \* the last instruction executed and what it called

sinkVars == <<g_pending_func_sinks, g_pc_ranges>>

wrapVars == <<s_wrapped, sdft_wraps, func_wraps>>

vars == <<mntVars, phase, g_initialized, events, sinkVars, wrapVars, loaded, code, last>>

Nothing == [pc |-> 0, skip |-> FALSE, summary |-> "", funcs |-> {}, ranges |-> {}]

\* The symbols of a module and the addresses they stand for.
Symbols(m) == {Image[m].syms[k] : k \in DOMAIN Image[m].syms}

Insns(m) == {loaded[m] + o : o \in Image[m].insns}

-----------------------------------------------------------------------------
(* Registering *)

MoreSinks == Len(g_pending_func_sinks) + Len(g_pc_ranges) < MaxSinks

\* Function sinks can be registered by name, which must not be empty, and by
\* address.
register_func_sink(name, module) ==
    /\ phase = "client" /\ (LateFuncSinks \/ ~g_initialized)
    /\ MoreSinks /\ name # ""
    /\ g_pending_func_sinks' =
          Append(g_pending_func_sinks, [name |-> name, module |-> module, pc |-> 0])
    /\ UNCHANGED <<mntVars, phase, g_initialized, events, g_pc_ranges, wrapVars, loaded, code, last>>

register_func_sink_pc(pc) ==
    /\ phase = "client" /\ (LateFuncSinks \/ ~g_initialized)
    /\ MoreSinks
    /\ g_pending_func_sinks' =
          Append(g_pending_func_sinks, [name |-> "", module |-> "", pc |-> pc])
    /\ UNCHANGED <<mntVars, phase, g_initialized, events, g_pc_ranges, wrapVars, loaded, code, last>>

\* An empty range is ignored.
register_pc_range_sink(lo, hi) ==
    /\ phase = "client" /\ MoreSinks
    /\ g_pc_ranges' = IF lo < hi THEN Append(g_pc_ranges, <<lo, hi>>) ELSE g_pc_ranges
    /\ UNCHANGED <<mntVars, phase, g_initialized, events, g_pending_func_sinks, wrapVars, loaded,
                   code, last>>

\* libdft_core_init: without a function sink there is nothing to resolve later,
\* and the handler is not registered.  Sinks given by address are wrapped here.
libdft_core_init ==
    func_wraps' = {e.pc : e \in {x \in ToSet(g_pending_func_sinks) : x.pc # 0 /\ x.name = ""}}

\* sdft_hook::init: its handler is registered when the file can be read.
SdftInit(sdft) == IF sdft THEN {"sdft"} ELSE {}

\* libdft_setup initialises the parts in this order.
libdft_setup(value, sdft) ==
    /\ MntInit(value)
    /\ libdft_core_init
    /\ events' = (IF s_policy' = "off" THEN {} ELSE {"mnt"})
                 \cup SdftInit(sdft)
                 \cup (IF g_pending_func_sinks = <<>> THEN {} ELSE {"func"})

\* init, with the value of VUZZER_MNT_POLICY.  A list of opaque modules replaces a
\* value that is not set by one parse_policy_env does not know.  A second call is
\* ignored.
init(value, opaque, sdft) ==
    /\ phase = "client" /\ ~g_initialized
    /\ libdft_setup(IF opaque /\ value = "" THEN "on:" ELSE value, sdft)
    /\ g_initialized' = TRUE
    /\ UNCHANGED <<phase, sinkVars, s_wrapped, sdft_wraps, loaded, code, last>>

\* dr_client_main returns and the program starts.
StartApp ==
    /\ phase = "client" /\ g_initialized
    /\ phase' = "app"
    /\ UNCHANGED <<mntVars, g_initialized, events, sinkVars, wrapVars, loaded, code, last>>

-----------------------------------------------------------------------------
(* Loading a module *)

\* Fault: the body is registered before the summary is looked up.
enum_sym_cb_early_body(base, sym, acc) ==
    LET pc == base + sym.target
    IN  IF pc \in acc.wrapped THEN acc
        ELSE [acc EXCEPT
                !.ranges  = IF sym.target = sym.start
                            THEN add_rtn_range(@, pc, base + sym.end) ELSE @,
                !.wrapped = IF find(sym.name) = "" THEN @ ELSE @ \cup {pc},
                !.wraps   = IF find(sym.name) = "" THEN @
                            ELSE [x \in DOMAIN @ \cup {pc} |->
                                     IF x = pc THEN find(sym.name) ELSE @[x]]]

\* enum_sym_cb: the address calls arrive at is wrapped once, whatever names it
\* has.  Its body is registered when the symbol table knows it.
enum_sym_cb(base, sym, acc) ==
    LET pc == base + sym.target
    IN  IF find(sym.name) = "" \/ pc \in acc.wrapped THEN acc
        ELSE [wrapped |-> acc.wrapped \cup {pc},
              wraps   |-> [x \in DOMAIN acc.wraps \cup {pc} |->
                              IF x = pc THEN find(sym.name) ELSE acc.wraps[x]],
              ranges  |-> IF sym.target = sym.start
                          THEN add_rtn_range(acc.ranges, pc, base + sym.end) ELSE acc.ranges]

\* event_module_load of sdft_hook enumerates the symbols.
EnumerateSymbols(m, base) ==
    LET after[k \in 0 .. Len(Image[m].syms)] ==
            IF k = 0 THEN [wrapped |-> s_wrapped, wraps |-> sdft_wraps, ranges |-> s_ranges]
            ELSE enum_sym_cb(base, Image[m].syms[k], after[k - 1])
    IN  after[Len(Image[m].syms)]

SdftModuleLoad(m, base) ==
    LET found == EnumerateSymbols(m, base)
    IN  IF "sdft" \in events
        THEN /\ s_wrapped' = found.wrapped
             /\ sdft_wraps' = found.wraps
             /\ s_ranges' = found.ranges
             /\ s_ranges_dirty' = (s_ranges_dirty \/ found.ranges # s_ranges)
        ELSE UNCHANGED <<s_wrapped, sdft_wraps, s_ranges, s_ranges_dirty>>

\* Fault: the module of the registration is not compared.
ResolveAnywhere(e, m, base) ==
    LET S == {s \in Symbols(m) : s.name = e.name}
    IN  IF e.name = "" \/ e.pc # 0 \/ S = {} THEN e
        ELSE [e EXCEPT !.pc = base + (CHOOSE s \in S : TRUE).start]

\* A name that is not resolved yet is looked up in the symbol table of a module
\* that passes its filter.
Resolve(e, m, base) ==
    LET S == {s \in Symbols(m) : s.name = e.name}
    IN  IF e.name = "" \/ e.pc # 0 \/ e.module \notin {"", m} \/ S = {} THEN e
        ELSE [e EXCEPT !.pc = base + (CHOOSE s \in S : TRUE).start]

func_sink_on_module_load(m, base) ==
    LET resolved == [k \in DOMAIN g_pending_func_sinks |->
                        Resolve(g_pending_func_sinks[k], m, base)]
    IN  IF "func" \in events
        THEN /\ g_pending_func_sinks' = resolved
             /\ func_wraps' = func_wraps \cup
                   {resolved[k].pc : k \in {j \in DOMAIN resolved :
                                               resolved[j] # g_pending_func_sinks[j]}}
        ELSE UNCHANGED <<g_pending_func_sinks, func_wraps>>

\* Two modules are never at the same addresses.
Free(m, base) ==
    \A x \in DOMAIN loaded :
       base + Image[m].size <= loaded[x] \/ loaded[x] + Image[x].size <= base

\* The module events run before the module's code does.
Load(m, base) ==
    /\ phase = "app" /\ m \notin DOMAIN loaded /\ Free(m, base)
    /\ loaded' = [x \in DOMAIN loaded \cup {m} |-> IF x = m THEN base ELSE loaded[x]]
    /\ on_module_load(m, base)
    /\ SdftModuleLoad(m, base)
    /\ func_sink_on_module_load(m, base)
    /\ last' = Nothing
    /\ UNCHANGED <<s_policy, phase, g_initialized, events, g_pc_ranges, code>>

\* Only the MNT consumer handles the event.
Unload(m) ==
    /\ phase = "app" /\ m \in DOMAIN loaded
    /\ IF "mnt" \in events THEN on_module_unload(loaded[m]) ELSE UNCHANGED mntVars
    /\ loaded' = [x \in DOMAIN loaded \ {m} |-> loaded[x]]
    /\ code' = [pc \in {x \in DOMAIN code : ~(loaded[m] <= x /\ x < loaded[m] + Image[m].size)}
                   |-> code[pc]]
    /\ last' = Nothing
    /\ UNCHANGED <<phase, g_initialized, events, sinkVars, wrapVars>>

-----------------------------------------------------------------------------
(* Executing *)

RangesAt(pc) == {k \in DOMAIN g_pc_ranges : g_pc_ranges[k][1] <= pc /\ pc < g_pc_ranges[k][2]}

\* event_bb_insn: an instruction that is_mnt is left alone, also by the PC-range
\* sinks.
event_bb_insn(pc) ==
    [skip |-> is_mnt(pc), sinks |-> ~is_mnt(pc) /\ RangesAt(pc) # {}]

\* sdft_pre: the summary of the function entered.
sdft_pre(pc) == IF pc \in DOMAIN sdft_wraps THEN sdft_wraps[pc] ELSE ""

\* func_sink_pre: the function sinks that are called.
func_sink_pre(pc) ==
    IF pc \in func_wraps
    THEN {k \in DOMAIN g_pending_func_sinks : g_pending_func_sinks[k].pc = pc} ELSE {}

dispatch_pc_range_sink(pc) == RangesAt(pc)

\* An instruction is translated when it is first executed.
Execute(pc) ==
    LET fragment == IF pc \in DOMAIN code THEN code[pc] ELSE event_bb_insn(pc)
    IN  /\ phase = "app"
        /\ \E m \in DOMAIN loaded : pc \in Insns(m)
        /\ code' = [x \in DOMAIN code \cup {pc} |-> IF x = pc THEN fragment ELSE code[x]]
        /\ IF pc \in DOMAIN code THEN UNCHANGED mntVars ELSE IsMntLookup(pc)
        /\ last' = [pc      |-> pc,
                    skip    |-> fragment.skip,
                    summary |-> sdft_pre(pc),
                    funcs   |-> func_sink_pre(pc),
                    ranges  |-> IF fragment.sinks THEN dispatch_pc_range_sink(pc) ELSE {}]
        /\ UNCHANGED <<phase, g_initialized, events, sinkVars, wrapVars, loaded>>

\* event_exit and shutdown: sdft_hook gives back its event.  No code of the program
\* runs any more, so that wraps and translations no longer matter.
event_exit ==
    /\ phase = "app"
    /\ phase' = "exited"
    /\ g_initialized' = FALSE
    /\ events' = events \ {"sdft"}
    /\ last' = Nothing
    /\ UNCHANGED <<mntVars, sinkVars, wrapVars, loaded, code>>

Ended == phase = "exited" /\ UNCHANGED vars

-----------------------------------------------------------------------------

SystemInit ==
    /\ Init
    /\ phase = "client"
    /\ g_initialized = FALSE
    /\ events = {}
    /\ g_pending_func_sinks = <<>>
    /\ g_pc_ranges = <<>>
    /\ s_wrapped = {}
    /\ loaded = [x \in {} |-> 0]
    /\ sdft_wraps = [x \in {} |-> ""]
    /\ func_wraps = {}
    /\ code = [x \in {} |-> [skip |-> FALSE, sinks |-> FALSE]]
    /\ last = Nothing

Next ==
    \/ \E c \in FuncChoice : register_func_sink(c.name, c.module)
    \/ \E pc \in PcChoice : register_func_sink_pc(pc)
    \/ \E r \in RangeChoice : register_pc_range_sink(r[1], r[2])
    \/ \E value \in Env, opaque \in BOOLEAN, sdft \in SdftEnv : init(value, opaque, sdft)
    \/ StartApp
    \/ \E m \in Module : \E base \in Base[m] : Load(m, base)
    \/ \E m \in Module : Unload(m)
    \/ \E pc \in Pc : Execute(pc)
    \/ event_exit
    \/ Ended

Spec == SystemInit /\ [][Next]_vars

-----------------------------------------------------------------------------
(* Properties *)

TypeOK ==
    /\ s_policy \in {"off", "lean", "sound", "v2_perpc"} /\ s_ranges_dirty \in BOOLEAN
    /\ \A k \in DOMAIN s_ranges : s_ranges[k] \in Pc \X (Pc \cup {MaxPc + 1})
    /\ phase \in {"client", "app", "exited"} /\ g_initialized \in BOOLEAN
    /\ events \subseteq {"mnt", "sdft", "func"}
    /\ \A k \in DOMAIN g_pending_func_sinks : g_pending_func_sinks[k].pc \in Pc \cup {0}
    /\ s_wrapped \subseteq Pc /\ DOMAIN sdft_wraps \subseteq Pc /\ func_wraps \subseteq Pc
    /\ DOMAIN loaded \subseteq Module /\ \A m \in DOMAIN loaded : loaded[m] \in Base[m]
    /\ DOMAIN code \subseteq Pc /\ last.pc \in Pc \cup {0}

\* The offsets a set of files lists for the policy, as far as they can be read.
Offsets(files) == UNION {ToSet(Taken(SubSeq(f.body, 1, f.have), s_policy)) : f \in files}

\* The first candidate that is complete, as a set; the others may be damaged.
Accepted(m) ==
    LET files == Image[m].files
        k     == SelectInSeq(files, LAMBDA f : f.header /\ f.have = Len(f.body))
    IN  IF k = 0 THEN {} ELSE {files[k]}

\* Is pc in a loaded module, at an offset of one of its files given by Which?
AtOffset(pc, Which(_)) ==
    /\ s_policy # "off"
    /\ \E m \in DOMAIN loaded :
          /\ loaded[m] <= pc /\ pc < loaded[m] + Image[m].size
          /\ pc - loaded[m] \in Offsets(Which(m))

InBody(pc) == \E k \in DOMAIN s_ranges : s_ranges[k][1] <= pc /\ pc < s_ranges[k][2]

\* Whatever was looked up, loaded and unloaded before: is_mnt answers for every
\* address from the modules that are loaded now, and from the bodies registered.
\* It finds what the accepted file lists, and nothing no readable file lists.
IsMntExact ==
    \A pc \in Pc :
       /\ AtOffset(pc, Accepted) \/ InBody(pc) => is_mnt(pc)
       /\ is_mnt(pc) => InBody(pc) \/ AtOffset(pc, LAMBDA m : {f \in ToSet(Image[m].files) : f.header})

\* The function of module m that calls of sym enter is pc.
Enters(m, sym, pc) == pc = loaded[m] + sym.target

\* An instruction whose propagation was left out when it was translated is listed
\* by the analysis of the module that is there now, or belongs to a function of
\* that module to which sdft_pre applies a summary: no flow is dropped without
\* something that stands for it (event_bb_insn, enum_sym_cb).
SkipIsJustified ==
    \A pc \in DOMAIN code :
       code[pc].skip =>
          \/ AtOffset(pc, LAMBDA m : {f \in ToSet(Image[m].files) : f.header})
          \/ \E m \in DOMAIN loaded : \E sym \in Symbols(m) :
                /\ loaded[m] + sym.start <= pc /\ pc < loaded[m] + sym.end
                /\ Enters(m, sym, loaded[m] + sym.start)
                /\ loaded[m] + sym.start \in DOMAIN sdft_wraps

\* The summaries the file has for a name.
SummariesOf(name) ==
    LET alias == {Conf[k].name : k \in {j \in DOMAIN Conf :
                                            Conf[j].kw = "ALIAS" /\ name \in Conf[j].pattern}}
        named == ({name} \cup alias) \cap DOMAIN s_funcs
    IN  IF named = {} /\ Conservative THEN {"default"} ELSE named

\* A function that has a summary gets one when it is entered, the summary is one
\* of its own names in the module that is loaded there, and a function without
\* one gets none (enum_sym_cb, sdft::find).
SummariesApplied ==
    last.pc # 0 /\ "sdft" \in events =>
       \A m \in DOMAIN loaded :
          last.pc \in Insns(m) =>
             LET own == UNION {SummariesOf(sym.name) : sym \in {s \in Symbols(m) : Enters(m, s, last.pc)}}
             IN  IF own = {} THEN last.summary = "" ELSE last.summary \in own

\* Does a registration ask for calls of the function entered at pc?
Asks(e, pc) ==
    \/ e.name = "" /\ e.pc = pc
    \/ \E m \in DOMAIN loaded : \E sym \in Symbols(m) :
          e.name = sym.name /\ e.module \in {"", m} /\ Enters(m, sym, pc)

\* A function sink is called on every call of the function it was registered for,
\* in whatever order modules come and go, and on nothing else
\* (register_func_sink, func_sink_on_module_load, func_sink_pre).
FuncSinksFire ==
    last.pc # 0 =>
       last.funcs = {k \in DOMAIN g_pending_func_sinks : Asks(g_pending_func_sinks[k], last.pc)}
=============================================================================
