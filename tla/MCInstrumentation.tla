------------------------- MODULE MCInstrumentation -------------------------
(***************************************************************************)
(* A bounded instance of Instrumentation: a C library that stays where it  *)
(* is and a plugin that comes back at another address.                     *)
(***************************************************************************)
EXTENDS Instrumentation

Sym(name, start, end, target) ==
    [name |-> name, start |-> start, end |-> end, target |-> target]

Entry(tier, offset) == [tier |-> tier, offset |-> offset]

File(body, have) == [header |-> TRUE, body |-> body, have |-> have]

NoFile == [header |-> FALSE, body |-> <<>>, have |-> 0]

\* memcpy is an IFUNC: its symbol is the resolver at 4, calls arrive at 5.  abs and
\* labs are one function.  The file beside the library is truncated, another one
\* is not, and its tiers are not in order.
Library ==
    [size  |-> 6,
     insns |-> {1, 2, 3, 5},
     files |-> <<NoFile,
                 File(<<Entry("sound", 1), Entry("lean", 0)>>, 1),
                 File(<<Entry("sound", 1), Entry("sound", 3), Entry("lean", 0),
                        Entry("v2_perpc", 2)>>, 4)>>,
     syms  |-> <<Sym("memcpy", 4, 5, 5), Sym("write", 1, 2, 1),
                 Sym("labs", 2, 4, 2), Sym("abs", 2, 4, 2)>>]

Plugin ==
    [size  |-> 3,
     insns |-> {1, 2},
     files |-> <<File(<<Entry("v2_perpc", 2)>>, 1)>>,
     syms  |-> <<Sym("strlen", 1, 2, 1), Sym("write", 2, 3, 2)>>]

Modules == [libc |-> Library, plugin |-> Plugin]

\* The plugin is loaded below or above the library.
Moving == [libc |-> {4}, plugin |-> {1, 10}]

Absent == [word |-> "none", num |-> 0]

Line(kw, name, pattern, shape, args) ==
    [kw |-> kw, name |-> name, pattern |-> pattern, shape |-> shape, dst |-> Absent,
     src |-> <<>>, len |-> Absent, args |-> args]

\* The first alias leads nowhere: its function has a shape that is not known.
Lines ==
    <<Line("ALIAS", "wcslen", {"labs", "strlen"}, "", <<>>),
      Line("ALIAS", "abs", {"labs", "strlen"}, "", <<>>),
      Line("FUNC", "wcslen", {}, "PROP_STRING", <<>>),
      Line("FUNC", "memcpy", {}, "CLOBBER_ONLY", <<>>),
      Line("FUNC", "abs", {}, "PROP_SCALAR", <<0>>)>>

Values == {"", "v2_perpc", "off"}

Write == {[name |-> "write", module |-> "libc"]}

Entries == {6}

Nowhere == {}

Ranges == {<<5, 8>>, <<8, 8>>}
=============================================================================
