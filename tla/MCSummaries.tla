---------------------------- MODULE MCSummaries ----------------------------
(***************************************************************************)
(* Bounded instances of Summaries: functions of the C library, the lines   *)
(* that describe them, and beside the calls the instructions of            *)
(* MCPropagation.                                                          *)
(***************************************************************************)
EXTENDS Summaries, MCPropagation

Arg(i) == [kind |-> "ARG", value |-> i]

Ending(kind) == [kind |-> kind, value |-> 0]

Copies(len) == [shape |-> "PROP_PTR2PTR", dst |-> Arg(0), src |-> <<1>>, len |-> len, args |-> <<>>]

Computes(src, len) ==
    [shape |-> "PROP_PTR2VAL", dst |-> NoRef, src |-> src, len |-> len, args |-> <<>>]

Combines(args) ==
    [shape |-> "PROP_SCALAR", dst |-> NoRef, src |-> <<>>, len |-> NoRef, args |-> args]

\* What the functions do.
Library ==
    [memcpy  |-> Copies(Arg(2)),
     memmove |-> Copies(Arg(2)),
     strcpy  |-> Copies(Ending("STRLEN")),
     wcscpy  |-> Copies(Ending("WCSLEN")),
     memcmp  |-> Computes(<<0, 1>>, Arg(2)),
     atoi    |-> Computes(<<0>>, Ending("STRLEN")),
     digest  |-> Computes(<<0>>, [kind |-> "LITERAL", value |-> 6]),
     toupper |-> Combines(<<0>>),
     div     |-> Combines(<<0, 1>>),
     getpid  |-> [shape |-> "CLOBBER_ONLY", dst |-> NoRef, src |-> <<>>, len |-> NoRef,
                  args |-> <<>>]]

\* The function of a program under test, unknown to the file.
Unlisted == [checksum |-> Computes(<<0>>, Arg(1))]

\* The line of the file for a function, and back to tokens.
Token(r) ==
    [word |-> CASE r.kind = "NONE" -> "none" [] r.kind = "STRLEN" -> "strlen"
                [] r.kind = "WCSLEN" -> "wcslen" [] OTHER -> "number",
     num  |-> r.value]

LineOf(name) ==
    LET f == Library[name]
    IN  [kw |-> "FUNC", name |-> name, pattern |-> {}, shape |-> f.shape,
         dst |-> Token(f.dst), src |-> f.src, len |-> Token(f.len), args |-> f.args]

NoTokens == [word |-> "none", num |-> 0]

Directive(kw, name, pattern) ==
    [kw |-> kw, name |-> name, pattern |-> pattern, shape |-> "", dst |-> NoTokens, src |-> <<>>,
     len |-> NoTokens, args |-> <<>>]

\* A file with a line for every function but div, which it does not know, and
\* atoi, which it has under another name.
Listed ==
    <<Directive("POLICY", "optimistic", {}), LineOf("memcpy"), LineOf("memmove"),
      LineOf("strcpy"), LineOf("wcscpy"), LineOf("memcmp"), LineOf("digest"), LineOf("toupper"), LineOf("getpid"),
      [LineOf("atoi") EXCEPT !.name = "strtol"], Directive("ALIAS", "strtol", {"atoi"})>>

\* A file that asks for the conservative default.
OverTaint == <<Directive("POLICY", "conservative", {})>>

Program == DOMAIN Library \cup All

Checksum == {"checksum"}

Registers == {"rax", "rdx", "rdi", "rsi", "rcx", "rbp", "rsp"}

\* memcpy and memcmp are chosen by the loader: their bodies have no range.
Ifunc == {"memcpy", "memcmp"}

Strings == {{3, 8}, {2, 5, 6}, {4, 7, 8}}
=============================================================================
