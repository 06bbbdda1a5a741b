---------------------------- MODULE SummaryTable ----------------------------
(***************************************************************************)
(* sdft_summaries_dr.cpp: the table of function summaries that load builds *)
(* from the lines of libc_summaries.conf, and find, which looks a symbol   *)
(* up in it.                                                               *)
(*                                                                         *)
(* A line is given by its tokens: the directive, then the name and either  *)
(* the shape with its keys or what an alias or a policy says.  Names and   *)
(* patterns are abstract: a pattern is the set of the names it matches.    *)
(* The table is built once, before the program starts, and does not        *)
(* change: it is constant here.                                            *)
(***************************************************************************)
EXTENDS Integers, Sequences, SequencesExt

CONSTANT Conf       \* the lines of the file

\* The words a line is made of; a key that is absent has the word "none".
Word == {"none", "ret", "strlen", "wcslen", "number"}

ASSUME ConfAssumption ==
    /\ Conf \in Seq(ToSet(Conf))
    /\ \A k \in DOMAIN Conf :
          LET line == Conf[k]
          IN  /\ line.kw \in {"POLICY", "ALIAS", "FUNC", "other"} /\ line.name # ""
              /\ line.dst.word \in Word /\ line.len.word \in Word
              /\ line.dst.num \in Int /\ line.len.num \in Int

Shapes == {"SOURCE", "SOURCE_RETURN_PTR", "PROP_PTR2PTR", "PROP_PTR2VAL", "PROP_SCALAR",
           "CLOBBER_ONLY"}

NoRef == [kind |-> "NONE", value |-> 0]

\* parse_ref: a number from 0 to 5 is always an argument, never a length.
parse_ref(t) ==
    LET keyword == [ret |-> "RET", strlen |-> "STRLEN", wcslen |-> "WCSLEN"]
    IN  IF t.word \in DOMAIN keyword THEN [kind |-> keyword[t.word], value |-> 0]
        ELSE IF t.word = "none" THEN NoRef
        ELSE [kind |-> IF 0 <= t.num /\ t.num <= 5 THEN "ARG" ELSE "LITERAL", value |-> t.num]

\* parse_func: the summary of a FUNC line.
parse_func(line) ==
    [shape |-> line.shape, dst |-> parse_ref(line.dst), src |-> line.src,
     len |-> parse_ref(line.len), args |-> line.args]

\* A line whose directive or whose shape is not known is ignored.
FuncLines == {k \in DOMAIN Conf : Conf[k].kw = "FUNC" /\ Conf[k].shape \in Shapes}

\* A later line for the same name replaces an earlier one.
s_funcs ==
    [name \in {Conf[k].name : k \in FuncLines} |->
        parse_func(Conf[CHOOSE k \in FuncLines :
            /\ Conf[k].name = name
            /\ \A j \in FuncLines : Conf[j].name = name => j <= k])]

\* parse_alias keeps the rules in the order of the file: is this line one, for name?
IsAlias(line, name) == line.kw = "ALIAS" /\ name \in line.pattern

\* parse_policy: the last POLICY line with a value that is known.
Conservative ==
    LET known == SelectSeq(Conf, LAMBDA line : /\ line.kw = "POLICY"
                                               /\ line.name \in {"optimistic", "conservative"})
    IN  known # <<>> /\ Last(known).name = "conservative"

\* load ends by making the default summary: PROP_PTR2VAL over all arguments, with
\* no length.
s_conservative_default ==
    [shape |-> "PROP_PTR2VAL", dst |-> NoRef, src |-> <<0, 1, 2, 3, 4, 5>>, len |-> NoRef,
     args |-> <<>>]

\* Fault: the first alias that matches decides.
find_first_alias(name) ==
    LET k == SelectInSeq(Conf, LAMBDA line : IsAlias(line, name))
    IN  IF name \in DOMAIN s_funcs THEN name
        ELSE IF k # 0 /\ Conf[k].name \in DOMAIN s_funcs THEN Conf[k].name
        ELSE IF Conservative THEN "default" ELSE ""

\* find: the line for the name itself, else that of the first alias that has one,
\* else the default; "" when there is no summary.
find(name) ==
    LET k == SelectInSeq(Conf,
                LAMBDA line : IsAlias(line, name) /\ line.name \in DOMAIN s_funcs)
    IN  IF name \in DOMAIN s_funcs THEN name
        ELSE IF k # 0 THEN Conf[k].name
        ELSE IF Conservative THEN "default" ELSE ""

\* The summary find points to.
SummaryOf(key) == IF key = "default" THEN s_conservative_default ELSE s_funcs[key]
=============================================================================
