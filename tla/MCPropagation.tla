--------------------------- MODULE MCPropagation ---------------------------
(***************************************************************************)
(* Bounded instances of Propagation: the instructions and registers each   *)
(* run allows.  xor and sub, add and or differ only in their names.        *)
(***************************************************************************)
EXTENDS Propagation

\* The instructions that cover the flow, without the ones that differ from another
\* only in name.
Distinct == Covered \ {"and", "or", "sub", "sbb"}

\* Everything but the two shapes TagsComeFromOperands does not hold of.
All == Covered \cup {"adc", "bsf", "cwde", "cdq", "mul", "div", "mul_acc", "imul", "imul3",
                     "imul_byte", "lea_scaled", "shld_mem", "cmpxchg_alias", "overlap",
                     "stack_pointer"}

AllWidths == {1, DWORD, REG_BYTES}

Three == {"rax", "rdx", "rbp"}
=============================================================================
