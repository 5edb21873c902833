------------------------------ MODULE NdrFormat ------------------------------
(***************************************************************************)
(* The vocabulary of the tables MIDL generates into AppInterface_c.c and   *)
(* AppInterface_s.c.  A procedure format string is a record: procedure     *)
(* number, size of the x86 argument frame and the parameters in order.  A  *)
(* parameter has a direction (the flags 0x10b and 0x48 say in, 0x113 out,  *)
(* 0x70 return), an offset in the frame and a type: an entry of the type   *)
(* format string, or NoType for FC_LONG.                                   *)
(***************************************************************************)
EXTENDS Naturals, Sequences

NoType    == 0
TextType  == 4     \* offset of FC_C_CSTRING in the type format string
ArrayType == 10    \* offset of FC_CARRAY

Param(d, at, ty) == [dir |-> d, at |-> at, type |-> ty]

InText(at)   == Param("in", at, TextType)
InArray(at)  == Param("in", at, ArrayType)
InLong(at)   == Param("in", at, NoType)
OutArray(at) == Param("out", at, ArrayType)
Return(at)   == Param("return", at, NoType)

Proc(num, stack, params) == [num |-> num, stack |-> stack, params |-> params]

\* A type format string: the array at ArrayType takes its length from the
\* argument at frame offset `corr`.
Types(corr) == [array |-> corr]

=============================================================================
