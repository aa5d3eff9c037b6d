------------------------------- MODULE RegXml -------------------------------
(* The elements of Mesa's register descriptions that reg-gen looks at.       *)

\* reg32 and reg64, at the top level or nested in the array before it, whose
\* offset it is relative to; array, and what it describes at its offset plus
\* stride times index.
Reg(name, offset, gen8)    == [tag |-> "reg", name |-> name, offset |-> offset, gen8 |-> gen8,
                               length |-> 1, stride |-> 1]
Nested(name, offset, gen8) == [Reg(name, offset, gen8) EXCEPT !.tag = "nested"]
Array(name, offset, gen8, length, stride) ==
    [Reg(name, offset, gen8) EXCEPT !.tag = "array", !.length = length, !.stride = stride]

Enum(name)         == [tag |-> "enum", name |-> name, value |-> 0]
Value(name, value) == [tag |-> "value", name |-> name, value |-> value]
EndEnum            == [tag |-> "end", name |-> "", value |-> 0]
=============================================================================
