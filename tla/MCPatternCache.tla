--------------------------- MODULE MCPatternCache ---------------------------
(* Four kinds of op for a table of two: an addition of two registers in two  *)
(* sizes, a constant with no register of its own, and an op whose code is    *)
(* too long or empty.  Registers 1 to 3 are enough to rename, to swap and    *)
(* to meet a register that is already patched; 0 is also an unused field.    *)
EXTENDS PatternCache

Kind(op, size) == [op |-> op, size |-> size, element |-> size]
Word(b, d, n, i, m) == [bits |-> b, fields |-> <<d, n, i, m>>]
Op(kind, dst, args, ra, code) ==
    [kind |-> kind, dst |-> dst, args |-> args, ra |-> ra, code |-> code]

MCKinds == {Kind("add", 4), Kind("add", 8), Kind("const", 8), Kind("fill", 8)}
MCOpcodes == {"add4", "add8", "movz"}

Adds(size, bits, Regs) ==
    {Op(Kind("add", size), d, <<n, m>>, 2, <<Word(bits, d, n, 0, m)>>) :
        d \in Regs, n \in Regs, m \in Regs}
Consts ==
    {Op(Kind("const", 8), d, <<>>, 0, <<Word("movz", d, i, 0, 0)>>) : d \in {1, 2}, i \in {1, 7}}
Fills ==
    {Op(Kind("fill", 8), 1, <<>>, 1, [k \in 1 .. n |-> Word("movz", 1, k, 0, 0)]) : n \in {0, 2, 3}}

MCOps == Adds(4, "add4", {1, 2}) \union Adds(8, "add8", {0, 3}) \union Consts \union Fills
MCWarmups == {0, 1, 3}
=============================================================================
