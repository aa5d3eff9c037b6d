--------------------------- MODULE MCPm4Decoder ---------------------------
(* Single entries of up to two pieces and pairs of entries of up to one    *)
(* piece.  Register 0x0801 has no name, 0x8e07 has one and 0x8e08 is a     *)
(* gen8 register, too (a packet that begins at 0x8e07 runs into it); they  *)
(* exercise both parities, and so do the counts 0 to 2; payload dwords are *)
(* harmless or headers themselves; loose dwords are zero, a type-4 and a   *)
(* type-7 header with one wrong parity bit each.                           *)
EXTENDS Pm4Decoder

Payloads == {<<>>, <<Pkt7Header(PM4.NOP, 1)>>, <<5, Pkt4Header(\h0801, 2)>>}
Pieces ==
    {Type4Piece(reg, data) : reg \in {\h0801, \h8e08}, data \in Payloads}
        \union {Type4Piece(\h8e07, <<5, 5>>)}
        \union {Type7Piece(op, <<>>) : op \in {\h26, \h28}}
        \union {Type7Piece(op, <<Pkt7Header(PM4.NOP, 1)>>) : op \in {PM4.NOP, \h37}}
        \union {Loose(<<0>>),
                Loose(<<Pkt4Header(\h0801, 1) - 1>>),
                Loose(<<Pkt7Header(\h26, 0) + 2^15 * (1 - 2 * CalcParity(0))>>)}

Entries(n) == UNION {[1 .. k -> Pieces] : k \in 0 .. n}

MCSubmissions == {<<e>> : e \in Entries(2)} \union (Entries(1) \X Entries(1))
===========================================================================
