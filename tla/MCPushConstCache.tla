------------------------- MODULE MCPushConstCache -------------------------
(* Three dwords; two layouts fed by resources that overlap without either    *)
(* covering the other, and one that gathers a resource and a constant.       *)
EXTENDS PushConstCache

Block(offset, size, resources) ==
    [offset |-> offset, size |-> size, resources |-> resources]

MCLayouts ==
    {Block(0, 2, {0, 1}), Block(1, 2, {1, 2}), Block(0, 2, {0}), Block(0, 0, {})}
MCValues == {0, 1}
===========================================================================
