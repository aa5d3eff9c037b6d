----------------------------- MODULE MCResearch -----------------------------
(* Code: two files of one base name, namesakes across files and in one file, *)
(* two functions on one line, sites before, on and after the first line of a *)
(* function; names outside the index among the callers, a cycle of calls and *)
(* a chain of two; limits that are reached.                                  *)
(*                                                                           *)
(* Registers: up to three elements that share offsets and names, arrays with *)
(* and without a stride, nested registers; opcodes and state types inside    *)
(* and outside of their enum, twice with one value, and files cut off.       *)
EXTENDS Research

Tag(name, path, line) == [name |-> name, path |-> path, line |-> line]
MCTags == {Tag("vkCmd", "a/x.cc", 2), Tag("emit", "a/x.cc", 4), Tag("emit", "b/x.cc", 2),
           Tag("init", "b/x.cc", 2)}
MCSites == {[path |-> p, line |-> n] : p \in {"a/x.cc"}, n \in {1, 3, 4}}
               \union {[path |-> "b/x.cc", line |-> 4]}
MCBase == [p \in {"a/x.cc", "b/x.cc"} |-> "x.cc"]
MCCalls == {{}, {<<"vkCmd", "emit">>, <<"emit", "init">>, <<"init", "vkCmd">>},
            {<<"other", "emit">>, <<"init", "other">>, <<"vkCmd", "init">>}}

MCBlock == [name \in {"CP_A", "CP_B", "RB_C", "SYSTEM"} |->
                IF name = "RB_C" THEN "RB" ELSE IF name = "SYSTEM" THEN "SYSTEM" ELSE "CP"]

Elements == {Reg("CP_A", 1, FALSE), Reg("CP_B", 1, TRUE), Reg("CP_A", 2, TRUE),
             Reg("RB_C", 0, FALSE), Array("RB_C", 0, TRUE, 2, 1),
             Array("CP_B", 2, FALSE, 2, 3), Nested("SYSTEM", 1, FALSE)}
MCRegisterFiles == UNION {[1 .. n -> Elements] : n \in 0 .. 3}

Packets(enum) == <<Enum("other"), Value("CP_X", 1), EndEnum, Enum(enum),
                   Value("CP_NOP", 1), Value("CP_OLD", 1), EndEnum, Value("CP_Y", 2)>>
ValueFiles(enum) == {SubSeq(Packets(enum), 1, n) : n \in {0, 5, 8}}

MCPacketFiles == ValueFiles("adreno_pm4_type3_packets")
MCEnumFiles == ValueFiles("a8xx_statetype_id")
=============================================================================
