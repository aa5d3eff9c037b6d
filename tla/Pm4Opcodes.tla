----------------------------- MODULE Pm4Opcodes -----------------------------
(***************************************************************************)
(* research/internal/pm4/opcodes.go: the type-7 opcodes, of which some     *)
(* share a value, and the classes the statistics count.                    *)
(***************************************************************************)
EXTENDS Integers

\* PM4.NOP is CP_NOP.
PM4 ==
    [ME_INIT |-> \h48, NOP |-> \h10, INDIRECT_BUFFER |-> \h3f,
     INDIRECT_BUFFER_CHAIN |-> \h57, INDIRECT_BUFFER_PFD |-> \h37, WAIT_FOR_IDLE |-> \h26,
     WAIT_REG_MEM |-> \h3c, WAIT_REG_EQ |-> \h52, WAIT_REG_GTE |-> \h53,
     WAIT_UNTIL_READ |-> \h5c, WAIT_IB_PFD_COMPLETE |-> \h5d, REG_RMW |-> \h21,
     REG_TO_MEM |-> \h3e, MEM_WRITE |-> \h3d, MEM_WRITE_AT |-> \h6d, MEM_TO_MEM |-> \h58,
     COND_EXEC |-> \h44, COND_WRITE |-> \h45, EVENT_WRITE |-> \h46, EVENT_WRITE7 |-> \h46,
     DRAW_INDX |-> \h22, DRAW_INDX_2 |-> \h28, DRAW_INDX_BIN |-> \h23,
     DRAW_INDX_BIN_2 |-> \h29, VIZ_QUERY |-> \h24, SET_STATE |-> \h25,
     INVALIDATE_STATE |-> \h3b, INTERRUPT |-> \h40, IM_LOAD |-> \h27,
     IM_LOAD_IMMEDIATE |-> \h2b, DRAW_INDIRECT_MULTI |-> \h2a, BLIT |-> \h2c,
     LOAD_STATE6 |-> \h36, LOAD_STATE6_FRAG |-> \h34, LOAD_STATE6_GEOM |-> \h32,
     EXEC_CS |-> \h33, SET_BIN_DATA5 |-> \h3a, BV_BRUSH |-> \h50, SET_MARKER |-> \h65,
     SET_PSEUDO_REG |-> \h56, SET_DRAW_STATE |-> \h43, DRAW_INDX_OFFSET |-> \h38,
     DRAW_INDIRECT |-> \h2f, DRAW_INDIRECT_2 |-> \h2e, DRAW_INDIRECT_MULTI_2 |-> \h2d,
     DRAW_AUTO |-> \h24, DRAW_PRED_ENABLE |-> \h79, DRAW_PRED_SET |-> \h6e,
     REG_TEST |-> \h39, SET_PROTECTED_MODE |-> \h5f, CONTEXT_SWITCH |-> \h54,
     SKIP_IB2_ENABLE_GLOBAL |-> \h1c, SKIP_IB2_ENABLE_LOCAL |-> \h1d,
     SET_SUBDRAW_SIZE |-> \h35, BOOTSTRAP_UCODE |-> \h6f, MEMORY_MAP_UPDATE |-> \h58,
     BARRIER |-> \h59, SET_AMBIENT |-> \h5a, SET_AMBIENT2 |-> \h60, SET_BIN_MASK |-> \h5b,
     SET_BIN_MASK2 |-> \h61, REG_WRITE |-> \h6a, WAIT_FOR_ME |-> \h13,
     FIXED_STRIDE_DRAW_TABLE |-> \h6b, FIXED_STRIDE_DRAW_TABLE_BIN |-> \h6c,
     WAIT_MEM_WRITES |-> \h12]

\* Those with a name, which leaves out some: three draws, the prefetched
\* indirect buffer, the blit, ...
OpcodeNames ==
    {PM4.ME_INIT, PM4.NOP, PM4.INDIRECT_BUFFER, PM4.INDIRECT_BUFFER_CHAIN,
     PM4.WAIT_FOR_IDLE, PM4.WAIT_REG_MEM, PM4.WAIT_REG_EQ, PM4.WAIT_REG_GTE,
     PM4.WAIT_UNTIL_READ, PM4.WAIT_IB_PFD_COMPLETE, PM4.REG_RMW, PM4.REG_TO_MEM,
     PM4.MEM_WRITE, PM4.MEM_WRITE_AT, PM4.COND_EXEC, PM4.COND_WRITE, PM4.EVENT_WRITE,
     PM4.DRAW_INDX, PM4.DRAW_INDX_BIN, PM4.SET_STATE, PM4.INVALIDATE_STATE, PM4.INTERRUPT,
     PM4.IM_LOAD, PM4.IM_LOAD_IMMEDIATE, PM4.LOAD_STATE6, PM4.LOAD_STATE6_FRAG,
     PM4.LOAD_STATE6_GEOM, PM4.EXEC_CS, PM4.MEMORY_MAP_UPDATE, PM4.BARRIER,
     PM4.SET_MARKER, PM4.SET_PSEUDO_REG, PM4.SET_DRAW_STATE, PM4.DRAW_INDX_OFFSET,
     PM4.DRAW_INDIRECT, PM4.DRAW_INDIRECT_2, PM4.DRAW_INDIRECT_MULTI_2, PM4.DRAW_AUTO,
     PM4.DRAW_PRED_ENABLE, PM4.DRAW_PRED_SET, PM4.REG_TEST, PM4.SET_PROTECTED_MODE,
     PM4.CONTEXT_SWITCH, PM4.SKIP_IB2_ENABLE_GLOBAL, PM4.SKIP_IB2_ENABLE_LOCAL,
     PM4.SET_SUBDRAW_SIZE, PM4.BOOTSTRAP_UCODE, PM4.SET_AMBIENT, PM4.SET_AMBIENT2,
     PM4.SET_BIN_MASK, PM4.SET_BIN_MASK2, PM4.REG_WRITE, PM4.WAIT_FOR_ME,
     PM4.FIXED_STRIDE_DRAW_TABLE, PM4.FIXED_STRIDE_DRAW_TABLE_BIN, PM4.WAIT_MEM_WRITES}

BarrierOpcodes ==
    {PM4.WAIT_FOR_IDLE, PM4.WAIT_FOR_ME, PM4.WAIT_MEM_WRITES, PM4.BARRIER,
     PM4.INVALIDATE_STATE, PM4.EVENT_WRITE}

DrawOpcodes ==
    {PM4.DRAW_INDX, PM4.DRAW_INDX_2, PM4.DRAW_INDX_BIN, PM4.DRAW_INDX_BIN_2,
     PM4.DRAW_INDIRECT_MULTI, PM4.DRAW_INDIRECT, PM4.DRAW_INDIRECT_2,
     PM4.DRAW_INDIRECT_MULTI_2, PM4.DRAW_AUTO, PM4.DRAW_INDX_OFFSET, PM4.EXEC_CS,
     PM4.DRAW_PRED_ENABLE, PM4.DRAW_PRED_SET, PM4.FIXED_STRIDE_DRAW_TABLE,
     PM4.FIXED_STRIDE_DRAW_TABLE_BIN}
=============================================================================
