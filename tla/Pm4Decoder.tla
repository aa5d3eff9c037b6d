----------------------------- MODULE Pm4Decoder -----------------------------
(***************************************************************************)
(* Decode() of research/internal/pm4/decoder.go: packets out of the dwords *)
(* of a command stream, by the type bits and parities of their headers,    *)
(* and the statistics of what was found.  One step is one round of its     *)
(* loop.  A submission is decoded entry by entry, each with statistics of  *)
(* its own that Merge adds up.                                             *)
(*                                                                         *)
(* The dwords come from what a driver builds: packets with the headers of  *)
(* Pm4Header, which payload may look like, dwords that are no header       *)
(* between them, and dumps that may end anywhere.                          *)
(***************************************************************************)
EXTENDS Pm4Header, Pm4Opcodes, RegNames, SequencesExt

CONSTANT
    Submissions   \* sequences of entries, each a sequence of the pieces below

\* A piece of a stream: a packet, or dwords that no header precedes.
Type4Piece(reg, payload) == [type |-> "PKT4", id |-> reg, payload |-> payload]
Type7Piece(op, payload)  == [type |-> "PKT7", id |-> op, payload |-> payload]
Loose(words)             == [type |-> "LOOSE", id |-> 0, payload |-> words]

Words(p) ==
    CASE p.type = "PKT4"  -> <<Pkt4Header(p.id, Len(p.payload))>> \o p.payload
      [] p.type = "PKT7"  -> <<Pkt7Header(p.id, Len(p.payload))>> \o p.payload
      [] p.type = "LOOSE" -> p.payload

Stream(pieces) == FlattenSeq([k \in DOMAIN pieces |-> Words(pieces[k])])

\* Where a piece starts in the stream.
Start(pieces, k) == Len(Stream(SubSeq(pieces, 1, k - 1)))

\* Packets have room for what they hold, and loose dwords are no headers.
Piece ==
    {p \in [type : {"PKT4", "PKT7", "LOOSE"}, id : Nat, payload : Seq(Nat)] :
        CASE p.type = "PKT4"  -> p.id \in RegsOfHeader /\ Len(p.payload) \in CountsOfHeader4
          [] p.type = "PKT7"  -> p.id \in 0 .. 127 /\ Len(p.payload) \in CountsOfHeader7
          [] p.type = "LOOSE" -> \A n \in DOMAIN p.payload :
                                    ~IsType4(p.payload[n]) /\ ~IsType7(p.payload[n])}

\* A submission has an entry.
ASSUME DecoderAssumption ==
    /\ Submissions \subseteq Seq(Seq(Piece))
    /\ <<>> \notin Submissions

VARIABLES
    submission,   \* ghost: what the entries were built from
    dumps,        \* the entries decoded so far and the one being decoded
    i,            \* dwords consumed
    packets,
    stats,
    returned,
    total,        \* the statistics of the submission
    merged        \* it includes those of the entry

vars == <<submission, dumps, i, packets, stats, returned, total, merged>>

\* The argument of Decode.
dwords == dumps[Len(dumps)]
program == submission[Len(dumps)]

-----------------------------------------------------------------------------
(* One packet *)

\* Mutant: the end is inclusive.
SliceInclusive(start, count) ==
    SubSeq(dwords, start + 1, Min({start + count + 1, Len(dwords)}))

\* Mutant: the end is short by one.
SliceShort(start, count) ==
    SubSeq(dwords, start + 1, Min({start + count - 1, Len(dwords)}))

\* safeSlice: what there is of count dwords from a position.
SafeSlice(start, count) ==
    SubSeq(dwords, start + 1, Min({start + count, Len(dwords)}))

IndirectBuffers == {PM4.INDIRECT_BUFFER, PM4.INDIRECT_BUFFER_CHAIN, PM4.INDIRECT_BUFFER_PFD}

\* An opcode without a name is "UNKNOWN", a register without one is printed as
\* its offset.
Packet(type, id, named, count, payload) ==
    [type |-> type, id |-> id, named |-> named, count |-> count, payload |-> payload]

DecodeType4(hdr) ==
    Packet("PKT4", RegOffset(hdr), RegOffset(hdr) \in RegNameByOffset, RegCount(hdr),
           SafeSlice(i + 1, RegCount(hdr)))

\* decodeType7, and the type Decode gives indirect buffers.
DecodeType7(hdr) ==
    Packet(IF Opcode(hdr) \in IndirectBuffers THEN "IB" ELSE "PKT7",
           Opcode(hdr), Opcode(hdr) \in OpcodeNames, PayloadSize(hdr),
           SafeSlice(i + 1, PayloadSize(hdr)))

-----------------------------------------------------------------------------
(* The loop *)

One(condition) == IF condition THEN 1 ELSE 0

NoStats ==
    [TotalDwords |-> 0, TotalPackets |-> 0, PKT4Count |-> 0, PKT7Count |-> 0, RegWrites |-> 0,
     A8XXRegWrites |-> 0, BarrierPackets |-> 0, DrawPackets |-> 0, NOPPackets |-> 0,
     UnknownOpcodes |-> [op \in 0 .. 127 |-> 0]]

\* The dumps there may be of an entry.
Dumps(pieces) == {SubSeq(Stream(pieces), 1, n) : n \in 0 .. Len(Stream(pieces))}

\* NewDecodeStats, and the length noted first of all.
FreshStats(dump) == [NoStats EXCEPT !.TotalDwords = Len(dump)]

Init ==
    /\ submission \in Submissions
    /\ \E dump \in Dumps(submission[1]) :
        /\ dumps = <<dump>>
        /\ stats = FreshStats(dump)
    /\ i = 0
    /\ packets = <<>>
    /\ returned = FALSE
    /\ total = NoStats
    /\ merged = FALSE

Header == dwords[i + 1]

\* Mutant: a gen8 register counts once, however many dwords follow it.
CountOnce(pkt) ==
    [stats EXCEPT !.PKT4Count = @ + 1,
                  !.RegWrites = @ + pkt.count,
                  !.A8XXRegWrites = @ + One(pkt.id \in IsA8XXRegister)]

Count4(pkt) ==
    [stats EXCEPT !.PKT4Count = @ + 1,
                  !.RegWrites = @ + pkt.count,
                  !.A8XXRegWrites = @ + IF pkt.id \in IsA8XXRegister THEN pkt.count ELSE 0]

Count7(pkt) ==
    [stats EXCEPT !.PKT7Count = @ + 1,
                  !.BarrierPackets = @ + One(pkt.id \in BarrierOpcodes),
                  !.DrawPackets = @ + One(pkt.id \in DrawOpcodes),
                  !.NOPPackets = @ + One(pkt.id = PM4.NOP),
                  !.UnknownOpcodes[pkt.id] = @ + One(pkt.id \notin OpcodeNames)]

TakeType4 ==
    /\ i < Len(dwords)
    /\ IsType4(Header)
    /\ LET pkt == DecodeType4(Header) IN
        /\ packets' = Append(packets, pkt)
        /\ stats' = Count4(pkt)
        /\ i' = i + 1 + pkt.count
    /\ UNCHANGED <<submission, dumps, returned, total, merged>>

\* Mutant: the payload is looked through for headers as well.
TakeHeaderOnly ==
    /\ i < Len(dwords)
    /\ ~IsType4(Header)
    /\ IsType7(Header)
    /\ LET pkt == DecodeType7(Header) IN
        /\ packets' = Append(packets, pkt)
        /\ stats' = Count7(pkt)
        /\ i' = i + 1
    /\ UNCHANGED <<submission, dumps, returned, total, merged>>

TakeType7 ==
    /\ i < Len(dwords)
    /\ ~IsType4(Header)
    /\ IsType7(Header)
    /\ LET pkt == DecodeType7(Header) IN
        /\ packets' = Append(packets, pkt)
        /\ stats' = Count7(pkt)
        /\ i' = i + 1 + pkt.count
    /\ UNCHANGED <<submission, dumps, returned, total, merged>>

SkipWord ==
    /\ i < Len(dwords)
    /\ ~IsType4(Header)
    /\ ~IsType7(Header)
    /\ i' = i + 1
    /\ UNCHANGED <<submission, dumps, packets, stats, returned, total, merged>>

Return ==
    /\ i >= Len(dwords)
    /\ ~returned
    /\ stats' = [stats EXCEPT !.TotalPackets = Len(packets)]
    /\ returned' = TRUE
    /\ UNCHANGED <<submission, dumps, i, packets, total, merged>>

Sum(s, other) ==
    [c \in DOMAIN s |->
        IF c = "UnknownOpcodes" THEN [op \in DOMAIN s[c] |-> s[c][op] + other[c][op]]
                                ELSE s[c] + other[c]]

\* Mutant: the statistics of one entry are those of the submission.
MergeReplacing ==
    /\ returned
    /\ ~merged
    /\ total' = stats
    /\ merged' = TRUE
    /\ UNCHANGED <<submission, dumps, i, packets, stats, returned>>

Merge ==
    /\ returned
    /\ ~merged
    /\ total' = Sum(total, stats)
    /\ merged' = TRUE
    /\ UNCHANGED <<submission, dumps, i, packets, stats, returned>>

\* DecodeEntry for the next entry.
NextEntry ==
    /\ merged
    /\ Len(dumps) < Len(submission)
    /\ \E dump \in Dumps(submission[Len(dumps) + 1]) :
        /\ dumps' = Append(dumps, dump)
        /\ stats' = FreshStats(dump)
    /\ i' = 0
    /\ packets' = <<>>
    /\ returned' = FALSE
    /\ merged' = FALSE
    /\ UNCHANGED <<submission, total>>

\* The caller has the result: any other state without a step is a deadlock.
Terminated == merged /\ Len(dumps) = Len(submission) /\ UNCHANGED vars

Next ==
    \/ TakeType4 \/ TakeType7 \/ SkipWord \/ Return
    \/ Merge \/ NextEntry
    \/ Terminated

Spec == Init /\ [][Next]_vars

-----------------------------------------------------------------------------
(* Summary() of a SubmissionEntry, which recounts the packets *)

Total(nums) ==
    LET sum[n \in 0 .. Len(nums)] == IF n = 0 THEN 0 ELSE sum[n - 1] + nums[n]
    IN  sum[Len(nums)]

Recount(type, count(_)) ==
    Total([k \in DOMAIN packets |-> IF packets[k].type = type THEN count(packets[k]) ELSE 0])

Summary ==
    [packets    |-> Len(packets),
     regWrites  |-> Recount("PKT4", LAMBDA p : p.count),
     a8xxWrites |-> Recount("PKT4", LAMBDA p : IF p.id \in IsA8XXRegister THEN p.count ELSE 0),
     barriers   |-> Recount("PKT7", LAMBDA p : One(p.id \in BarrierOpcodes)),
     draws      |-> Recount("PKT7", LAMBDA p : One(p.id \in DrawOpcodes))]

\* String() of a packet indexes the payload of a write of one register, which
\* is a panic when there is none.
StringPanics(p) == p.type = "PKT4" /\ p.count = 1 /\ p.payload = <<>>

-----------------------------------------------------------------------------
(* Properties *)

TypeOK ==
    /\ submission \in Submissions
    /\ Len(dumps) \in 1 .. Len(submission)
    /\ i \in Nat
    /\ \A k \in DOMAIN packets :
        /\ packets[k].type \in {"PKT4", "PKT7", "IB"}
        /\ Len(packets[k].payload) <= packets[k].count
    /\ \A c \in DOMAIN NoStats \ {"UnknownOpcodes"} : stats[c] \in Nat /\ total[c] \in Nat
    /\ returned \in BOOLEAN
    /\ merged \in BOOLEAN

\* The packet a piece should be decoded to, short of what the dump lacks.
Intended(k) ==
    LET p == program[k] IN
    Packet(IF p.type = "PKT7" /\ p.id \in IndirectBuffers THEN "IB" ELSE p.type,
           p.id, p.id \in IF p.type = "PKT4" THEN RegNameByOffset ELSE OpcodeNames,
           Len(p.payload),
           SubSeq(p.payload, 1, Min({Len(p.payload), Len(dwords) - Start(program, k) - 1})))

\* The packets of the program that start before this point, and in the dump.
Passed ==
    {k \in DOMAIN program : /\ program[k].type # "LOOSE"
                            /\ Start(program, k) < i
                            /\ Start(program, k) < Len(dwords)}

\* At every round, the packets found are those the stream was built from that
\* start before this point, in order, with their payloads: payload that looks
\* like a header, empty packets, loose dwords in between and the end of the
\* dump in mid-packet put the decoder out of step nowhere.
DecodesWhatWasBuilt ==
    /\ Len(packets) = Cardinality(Passed)
    /\ \A k \in Passed : packets[Cardinality({j \in Passed : j <= k})] = Intended(k)

\* The statistics of Decode and the recount of Summary, which classify packets
\* by different fields, agree: no indirect buffer is a barrier or a draw.  They
\* agree with what String prints, too: gen8 registers, which have a table of
\* their own, all have a name, and what is counted as unknown has none.
SummaryAgrees ==
    returned =>
        /\ Summary = [packets |-> stats.TotalPackets, regWrites |-> stats.RegWrites,
                      a8xxWrites |-> stats.A8XXRegWrites, barriers |-> stats.BarrierPackets,
                      draws |-> stats.DrawPackets]
        /\ \A k \in DOMAIN packets :
            packets[k].named <=> IF packets[k].type = "PKT4"
                                 THEN packets[k].id \in IsA8XXRegister \union RegNameByOffset
                                 ELSE stats.UnknownOpcodes[packets[k].id] = 0
        /\ IsA8XXRegister \subseteq RegNameByOffset

\* Printing a packet panics for at most one packet of an entry: a write of one
\* register that ends a dump which was cut short.  Printing what a whole stream
\* decodes to never does.
OnlyTornPacketPanics ==
    \A k \in DOMAIN packets :
        StringPanics(packets[k]) =>
            /\ k = Len(packets)
            /\ i > Len(dwords)
            /\ Len(dwords) < Len(Stream(program))

\* The pieces of an entry whose first dword its dump has.
There(e) ==
    {k \in DOMAIN submission[e] : Start(submission[e], k) < Len(dumps[e])}

\* The gen8 registers a packet writes, and whether it writes others as well.
Written(p)   == IF p.type = "PKT4" THEN {p.id + d : d \in 0 .. Len(p.payload) - 1} ELSE {}
Straddles(p) == Written(p) \cap IsA8XXRegister \notin {{}, Written(p)}

\* The writes of the pieces at places to registers of S.
Writes(places, S) ==
    UNION {{b} \X (Written(submission[b[1]][b[2]]) \cap S) : b \in places}

\* Merging the statistics of the entries, wherever their dumps end, counts the
\* packets of the submission once each, in the class they were built for.  The
\* gen8 writes are those of gen8 registers as long as no packet writes both a
\* gen8 register and another one: the code looks at the first only.
TotalsAreBuilt ==
    merged =>
        LET built      == UNION {{e} \X There(e) : e \in DOMAIN dumps}
            At(b)      == submission[b[1]][b[2]]
            OfType(T)  == Cardinality({b \in built : At(b).type \in T})
            WithOp(S)  == Cardinality({b \in built : At(b).type = "PKT7" /\ At(b).id \in S})
        IN
        /\ total.TotalDwords = Cardinality(UNION {{e} \X DOMAIN dumps[e] : e \in DOMAIN dumps})
        /\ total.TotalPackets = OfType({"PKT4", "PKT7"})
        /\ total.PKT4Count = OfType({"PKT4"})
        /\ total.PKT7Count = OfType({"PKT7"})
        /\ total.RegWrites = Cardinality(Writes(built, Nat))
        /\ total.BarrierPackets = WithOp(BarrierOpcodes)
        /\ total.DrawPackets = WithOp(DrawOpcodes)
        /\ total.NOPPackets = WithOp({PM4.NOP})
        /\ \A op \in DOMAIN total.UnknownOpcodes :
            total.UnknownOpcodes[op] = WithOp({op} \ OpcodeNames)
        /\ (\A b \in built : ~Straddles(At(b))) =>
            total.A8XXRegWrites = Cardinality(Writes(built, IsA8XXRegister))
=============================================================================
