\* The tables of reg-gen, the index of index-builder and the graphs made of it.
CONSTANTS
    Tags <- MCTags
    Sites <- MCSites
    Base <- MCBase
    Entries = {"vkCmd"}
    Calls <- MCCalls
    MaxNodes = 2
    MaxEdges = 2
    Block <- MCBlock
    RegisterFiles <- MCRegisterFiles
    PacketFiles <- MCPacketFiles
    EnumFiles <- MCEnumFiles
SPECIFICATION ResearchSpec
INVARIANTS ResearchTypeOK IndexIsTrue FocusedIsBetween TablesAreTrue
