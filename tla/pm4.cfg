\* Decoding submissions that were built from packets and cut off anywhere.
CONSTANTS
    Submissions <- MCSubmissions
SPECIFICATION Spec
INVARIANTS TypeOK DecodesWhatWasBuilt SummaryAgrees OnlyTornPacketPanics TotalsAreBuilt
