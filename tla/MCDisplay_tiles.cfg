CONSTANTS
    Undefined = Undefined
    NaN = NaN
    PercentValues <- MCPercents
    CountValues <- MCCounts
    NumberInputs <- MCNumbers
    ByteInputs <- MCBytes
    MemoryInputs <- MCMemory
    UptimeInputs <- MCUptimes
SPECIFICATION Spec
INVARIANT NumberSuffixCanonical
