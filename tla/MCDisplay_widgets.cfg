CONSTANTS
    Undefined = Undefined
    NaN = NaN
    PercentValues <- MCPercentsOrMissing
    CountValues <- MCCountsOrMissing
    NumberInputs <- MCNumbers
    ByteInputs <- MCBytes
    MemoryInputs <- MCMemory
    UptimeInputs <- MCUptimes
SPECIFICATION Spec
INVARIANT ScoresInRange
