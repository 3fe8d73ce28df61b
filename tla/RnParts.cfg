\* 38883 is UINT32_MAX scaled down for numbers: its digits are 3 and 8, so that
\* numbers at the limit and on both sides of it occur, and periods overflow in
\* milliseconds: 10 * 3600 < 38883 < 2 * 36000.
SPECIFICATION PartsSpec
CONSTANTS
    NumberMax = 38883
    NumberSecondMs = 10
    Digits = {0, 3, 8}
    MaxLen = 9
    SampleMax = 12
    SampleSecondMs = 5
    Steps = {0, 1, 4, 7, 13}
    MaxClock = 24
    U32Max = 40
    SecondMs = 1
    MaxReplays = 3
    DefaultUnit = 2
    Durations = {0, 1, 3, 41}
    Numbers = {0, 1, 2, 5, 41}
    KeyTtls = {0, 1, 6, 12}
    Capacity = 5
    MaxLine = 8
    MaxNames = 2
    Addresses = {"a4", "b4", "a6"}
    Inet6 = {"a6"}
    HaveInet6 = FALSE
    MaxPieces = 4
INVARIANTS
    TypesOK
    NumbersExact
    SampleExact
    PolicyExact
    NameserverExact
    ResolverExact
