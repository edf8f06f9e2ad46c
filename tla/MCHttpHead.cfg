CONSTANTS
    Digit <- MCDigit
    Letter <- MCLetter
    Offer <- MCOffer
    Host <- MCHost
    Length <- MCLength
    IntMod = 22
    LongMax = 87
    MaxBuf = 2
    MaxFields = 2
    UrlOffer <- MCUrlOffer
    PortMod = 11
SPECIFICATION USpec
INVARIANTS ReusedIsFresh RoundTrip AddressRoundTrip
