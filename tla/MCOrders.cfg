CONSTANTS
    Precision = 6
    MaxSats = 16
    Exponents <- MCExponents
    Nothing = Nothing
SPECIFICATION Spec
INVARIANTS TypeOK OwnOrderIsRead OfferIsFunded ReadUnambiguously OfferFits
CHECK_DEADLOCK FALSE
