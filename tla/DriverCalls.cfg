SPECIFICATION FairSpec
INVARIANTS BankShadow Configured
PROPERTIES TransmitOnlyOnRequest InitReturns RoundsEnd
