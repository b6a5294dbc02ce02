SPECIFICATION Spec
CONSTANT WordMax = 511
INVARIANTS DivisionTruncates CompareOrders LawsHold NumeralsRead WordsKeep
