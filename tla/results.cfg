SPECIFICATION ResultsSpec
CONSTANTS
    Markets <- MCMarkets
    TypeOf <- MCTypeOf
    LineOf <- MCLineOf
    Offered <- MCOffered
    Answers <- MCAnswers
    Rulings <- MCRulings
    Polls = {p1, p2}
    MaxGoals = 1
INVARIANTS
    ResultsTypeOK
    SettledByRule
    PlacesPaidOnce
    FinishedAtFullTime
SYMMETRY Symmetry
