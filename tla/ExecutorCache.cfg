SPECIFICATION FairSpec
CONSTANTS
    NumNodes = 11
    Copies <- MCCopies
    Fields <- MCFields
    Variables <- MCVariables
    Operations <- MCOperations
    Joins <- MCJoins
    Locals = {1, 2}
    Limit = 100
    MinComplexity = 17
    MaxFactorings = 2
    MaxDepth = 4
    MaxCalls = 2
INVARIANTS
    TypeOK
    AnswersAreRight
    QueriesFit
PROPERTIES
    FactoringsAreNew
    ImplementsEvaluation
    ExecutionsEnd
\* The user stops calling.
CHECK_DEADLOCK FALSE
