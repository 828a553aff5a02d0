SPECIFICATION Spec
CONSTANTS
    Kind <- OneButton
    InputBank <- FirstBank
    MaxChanges = 1
    MAXSAVE = 2
    RingSize = 1
    BankSize = 2
    Daughters = {1, 2}
    Driven = {0, 4}
    Numbers <- SomeNumbers
INVARIANTS
    OutputsShown
