CONSTANTS
    n1 = n1
    n2 = n2
    NoName = NoName
    Default = Default
    Error = Error
    Names <- TwoNames
    MaxChanges = 1
SPECIFICATION Spec
INVARIANTS SeveralAreAnError
