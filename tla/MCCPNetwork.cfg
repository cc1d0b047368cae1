SPECIFICATION FairSpec
CONSTANTS
    Thread = {t1, t2}
    CP = {c1, c2}
    LDom = {ld0}
    Addr = {a1, a2}
    Value = {zero, ones}
    UserCommand = {"B"}
    MappedAddr = {a1}
    HandlerCP = {c1}
    HandlerCommand = {"B", "K"}
    Zero = zero
    AllOnes = ones
    NoValue = noValue
    NoOp = noOp
    NoThread = noThread
    NoCP = noCP
INVARIANTS
    CommandHasItsArguments
PROPERTIES
    Linearizable
    OperationReturns
