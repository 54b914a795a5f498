CONSTANTS
    a = a
    b = b
    other = other
    Names = {a, b}
    Prints = {"", "p"}
    NoPrint = ""
    Lists <- MCLists
    TypeKinds = {"class", "interface"}
    Program = Program
    Main = Main
    Calls = {"map", "add"}
    Controllers = {a, b}
    Repositories = {a, b}
    MemberKinds = {"method", "property"}
    MaxSymbols = 3
    MaxReferences = 1
SPECIFICATION Spec
INVARIANTS
    KeysUnique
    ContainmentIsLexical
    EveryCandidateLinked
    OnlyFieldsDangle
    RolesAreEarned
PROPERTY
    KeysStable
CHECK_DEADLOCK FALSE
SYMMETRY Identifiers
