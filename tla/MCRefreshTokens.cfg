SPECIFICATION Spec
CONSTANTS
    Requests = {r1, r2}
    Codes = {c1}
    MaxRow = 3
    NoRow = NoRow  NoCode = NoCode
SYMMETRY Symmetry
INVARIANTS
    OneLiveMember
    EndedStaysEnded
    SwitchedOffHasNoSession
    SpentIsAccountedFor
    CodeBuysOneSession
    NeverWidens
