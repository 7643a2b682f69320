CONSTANTS
    p1 = p1 p2 = p2 a = a
    Readers = {p1, p2}
    None = None
    Letter = {a}
    NL = NL
    EOF = EOF
    INPUT_BUF_SIZE = 3
    MOD = 6
    MaxN = 2
SPECIFICATION Spec
INVARIANTS
    NeverWedged
PROPERTIES
    IsLineInput
