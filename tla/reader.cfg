SPECIFICATION Spec
CONSTANTS
    a = a
    l = l
    c = c
    Ascii = {a}
    Lead = {l}
    Cont = {c}
    RuneError = RuneError
    MaxLen = 3
    Width = 4
INVARIANT TypeOK
INVARIANT PrevRuneIsLastRune
PROPERTY Delivers
