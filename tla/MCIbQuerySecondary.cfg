SPECIFICATION Spec
CONSTANTS
    p1 = p1  p2 = p2
    Proc = {p1, p2}
    Fields <- SadFields
    CharDev = {"tty", "null"}
    Tty = {"tty"}
    None = None
    NoDev = NoDev
    NoProc = NoProc
    NoFile = NoFile
    Unset = Unset
    NULL = NULL
    Files <- SadFiles
    Name = {"a", "b"}
    Argv <- MCArgv
    Typed <- MCTyped
    Asking <- MCAsking
    MaxLines = 2
INVARIANTS
    OpensWhatItNames
