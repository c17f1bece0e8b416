\* buffers: the edits of lib/buffer.c, and packets packed, sent, cut and
\* taken apart.
CONSTANTS
    Byte <- MCByte
    Junk = 8
    Sources <- MCSources
    MaxBuffer = 3
    Base = 8
    Words <- MCWords
    Names <- MCNames
    Key <- MCKey
    Style <- MCStyle
    XorOf <- MCXor
SPECIFICATION Spec
INVARIANTS
    TypeOK
    FieldsSurvive
    CutIsRefused
PROPERTY
    ImplementsByteString
