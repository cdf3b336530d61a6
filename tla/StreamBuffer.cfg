\* Six bytes in up to four pieces, empty pieces included.
SPECIFICATION Spec
CONSTANTS
    MaxBytes = 6
    MaxPieces = 4
INVARIANTS TypeOK PeekIsPrefix SizeExact
