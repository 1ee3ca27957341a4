\* One call of AllocateFileRange, fallocate and fseek failing or not, every
\* fwrite writing any prefix of its chunk.  The call returns, and the
\* process goes on elsewhere: a finished call has no further step.
CONSTANTS
    UIntBits = 4
    Chunk = 4
    Offsets <- MCOffsets
    Lengths <- MCLengths
SPECIFICATION Spec
INVARIANT NoWriteOutsideRange
INVARIANT RangeAllocated
PROPERTY Terminates
CHECK_DEADLOCK FALSE
