CONSTANTS
    Capacity = 4
    Cell = {"a", "b"}
    MaxChunk = 5
    Chunk <- MCChunk
    Length <- MCLength
SPECIFICATION Spec
INVARIANTS TypeOK IndexInv PeekMatchesPop
PROPERTY FifoSpec
