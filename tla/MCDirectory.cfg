SPECIFICATION RSpec
CONSTANTS
    na = na
    nb = nb
    nc = nc
    nd = nd
    ne = ne
    full = full
    long = long
    Name <- Names
    Length <- NameLength
    Limit = 27
    PerBlock = 2
    Direct = 1
    Width = 1
    MaxInodes = 4
    Word = 4
    MaxCalls = 6
    InodesPerBlock = 3
    MaxUnflushed = 2
SYMMETRY Symmetry
INVARIANTS
    NamesExact
    LinkCountExact
    FlushedNamesSurvive
PROPERTIES
    BindingStable
CHECK_DEADLOCK FALSE
