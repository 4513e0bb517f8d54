SPECIFICATION LayoutSpec
CONSTANTS
    schar = schar
    sint32 = sint32
    pointer = pointer
    size_t = size_t
    nosuch = nosuch
    Primitives = {schar, sint32, size_t}
    Unknown = {nosuch}
    Types <- MCTypes
    Depth <- MCDepth
    Width <- MCWidth
    FfiSize <- MCFfiSize
    FfiAlign <- MCFfiSize
    FfiReturn <- MCFfiReturn
    CSize <- MCCSize
    CAlign <- MCCSize
INVARIANTS
    ElementsApart
CHECK_DEADLOCK FALSE
