SPECIFICATION LayoutSpec
CONSTANTS
    schar = schar
    sint32 = sint32
    pointer = pointer
    size_t = size_t
    nosuch = nosuch
    Primitives = {schar, sint32, pointer}
    Unknown = {nosuch}
    Types <- MCTypes
    Depth <- MCDepth
    Width <- MCWidth
    FfiSize <- MCFfiSize
    FfiAlign <- MCFfiSize
    FfiReturn <- MCFfiReturn
    CSize <- MCCSize
    CAlign <- MCCSize
INVARIANTS
    Received
    OnlyNativeBeyond
CHECK_DEADLOCK FALSE
