\* mem_init(300): three pages, more than the calls can fill.  Blocks of 8
\* and 56 bytes: a free that merges with both neighbours leaves the next
\* free block's prev pointing into the merged block, and a 56-byte request
\* the merged block cannot serve then takes that block.
CONSTANTS
    PageSize = 128
    HeapStart = 256
    InitSize = 300
    Sizes = {8, 56}
    UserVals = {}
    MaxCalls = 9
SPECIFICATION Spec
INVARIANT NoOverlap
CHECK_DEADLOCK FALSE
