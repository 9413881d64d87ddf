SPECIFICATION HeapSpec
CONSTANTS
 ALIGNMENT=2
 MIN_PAYLOAD_SIZE=2
 FAST_MAX=2
 SMALL_MAX=4
 MMAP_THRESHOLD=6
 LARGE_STEP=2
 LINEAR_BINS=2
 LINEAR_MAX=6
 LARGEBINS_COUNT=3
 HEAP_BASE_SIZE=8
 HEAP_LIMIT=8
 HEAP_GROWTH=1
 PAGE=4
 Requests={3,7,11}
 MaxHeaps=2
 MaxLive=2
 MaxForgotten=1
 NULL=NULL
INVARIANTS BlocksAreOwn HeapWellFormed LargeBestFit
PROPERTIES SweepIsExact OnlyTheTopIsLost
CHECK_DEADLOCK FALSE
