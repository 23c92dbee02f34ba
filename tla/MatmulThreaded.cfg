CONSTANTS
    Worker = {w0, w1, w2}
    Worker0 = w0
    MaxJobs = 2
    MaxSpurious = 0
SPECIFICATION MMSpec
INVARIANTS
    NoConcurrentWrites
    ProductComplete
PROPERTIES
    ProductsTerminate
