CONSTANTS
    LOG_I = 4
    LOG_BUCKET_REGION = 5
    LONG_BYTES = 4
    REDC_BITS = 8
    P_BITS = 5
    NORM_MANTISSA = 3
    Settings <- MCSettings
SPECIFICATION Spec
CHECK_DEADLOCK FALSE
INVARIANTS
    
    RelationsRight
    RelationsComplete
