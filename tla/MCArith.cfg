SPECIFICATION Spec
CONSTANTS
    WideModuli = {257, 259, 511, 561, 1105, 2047, 4093, 4095}
    WideModuli2 = {257, 4097, 8191, 12289, 16381, 16383}
    WideStep = 61
    Exponents = {0, 1, 6, 11, 15}
    Firsts = {0, 1, 6, 8, 15}
    PrimeModuli2 = {14337, 14849, 15361, 15873}
CHECK_DEADLOCK FALSE
INVARIANTS
    
    NumberTheory
