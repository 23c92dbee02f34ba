SPECIFICATION Spec
CONSTANTS
  Jobs <- MCJobs
  Flags <- MCFlags
  Guesses <- MCGuesses
  MaxHup = 1
CHECK_DEADLOCK FALSE
INVARIANTS
    CallsMatch
    
