SPECIFICATION Spec
CONSTANTS
  Binds = {"any4", "any6", "loop4", "loop6", "interface"}
  MaxCount = 2
INVARIANTS ScrapeBetween PassMeansReached FailMeansTrouble
