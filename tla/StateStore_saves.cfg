SPECIFICATION Spec
CONSTANTS
    Sessions = {s1, s2}
    Ids = {1, 2}
    Edits = {"append", "body", "truncate", "replace"}
    Keep = 1
    Long = {s1}
    MaxLength = 2
    MaxRollbacks = 1
    MaxProjects = 1
INVARIANTS CleanIsDurable
PROPERTIES ImplementsTaskStore HydrationIsACache
