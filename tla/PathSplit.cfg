CONSTANTS
    MAX_PATH = 6
    Chars = {"a", "."}
    MaxLen = 6
SPECIFICATION Spec
INVARIANTS Recombines ResultFits LikeLibrary
CHECK_DEADLOCK FALSE
