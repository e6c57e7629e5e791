CONSTANTS
    Tasks = {cloud, other}
    None = None
SPECIFICATION Spec
INVARIANT ReadsWhatItAsked
CHECK_DEADLOCK FALSE
