\* Three sources.
SPECIFICATION Spec
CONSTANT Source = {s1, s2, s3}
INVARIANT NoGoroutineLeft
PROPERTY RefinesSearchAll
CHECK_DEADLOCK FALSE
