\* A process started with an unlimited soft limit (RLIM_INFINITY), which
\* RaiseFileDescriptorLimit leaves as it is and returns as an int.
CONSTANTS
    IntBits = 8
    RlimBits = 10
    MinFDs <- MCMinFDs
    Limits <- MCLimitsUnlimited
SPECIFICATION Spec
INVARIANT ReturnsActualLimit
