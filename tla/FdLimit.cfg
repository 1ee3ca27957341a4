\* Soft limits that fit in an int; every request, with getrlimit working
\* or failing; the soft limit changed from outside between calls.
CONSTANTS
    IntBits = 8
    RlimBits = 10
    MinFDs <- MCMinFDs
    Limits <- MCLimits
SPECIFICATION Spec
INVARIANT RaisedToRequest
