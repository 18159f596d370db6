\* A header of up to two parts of its own, then up to three proxies; scripts
\* of up to seven bytes, enough for a string with an escaped quote and a
\* bracket in an object.  Both machines stop at their bounds.
CONSTANTS
    Addresses = {a, b, p, q}
    Trusted = {p, q}
    Junk = {junk}
    MaxHeader = 5
    MaxForged = 2
    MaxText = 7
SPECIFICATION Spec
INVARIANTS ClientIsFound ValueComesBack CutIsNoValue
CHECK_DEADLOCK FALSE
