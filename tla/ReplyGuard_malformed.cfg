\* The judge's answer is JSON without a verdict: an exact promise must not go out as it is.
SPECIFICATION Spec
CONSTANTS
    r1 = r1
    r2 = r2
    Reply = {r1}
    Lookup = {r1, r2}
    TTL = 1
    MaxVersion = 1
    MaxNow = 2
    NoRules = NoRules
    NotModified = NotModified
    Failed = Failed
    Generated <- MCGenerated
    Canned <- MCCanned
INVARIANT MalformedIsClosed
CHECK_DEADLOCK FALSE
