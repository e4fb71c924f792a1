\* Every change of a rule, every expiry of an entry and every reload can fall
\* between any two steps of the two lookups.
SPECIFICATION Spec
CONSTANTS
    r1 = r1
    r2 = r2
    Reply = {r1}
    Lookup = {r1, r2}
    TTL = 1
    MaxVersion = 1
    MaxNow = 2
    NoRules = NoRules
    NotModified = NotModified
    Failed = Failed
    Generated <- MCGenerated
    Canned <- MCCanned
INVARIANTS TypeOK ReplyIsGoverned
CHECK_DEADLOCK FALSE
