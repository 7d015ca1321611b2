CONSTANTS
    s1 = s1
    s2 = s2
    s3 = s3
    s4 = s4
    None = None
    Last = 5
    Server <- MCServer
    Scripts <- MCScripts
    Empty = {1}
    Repeatable = {3}
SPECIFICATION Spec
INVARIANTS ServesUpToDate UpdateCounts WholeReleases
PROPERTY VersionFalls
