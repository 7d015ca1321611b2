CONSTANTS
    s1 = s1
    s2 = s2
    s3 = s3
    s4 = s4
    None = None
    Last = 11
    Server <- RepositoryServer
    Scripts <- RepositoryScripts
    Empty = {}
    Repeatable = {7, 9, 10}
SPECIFICATION Spec
INVARIANT UpdateSuffices
