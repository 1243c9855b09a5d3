CONSTANTS
    Releases <- MCReleases
SPECIFICATION Spec
INVARIANT GoneRowsRemainQueryable
