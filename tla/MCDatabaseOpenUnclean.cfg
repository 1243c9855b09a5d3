CONSTANTS
    Releases <- MCReleases
SPECIFICATION Spec
INVARIANT UncleanStartIsChecked
