CONSTANTS
    Releases <- MCReleases
SPECIFICATION Spec
INVARIANTS
    TypeOK
    SchemaServes
    WedgeExplained
    RowsKept
