\* Three entries, a search of two rows: a full index crowds candidates out.
CONSTANTS
    i1 = i1
    i2 = i2
    i3 = i3
    Ids = {i1, i2, i3}
    Namespaces = {"a", "b"}
    Prompts <- MCPrompts
    Similarity <- MCSimilarity
    Scale = 10
    Neighbours = 2
    Nothing = Nothing
    Ttls = {2}
    Ages = {2}
    Taus = {6}
    BaseThreshold = 9
    MaxTime = 1
SPECIFICATION Spec
SYMMETRY Symmetry
INVARIANTS
    TypeOK
    RowsMatchEntries
PROPERTIES
    ImplementsStore
