SPECIFICATION Spec
CONSTANTS
    t1 = t1
    t2 = t2
    x = x
    tables <- MCTables
    Updatable = {t1}
    Rows = {x}
    TableOf <- MCTableOf
    LastDay = 3
    FolderOf <- MCFolderOf
    RecentDays = 1
    MonthDays = 3
    BreaksAfter = {0}
INVARIANTS
    FilesAreComplete
    LookBackIsComplete
    UploadsAreListed
    RebuildRepairs
PROPERTIES
    NeverRewritten
