CONSTANTS
    r3 = r3
    Req = {r1, r2, r3}
    Database = {d1, d2}
    Calls = {"read", "schema", "refresh", "forget", "select", "ddl", "rows", "cql"}
    MaxVersion = 1
    None = None
SPECIFICATION MCSpec
SYMMETRY Symmetry
INVARIANTS
    AnswersAreFresh
    ChangesAreForgotten
    WaitersAreAwaited
