\* Two requests that create communities; no migration runs.
CONSTANTS
    c1 = c1
    c2 = c2
    c2edited = c2edited
    c3 = c3
    c4 = c4
    Content = {c1, c2, c2edited, c3, c4}
    old1 = old1
    new1 = new1
    Runner = {old1, new1}
    Disk <- TwoReleases
    Down <- OwnDown
    OldRows = {1, 2}
    MaxSteps = 3
    MaxRuns = 0
    Foo = Foo
    foo = foo
    Odos = Odos
    odos = odos
    odosFinal = odosFinal
    g1 = g1
    g2 = g2
    a1 = a1
    a2 = a2
    q1 = q1
    q2 = q2
    ScriptFold <- Script
    DatabaseFold <- Database
    Community = {g1, g2}
    Request = {q1, q2}
    Address = {a1}
    Name = {Foo, foo}
    Load <- TwoCreators
SPECIFICATION DatabaseSpec
CHECK_DEADLOCK FALSE
INVARIANTS
    NamesDiffer
