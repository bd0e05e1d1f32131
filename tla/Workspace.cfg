SPECIFICATION Spec
CONSTANTS
    w1 = w1
    w2 = w2
    w3 = w3
    t1 = t1
    t2 = t2
    shared = shared
    skill = skill
    la = la
    lb = lb
    lc = lc
    viewer = viewer
    named = named
    own = own
    look = look
    edit = edit
    drop = drop
    out = out
    raw = raw
    secret = secret
    script = script
    wrong = wrong
    ask = ask
    mcp = mcp
    everyTool = everyTool
    c1 = c1
    c2 = c2
    p1 = p1
    p2 = p2
    m1 = m1
    m2 = m2
    m3 = m3
    ours = ours
    other = other
    d1 = d1
    d2 = d2
    MaxLines = 6
    BufferLines = 3
    ReportLines = 2
    TailLines = 3
INVARIANTS NoErrorLost ReportIsWhole StreamedAsWhole BatchKept PagesTold ChatKept
PROPERTIES MemoryKept FilesKept
CHECK_DEADLOCK FALSE
