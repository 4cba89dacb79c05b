SPECIFICATION Spec
CONSTANTS
    w1 = w1  w2 = w2  w3 = w3  u1 = u1  b1 = b1
    s1 = s1  s2 = s2  f1 = f1  f2 = f2  sc = sc
    None = None  Unbound = Unbound  Dead = Dead  Expired = Expired
    Widgets = {w1}
    Utilities = {}
    Blueprints = {}
    Compilers = {}
    Scripts = {s1, f1, sc}
    ScriptOf <- MCScriptOf
    FullPath <- MCFullPath
    SharedKey = TRUE
    CompileScript = sc
    Callers = {c1, c2}
    PoolSize = 1
    WithEditor = FALSE
    Nesting = FALSE
    Faults = {}
INVARIANTS
    LiveWidgetIsMounted
