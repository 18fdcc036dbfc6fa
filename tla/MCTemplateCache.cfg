CONSTANTS
    Procs = {p1, p2, p3}
    NoProc = NoProc
SPECIFICATION CacheSpec
INVARIANTS CacheTypeOK TemplateWhole ErrorIsOwn
PROPERTIES AskedIsAnswered
