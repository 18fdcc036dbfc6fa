CONSTANTS
    top = top
    base = base
    extra = extra
    t1 = t1
    t2 = t2
    f1 = f1
    s1 = s1
    Names = {t1, t2, f1, s1}
    Dirs = {top, base, extra}
    DirOf <- Placement
    Top = top
    Data = {d1}
    TemplateFiles = {t1, t2}
    TemplateDirs = {top, base}
    Skipped = {s1}
    Configs <- PostgresOpens
    Absent = Absent
    Empty = Empty
    Torn = Torn
    Idle = Idle
SPECIFICATION Spec
INVARIANTS ArchiveIsView
PROPERTIES ImplementsDirectory
