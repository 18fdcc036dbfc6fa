CONSTANTS
    Sources <- AllSources
    Templates = {t1, t2}
    NoTemplate = NoTemplate
    Torn = Torn
    Builds = {t1}
    InterruptIn <- Anywhere
SPECIFICATION Spec
INVARIANTS StartsOnWhole
