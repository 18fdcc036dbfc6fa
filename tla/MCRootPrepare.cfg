CONSTANTS
    Sources <- AllSources
    Templates = {t1, t2}
    NoTemplate = NoTemplate
    Torn = Torn
    Builds = {t1, t2}
    InterruptIn <- WhereRecovered
SPECIFICATION Spec
INVARIANTS StartsOnWhole DataKept
PROPERTIES NeverDiscardsServed Reopens
