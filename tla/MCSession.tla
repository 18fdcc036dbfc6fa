------------------------------ MODULE MCSession ------------------------------
(* An extension whose dependency has the later name.                       *)
EXTENDS Session

CONSTANTS cube, earth

Catalogue == <<earth, cube>>
Needs == [e \in {cube, earth} |-> IF e = earth THEN <<cube>> ELSE <<>>]

(* resolve_extension_set on every catalogue of three extensions without a  *)
(* cycle.                                                                  *)
Names == <<"a", "b", "c">>
Catalogues ==
    LET Lists == {<<>>} \cup {<<d>> : d \in ToSet(Names)}
                        \cup {p \in ToSet(Names) \X ToSet(Names) : p[1] # p[2]}
    IN  {needs \in [ToSet(Names) -> Lists] :
            \E rank \in [ToSet(Names) -> 1 .. 3] :
                \A e \in ToSet(Names) : \A d \in ToSet(needs[e]) : rank[d] < rank[e]}

Catalog(needs) == INSTANCE ExtensionSet WITH All <- Names, Dependencies <- needs

ASSUME CatalogueResolves == ResolvesInOrder
ASSUME AllResolve == \A needs \in Catalogues : Catalog(needs)!ResolvesInOrder
=============================================================================
