--------------------------- MODULE MCSuggestions ---------------------------
\* Model values and catalog of the instance of Suggestions: three models, each
\* with the others as fallbacks, as in the default catalog.
EXTENDS Suggestions

CONSTANTS c1, p1, p2, p3

ThreeModels == <<p1, p2, p3>>
TheOthers == [p \in {p1, p2, p3} |->
    IF p = p1 THEN <<p2, p3>> ELSE IF p = p2 THEN <<p3, p1>> ELSE <<p2, p1>>]

=============================================================================
