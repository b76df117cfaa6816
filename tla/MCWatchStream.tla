--------------------------- MODULE MCWatchStream ---------------------------
EXTENDS WatchStream

\* Events of kind k1 are selected by both clauses, those of k2 by none, as
\* events of another stream would be.
MCSelects == [all |-> {"k1"}, kind |-> {"k1"}]
OneClause == [all |-> {"k1"}]
=============================================================================
