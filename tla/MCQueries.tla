----------------------------- MODULE MCQueries ------------------------------
EXTENDS Queries

CONSTANTS old, new, short, long

MCSize == [t \in Texts |-> CASE t = long -> 3 [] t = short -> 1 [] OTHER -> 2]
=============================================================================
