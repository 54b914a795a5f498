----------------------------- MODULE MCExtract ------------------------------
EXTENDS ExtractorInvariant, TLC

CONSTANTS a, b, other

Identifiers == Permutations({a, b})

MCLists == {<<other>>}
=============================================================================
