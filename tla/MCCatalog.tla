------------------------------ MODULE MCCatalog ------------------------------
EXTENDS Catalog

CONSTANTS mal, kitsu

\* What two providers report about one show: they disagree on its first id.
Shows == {{<<mal, 1>>, <<kitsu, 1>>}, {<<mal, 2>>, <<kitsu, 1>>}}
\* One row that only one of the providers knows, once or twice.
Stored == {<<{<<mal, 1>>}>>, <<{<<mal, 1>>}, {<<mal, 1>>}>>}
Symmetry == Permutations(Worker)
==============================================================================
