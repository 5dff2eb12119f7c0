--------------------------- MODULE MCFeatureEngine --------------------------
EXTENDS FeatureEngine, TLC

CONSTANTS w1, w2, x1, x2, y, z

\* One extractor and its upgraded version observe dimension 2 and z as well,
\* another one dimension 1.
Observes == [e \in Extractor |-> IF e = y THEN 1 ELSE 2]

OneRelease == {<<x1, y>>}
Upgrade == {<<x1, y>>, <<x2, y>>}

\* Sorted names, but the dimensions are met in opposite orders.
Crossing == {<<x1, y>>, <<y, z>>}
=============================================================================
