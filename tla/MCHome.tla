----------------------------- MODULE MCHome --------------------------------
EXTENDS Home
CONSTANTS h1, h2, h3, t1, x1
MCHashes == {h1, h2, h3}
MCAudio == [h \in MCHashes |-> "song"]
MCQuality == [h \in MCHashes |-> IF h = h1 THEN 2 ELSE IF h = h2 THEN 1 ELSE 0]
MCBecomes == [x \in {x1} |-> t1]
MCBatches == {<<Local(t1)>>, <<Remote(x1)>>, <<Local(t1), Remote(x1)>>}
MCSymmetry == Permutations(Blobs) \cup Permutations(Keepers) \cup Permutations(Clients) \cup Permutations(Users)
=============================================================================
