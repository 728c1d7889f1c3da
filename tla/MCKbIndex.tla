----------------------------- MODULE MCKbIndex -----------------------------
EXTENDS KbIndex, TLC

MCSymmetry == Permutations(Workers) \cup Permutations(Syncs) \cup Permutations(Contents)
              \cup Permutations(Docs) \cup Permutations(Models)
=============================================================================
