----------------------------- MODULE MCBufCache -----------------------------
EXTENDS BufCache, TLC

\* Two blocks of one unit and one that spans both
MCBlocks == {<<1, 1>>, <<2, 1>>, <<1, 2>>}

\* Blocks of different sizes that do not overlap
MCApart == {<<1, 1>>, <<2, 2>>, <<4, 2>>, <<6, 2>>}

\* Two blocks of one unit
MCTwo == {<<1, 1>>, <<2, 1>>}

MCSymmetry == Permutations(Procs) \cup Permutations(Bufs)
=============================================================================
