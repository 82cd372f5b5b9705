---------------------------- MODULE MCFramework ----------------------------
EXTENDS Framework

CONSTANTS m1, m2, t1, t2

\* The first strategy refuses the first market, the second takes both.
SecondTakesAll == {<<1, m2>>, <<2, m1>>, <<2, m2>>}
=============================================================================
