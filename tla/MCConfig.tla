------------------------------ MODULE MCConfig ------------------------------
\* share/default.mcf as it is shipped, for the variables of the model: a real
\* board, and limits of which one is outside the internal defaults.  One of the other
\* numbers has a seventh decimal.
EXTENDS Config

MCSysDefault == <<<<"dummy", FALSE>>, <<"node", "comedi0">>, <<"min", 0>>, <<"max", 10 * Unit>>>>
MCLimits == {-Unit, 0, 7, 10 * Unit}
=============================================================================
