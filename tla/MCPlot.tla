------------------------------- MODULE MCPlot -------------------------------
\* Three places, two of them inside the axes.
EXTENDS Plot

MCWindows == {{1, 2}}
=============================================================================
