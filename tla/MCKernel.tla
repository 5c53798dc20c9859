------------------------------ MODULE MCKernel ------------------------------
EXTENDS Kernel

\* Rights that tell GRANT, DESTROY and a plain right apart, alone and all
\* together: attenuating away each of them, and asking for too much.
RequestsDef == {{"GRANT"}, {"DESTROY"}, ALL}
=============================================================================
