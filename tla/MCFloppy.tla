------------------------------ MODULE MCFloppy ------------------------------
EXTENDS Floppy
=============================================================================
