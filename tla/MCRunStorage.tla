---------------------------- MODULE MCRunStorage ----------------------------
EXTENDS RunStorage
=============================================================================
