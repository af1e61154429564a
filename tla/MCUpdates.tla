------------------------------ MODULE MCUpdates ------------------------------
EXTENDS Updates
===============================================================================
