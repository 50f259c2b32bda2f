------------------------------ MODULE MCSupply ------------------------------
\* A small instance of Supply.
EXTENDS Supply
=============================================================================
