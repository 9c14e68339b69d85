--------------------------------- MODULE MCApp ---------------------------------
EXTENDS App
=============================================================================
