-------------------------- MODULE MCBufferingSource --------------------------
EXTENDS BufferingSource
==============================================================================
