--------------------------- MODULE MCPipeTransfer ---------------------------
EXTENDS PipeTransfer
=============================================================================
