--------------------------- MODULE MCBufferingSink ---------------------------
EXTENDS BufferingSink, TLC

MCInputs == {<<>>, <<1>>, <<2>>, <<1, 2>>, <<2, 1, 1>>}

==============================================================================
