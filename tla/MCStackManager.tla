--------------------------- MODULE MCStackManager ---------------------------
EXTENDS StackManager

MCCoord == {<<0, 0>>, <<1, 0>>, <<0, 1>>}
MCOrigin == <<0, 0>>
=============================================================================
