--------------------------- MODULE MCStringBuilder ---------------------------
(***************************************************************************)
(* StringBuilder with strings of several lengths around its bounds.        *)
(***************************************************************************)
EXTENDS StringBuilder

CONSTANTS a, b

MCStrings == {<<>>, <<a>>, <<b>>, <<a, b>>, <<b, a, b>>, <<a, a, b, b, a, b, a>>}

=============================================================================
