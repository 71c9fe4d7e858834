----------------------------- MODULE MCPipeChat -----------------------------
(* "end chat" is e, c, and a buffer has four characters: an empty line, a     *)
(* line with "end chat" in its middle, "end chat" itself, and a line of which *)
(* the first read of the terminal takes four characters.                      *)
EXTENDS PipeChat

EndOfChat == <<"e", "c">>
TypedTexts == {<<NL>>, <<"x", "e", "c", NL>>, <<"e", "c", NL>>, <<"c", "x", "x", "e">>}
=============================================================================
