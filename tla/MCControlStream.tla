--------------------------- MODULE MCControlStream ---------------------------
(* An instance of ControlStream for TLC: a message without members, one with an *)
(* object in it, and one with a closing brace in a string.                      *)
EXTENDS ControlStream

Empty == <<"open", "close">>
Nested == <<"open", "other", "open", "close", "close">>
Quoted == <<"open", "close", "other", "close">>
MCTexts == {Empty, Nested, Quoted}
=============================================================================
