------------------------------ MODULE MCJson ------------------------------
(* Texts of brackets, quotes, backslashes and letters, for Json.             *)
EXTENDS Json

\* [ ] " \ n a
StringPieces == {<<91>>, <<93>>, <<34>>, <<92>>, <<110>>, <<97>>}
=============================================================================
