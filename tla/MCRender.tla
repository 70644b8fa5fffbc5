------------------------------ MODULE MCRender ------------------------------
(* Three renders, the third over what two others left, and two edits.         *)
EXTENDS Render
=============================================================================
