----------------------------- MODULE MCStatCache ----------------------------
(* Instances of StatCache for TLC. *)
EXTENDS StatCache

\* Two paths, as a source and a header; and the one all objects include.
TwoPaths == 2
OnePath == 1

=============================================================================
