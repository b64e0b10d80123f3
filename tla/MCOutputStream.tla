-------------------------- MODULE MCOutputStream ---------------------------
(* One response; every order of a few sink calls, against a cancel or a    *)
(* reap, a lost call and one reader.                                       *)
EXTENDS OutputStream

CONSTANT r1

\* Bodies are records here; only the store's own type mentions the constant.
NoBodies == {}
=============================================================================
