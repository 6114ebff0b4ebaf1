---------------------------- MODULE MCLiveEvents ----------------------------
(* The kinds of the items for TLC. *)
EXTENDS LiveEvents

\* One item of each kind, named after it.
OneOfEach == [i \in Items |-> i]
=============================================================================
