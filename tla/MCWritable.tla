----------------------------- MODULE MCWritable -----------------------------
(***************************************************************************)
(* Two writes, a close and two aborts, of one writer after another, over a *)
(* queue that a single chunk fills; a chunk can also have no size at all.  *)
(***************************************************************************)
EXTENDS Writable
=============================================================================
