--------------------------- MODULE MCFragmentRead ---------------------------
(***************************************************************************)
(* An instance of FragmentRead for TLC: sectors of two bytes, fragments of *)
(* two sectors, documents of up to three fragments, and every read of them *)
(* that begins at most two bytes behind their end.                         *)
(***************************************************************************)
EXTENDS FragmentRead

SmallSizes   == 0..10
SmallOffsets == 0..12
SmallLengths == 1..9
=============================================================================
