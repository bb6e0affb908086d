------------------------- MODULE MCNamespaceWriter -------------------------
(***************************************************************************)
(* NamespaceWriter with a single write, a batch of two and an audit entry. *)
(***************************************************************************)
EXTENDS NamespaceWriter

CONSTANTS one, two, entry, r1, r2, r3

SingleAndBatch == one :> <<r1>> @@ two :> <<r2, r3>> @@ entry :> <<>>
=============================================================================
