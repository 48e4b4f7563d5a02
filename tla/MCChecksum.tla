----------------------------- MODULE MCChecksum -----------------------------
(* Values for Checksum's constants: no pseudo header (IP), and one whose   *)
(* sum has a carry (TCP).                                                  *)
EXTENDS Checksum

MCHeaders == {<<>>, <<5, 7>>}
=============================================================================
