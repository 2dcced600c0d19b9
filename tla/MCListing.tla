----------------------------- MODULE MCListing -----------------------------
(* Rows that share a timestamp and rows inserted out of order; limits below, at and     *)
(* above the bounds.                                                                    *)
EXTENDS Listing

MCLimits == {-1, 0, 1, 2, 7}
=============================================================================
