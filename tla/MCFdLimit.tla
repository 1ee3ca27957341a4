------------------------------ MODULE MCFdLimit ------------------------------
(* FdLimit for TLC with an 8-bit int and a 10-bit rlim_t.                  *)
EXTENDS FdLimit

(* Requests below, at and above the usual limits (callers add up counts *)
(* of descriptors, so a request is positive).                           *)
MCMinFDs == {20, 64, 100, 127}

(* Soft and hard limits that fit in an int, with a hard limit of         *)
(* RLIM_INFINITY among them.                                              *)
MCLimits == {<<s, h>> \in {16, 64, 120} \X {64, 127, 1023} : s <= h}

(* ... and a soft limit that does not fit in an int (ulimit -n unlimited). *)
MCLimitsUnlimited == MCLimits \cup {<<1023, 1023>>}
=============================================================================
