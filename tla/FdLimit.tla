------------------------------- MODULE FdLimit -------------------------------
(***************************************************************************)
(* RaiseFileDescriptorLimit(nMinFD) of src/util/system.cpp (POSIX build) *)
(* against the process's RLIMIT_NOFILE.  The kernel keeps a soft limit    *)
(* (rlim_cur) and a hard limit (rlim_max) of type rlim_t, unsigned and    *)
(* RlimBits wide; RLIM_INFINITY is its largest value.  The function reads *)
(* the limits, raises the soft limit towards nMinFD (never above the hard *)
(* one), reads them again and returns rlim_cur converted to int, IntBits  *)
(* wide.  Both widths are constants so that TLC can reach the boundary   *)
(* with small numbers; the conversions keep their modular meaning.        *)
(***************************************************************************)
EXTENDS Integers

CONSTANTS
    IntBits,    \* width of int
    RlimBits,   \* width of rlim_t
    MinFDs,     \* values callers pass for nMinFD
    Limits      \* possible initial <<rlim_cur, rlim_max>> of the process

RLIM_INFINITY == 2^RlimBits - 1
IntMin == -(2^(IntBits - 1))
IntMax == 2^(IntBits - 1) - 1
NoResult == IntMin - 1     \* nothing returned yet

ASSUME MinFDs \subseteq IntMin..IntMax
ASSUME \A l \in Limits : l[1] <= l[2] /\ l[2] <= RLIM_INFINITY

(* (rlim_t)n: an int converted to the unsigned rlim_t, modulo 2^RlimBits. *)
ToRlim(n) == n % (2^RlimBits)

(* (int)r: an rlim_t converted to int keeps the low IntBits bits, read in *)
(* two's complement (what gcc and clang do).                              *)
ToInt(r) == LET low == r % (2^IntBits)
            IN IF low > IntMax THEN low - 2^IntBits ELSE low

VARIABLES
    rlim_cur,   \* soft limit
    rlim_max,   \* hard limit
    result,     \* value the last call returned
    requested   \* nMinFD of the last call whose getrlimit worked, NoResult
                \* when there is none or the limit changed since (history)

vars == <<rlim_cur, rlim_max, result, requested>>

TypeOK ==
    /\ rlim_cur \in 0..RLIM_INFINITY
    /\ rlim_max \in 0..RLIM_INFINITY
    /\ result \in IntMin..IntMax \cup {NoResult}
    /\ requested \in MinFDs \cup {NoResult}

Init ==
    /\ \E l \in Limits : rlim_cur = l[1] /\ rlim_max = l[2]
    /\ result = NoResult
    /\ requested = NoResult

(* setrlimit: EINVAL, and no change, for a soft limit above the hard one. *)
SetRlimit(cur) == IF cur > rlim_max THEN rlim_cur ELSE cur

(* Mutant: the clamp to rlim_max is lost, so setrlimit refuses the value. *)
RaiseFileDescriptorLimitUnclamped(nMinFD, ok) ==
    LET want == ToRlim(nMinFD)
        new  == IF ok /\ rlim_cur < want THEN SetRlimit(want) ELSE rlim_cur
    IN
    /\ rlim_cur' = new
    /\ result' = IF ok THEN ToInt(new) ELSE nMinFD
    /\ requested' = IF ok THEN nMinFD ELSE NoResult
    /\ UNCHANGED rlim_max

(***************************************************************************)
(* getrlimit succeeds (ok) or fails, in which case nMinFD is returned     *)
(* ("assume it's fine").  A soft limit below (rlim_t)nMinFD is set to it, *)
(* clamped to the hard limit, with setrlimit, and read back.              *)
(***************************************************************************)
RaiseFileDescriptorLimit(nMinFD, ok) ==
    LET want == ToRlim(nMinFD)
        cur  == IF want > rlim_max THEN rlim_max ELSE want
        new  == IF ok /\ rlim_cur < want THEN SetRlimit(cur) ELSE rlim_cur
    IN
    /\ rlim_cur' = new
    /\ result' = IF ok THEN ToInt(new) ELSE nMinFD
    /\ requested' = IF ok THEN nMinFD ELSE NoResult
    /\ UNCHANGED rlim_max

(* Another process (prlimit, or the parent shell's ulimit for the next    *)
(* start) changes the limits between calls; an unprivileged one can lower *)
(* the hard limit, and the soft one with it.                              *)
SetLimits(l) ==
    /\ rlim_cur' = l[1]
    /\ rlim_max' = l[2]
    /\ requested' = NoResult
    /\ UNCHANGED result

Next ==
    \/ \E n \in MinFDs, ok \in BOOLEAN : RaiseFileDescriptorLimit(n, ok)
    \/ \E l \in Limits : SetLimits(l)

Spec == Init /\ [][Next]_vars

-----------------------------------------------------------------------------
(***************************************************************************)
(* "This function tries to raise the file descriptor limit to the         *)
(* requested number": after a call whose getrlimit worked, and until the  *)
(* limits are changed from outside, the soft limit is at least the        *)
(* request, or the whole hard limit when the request is above it.         *)
(***************************************************************************)
RaisedToRequest ==
    requested # NoResult =>
        rlim_cur >= IF ToRlim(requested) > rlim_max THEN rlim_max
                    ELSE ToRlim(requested)

(***************************************************************************)
(* The header comment: "It returns the actual file descriptor limit       *)
(* (which may be more or less than nMinFD)".  Whenever getrlimit worked,  *)
(* the value returned is the soft limit now in force, so a caller that    *)
(* compares it with the descriptors it needs is told the truth (until    *)
(* the limits are changed from outside).                                  *)
(***************************************************************************)
ReturnsActualLimit ==
    requested # NoResult => result = rlim_cur
====
