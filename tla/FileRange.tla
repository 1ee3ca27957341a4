------------------------------ MODULE FileRange ------------------------------
(***************************************************************************)
(* AllocateFileRange(file, offset, length) of src/util/system.cpp, in the  *)
(* build for Linux and the BSDs (HAVE_POSIX_FALLOCATE).  One call: try     *)
(* posix_fallocate for the file up to offset + length, computed as off_t; *)
(* if that fails, fseek to offset and write zeros in chunks of at most    *)
(* Chunk bytes (65536 in the code) until length, an unsigned int, is       *)
(* used up.  fwrite is "allowed to fail" and may write fewer bytes than    *)
(* asked.  The comment on the function says it is advisory and that "the *)
(* range specified in the arguments will never contain live data": the    *)
(* caller keeps data outside the range, so the function must not write    *)
(* there.                                                                  *)
(*                                                                         *)
(* unsigned int is UIntBits wide (a constant, so that TLC reaches its     *)
(* limit); a byte of the file is a natural number, and only where zeros   *)
(* were written or space was allocated is recorded.                       *)
(***************************************************************************)
EXTENDS Naturals

CONSTANTS
    UIntBits,   \* width of unsigned int
    Chunk,      \* the size of the zero buffer, 65536
    Offsets,    \* offsets callers pass
    Lengths     \* lengths callers pass

UIntMax == 2^UIntBits - 1

ASSUME Offsets \cup Lengths \subseteq 0..UIntMax /\ Chunk \in 1..UIntMax

VARIABLES
    offset,     \* the offset argument
    request,    \* the length argument as passed (history)
    length,     \* the length parameter, counted down by the loop
    pos,        \* the file position
    pc,         \* "fallocate", "seek", "loop" or "done"
    allocated,  \* bytes posix_fallocate reserved
    zeroed,     \* bytes the fallback loop wrote zeros to
    errored     \* fseek failed or an fwrite wrote short (history)

vars == <<offset, request, length, pos, pc, allocated, zeroed, errored>>

(* The bytes the caller asked for: [offset, offset + length). *)
Range == offset..(offset + request - 1)

Init ==
    /\ offset \in Offsets
    /\ length \in Lengths
    /\ request = length
    /\ pos = 0
    /\ pc = "fallocate"
    /\ allocated = {}
    /\ zeroed = {}
    /\ errored = FALSE

(* Mutant: nEndPos computed in unsigned int, as offset + length would be  *)
(* without the cast, so it wraps around.                                  *)
EndPosUnsigned(off, len) == (off + len) % (UIntMax + 1)

(* off_t nEndPos = (off_t)offset + length: 64 bits, no wrap-around. *)
EndPos(off, len) == off + len

(***************************************************************************)
(* posix_fallocate(fd, 0, nEndPos) reserves the file up to nEndPos and    *)
(* returns; on an error (a file system without support, a full disk) the  *)
(* function falls back to writing zeros.                                  *)
(***************************************************************************)
Fallocate(ok) ==
    /\ pc = "fallocate"
    /\ allocated' = IF ok THEN 0..(EndPos(offset, length) - 1) ELSE allocated
    /\ pc' = IF ok THEN "done" ELSE "seek"
    /\ UNCHANGED <<offset, request, length, pos, zeroed, errored>>

(* fseek(file, offset, SEEK_SET); on failure the function returns. *)
Seek(ok) ==
    /\ pc = "seek"
    /\ pos' = IF ok THEN offset ELSE pos
    /\ pc' = IF ok THEN "loop" ELSE "done"
    /\ errored' = ~ok
    /\ UNCHANGED <<offset, request, length, allocated, zeroed>>

(* Mutant: the chunk is not clamped to what is left of length. *)
WriteChunkUnclamped(written) ==
    /\ pc = "loop"
    /\ length > 0
    /\ written \in 0..Chunk
    /\ zeroed' = zeroed \cup pos..(pos + written - 1)
    /\ pos' = pos + written
    /\ length' = (length - Chunk) % (UIntMax + 1)
    /\ errored' = (errored \/ written < Chunk)
    /\ UNCHANGED <<offset, request, pc, allocated>>

(***************************************************************************)
(* One iteration of while (length > 0): now = min(65536, length); fwrite  *)
(* writes some prefix of the now bytes at the file position and moves it; *)
(* length -= now whatever fwrite returned.                                 *)
(***************************************************************************)
WriteChunk(written) ==
    LET now == IF length < Chunk THEN length ELSE Chunk IN
    /\ pc = "loop"
    /\ length > 0
    /\ written \in 0..now
    /\ zeroed' = zeroed \cup pos..(pos + written - 1)
    /\ pos' = pos + written
    /\ length' = (length - now) % (UIntMax + 1)
    /\ errored' = (errored \/ written < now)
    /\ UNCHANGED <<offset, request, pc, allocated>>

(* Mutant: the loop is written while (length >= 0), which an unsigned     *)
(* length always satisfies: at zero it goes on writing nothing.           *)
LoopExitUnsigned ==
    /\ pc = "loop"
    /\ length < 0
    /\ pc' = "done"
    /\ UNCHANGED <<offset, request, length, pos, allocated, zeroed, errored>>

(* The loop condition fails and the function returns. *)
LoopExit ==
    /\ pc = "loop"
    /\ length = 0
    /\ pc' = "done"
    /\ UNCHANGED <<offset, request, length, pos, allocated, zeroed, errored>>

Next ==
    \/ \E ok \in BOOLEAN : Fallocate(ok) \/ Seek(ok)
    \/ \E w \in 0..Chunk : WriteChunk(w)
    \/ LoopExit

(* The calling thread keeps running: each step it can take, it takes. *)
Spec == Init /\ [][Next]_vars /\ WF_vars(Next)

-----------------------------------------------------------------------------
(***************************************************************************)
(* The comment's promise that the range never holds live data is only of   *)
(* use if the function writes nowhere else: whatever fwrite returns, the  *)
(* zeros of the fallback loop land inside [offset, offset + length).       *)
(***************************************************************************)
NoWriteOutsideRange == zeroed \subseteq Range

(***************************************************************************)
(* A call that met no error leaves the whole range backed by disk space:  *)
(* reserved by posix_fallocate or filled with zeros, even when offset +   *)
(* length is beyond what an unsigned int holds.                           *)
(***************************************************************************)
RangeAllocated == pc = "done" /\ ~errored => Range \subseteq allocated \cup zeroed

(***************************************************************************)
(* Every call returns, even when every fwrite fails (a full disk): the    *)
(* loop counts length down by the chunk it asked for, never by what was   *)
(* written, and never below zero.                                          *)
(***************************************************************************)
Terminates == <>(pc = "done")
====
