---------------------------- MODULE ConsensusAPI ----------------------------
(***************************************************************************)
(* The C interface of the script verification library,                   *)
(* src/script/globeconsensus.h: the error enum and the flag bits with     *)
(* their values from the header, and the two verify calls.  The library's *)
(* implementation is not in the repository; what a call returns is        *)
(* modelled from spec.md 4.3: five precondition checks in a fixed order,  *)
(* first match wins, and only then the script evaluation, whose outcome   *)
(* is reduced here to whether its signature check holds.                  *)
(*                                                                         *)
(* A transaction is a record: it deserializes or not, its re-serialized   *)
(* length matches txToLen or not, and it has some number of inputs.       *)
(***************************************************************************)
EXTENDS Naturals, Bitwise

GLOBECONSENSUS_API_VER == 1

(* globeconsensus_error, numbered as in the header. *)
ERR_OK               == 0
ERR_TX_INDEX         == 1
ERR_TX_SIZE_MISMATCH == 2
ERR_TX_DESERIALIZE   == 3
ERR_AMOUNT_REQUIRED  == 4
ERR_INVALID_FLAGS    == 5
(* Not an enumerator: the script evaluation's own failure reasons, which  *)
(* the model does not tell apart.                                         *)
ERR_SCRIPT           == 6

Errors == ERR_OK..ERR_SCRIPT

(* The script verification flags. *)
VERIFY_NONE                == 0
VERIFY_P2SH                == 2^0
VERIFY_DERSIG              == 2^2
VERIFY_NULLDUMMY           == 2^4
VERIFY_CHECKLOCKTIMEVERIFY == 2^9
VERIFY_CHECKSEQUENCEVERIFY == 2^10
VERIFY_WITNESS             == 2^11
VERIFY_ALL == VERIFY_P2SH | VERIFY_DERSIG | VERIFY_NULLDUMMY
              | VERIFY_CHECKLOCKTIMEVERIFY | VERIFY_CHECKSEQUENCEVERIFY
              | VERIFY_WITNESS

(* A bit of flags is set. *)
HasFlag(flags, bit) == (flags & bit) # 0

(***************************************************************************)
(* spec.md 4.3: the immediate rejects, checked before any script          *)
(* evaluation in this order.  A flag word with a bit outside VERIFY_ALL   *)
(* is invalid; the witness flag needs the spent amount, which only        *)
(* verify_script_with_amount supplies.                                    *)
(***************************************************************************)
PreconditionError(tx, nIn, flags, hasAmount) ==
    CASE ~tx.deserializes                         -> ERR_TX_DESERIALIZE
      [] ~tx.sizeMatches                          -> ERR_TX_SIZE_MISMATCH
      [] nIn >= tx.inputs                         -> ERR_TX_INDEX
      [] (flags & VERIFY_ALL) # flags             -> ERR_INVALID_FLAGS
      [] HasFlag(flags, VERIFY_WITNESS) /\ ~hasAmount -> ERR_AMOUNT_REQUIRED
      [] OTHER                                    -> ERR_OK

(* What a call returns: 1 and ERR_OK when the preconditions pass and the  *)
(* script evaluates to true, 0 and the first failing check otherwise.     *)
VerifyOutcome(tx, nIn, flags, hasAmount, scriptOk) ==
    LET pre == PreconditionError(tx, nIn, flags, hasAmount) IN
    CASE pre # ERR_OK -> [ret |-> 0, err |-> pre]
      [] scriptOk     -> [ret |-> 1, err |-> ERR_OK]
      [] OTHER        -> [ret |-> 0, err |-> ERR_SCRIPT]

(* globeconsensus_verify_script: no amount is passed. *)
verify_script(tx, nIn, flags, scriptOk) ==
    VerifyOutcome(tx, nIn, flags, FALSE, scriptOk)

(* globeconsensus_verify_script_with_amount. *)
verify_script_with_amount(tx, nIn, flags, scriptOk) ==
    VerifyOutcome(tx, nIn, flags, TRUE, scriptOk)

globeconsensus_version == GLOBECONSENSUS_API_VER
====
