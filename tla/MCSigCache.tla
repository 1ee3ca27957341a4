------------------------------ MODULE MCSigCache ------------------------------
EXTENDS SigCache, TLC

CONSTANTS t1, t2

MCThreads == {t1, t2}

(* One public key; two signatures over digest 1 and 2.  The signature 1   *)
(* is valid for digest 1 only, so the checks (1,1,1) and (1,1,2) differ   *)
(* in the digest alone.  Three valid checks compete for two slots.        *)
Check(pk, sig, digest) == [pk |-> pk, sig |-> sig, digest |-> digest]
MCChecks == {Check(1, 1, 1), Check(1, 1, 2), Check(1, 2, 2), Check(1, 3, 1)}
MCValid == {Check(1, 1, 1), Check(1, 2, 2), Check(1, 3, 1)}

(* Every key has both slots as its candidates, the first and the second   *)
(* hash function choosing different ones.                                 *)
MCBucket(k, i) == i

Tx(d, m, n) == [deserializes |-> d, sizeMatches |-> m, inputs |-> n]
GoodTx == Tx(TRUE, TRUE, 2)
Job(tx, nIn, flags, amount, c) ==
    [tx |-> tx, nIn |-> nIn, flags |-> flags, amount |-> amount, check |-> c]

StdFlags == VERIFY_P2SH | VERIFY_DERSIG

(* An input for every check, and two failing a precondition: one that   *)
(* does not deserialize (and fails every later check too, to show the     *)
(* order), and a witness input without its amount.  The ASSUMEs below     *)
(* cover the other rejects.                                               *)
MCJobs ==
    {Job(GoodTx, 0, StdFlags, FALSE, c) : c \in MCChecks}
    \cup
    { Job(Tx(FALSE, FALSE, 0), 5, 2^30, FALSE, Check(1, 1, 1)),
      Job(GoodTx, 1, VERIFY_WITNESS, FALSE, Check(1, 1, 1)) }

(* The scenarios of spec.md 8, on the API's outcome. *)
ASSUME verify_script(GoodTx, 0, StdFlags, TRUE) = [ret |-> 1, err |-> ERR_OK]
ASSUME verify_script(GoodTx, 0, StdFlags + 2^30, TRUE)
           = [ret |-> 0, err |-> ERR_INVALID_FLAGS]
ASSUME verify_script(GoodTx, 0, VERIFY_WITNESS, TRUE)
           = [ret |-> 0, err |-> ERR_AMOUNT_REQUIRED]
ASSUME verify_script_with_amount(GoodTx, 0, VERIFY_WITNESS, TRUE)
           = [ret |-> 1, err |-> ERR_OK]
ASSUME verify_script(GoodTx, 5, StdFlags, TRUE) = [ret |-> 0, err |-> ERR_TX_INDEX]

MCSymmetry == Permutations(MCThreads)
====
