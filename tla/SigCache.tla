------------------------------- MODULE SigCache -------------------------------
(***************************************************************************)
(* The verification core of spec.md 4.1-4.3 and 5: worker threads verify  *)
(* transaction inputs in parallel through the API of ConsensusAPI, and    *)
(* every signature check of a call goes through the signature validation  *)
(* cache, a cuckoo presence set shared by all threads.  The code of the   *)
(* engine and of the cache is not in the repository; both are modelled    *)
(* from the spec.                                                          *)
(*                                                                         *)
(* One call of a thread: the preconditions (ConsensusAPI); have_verified, *)
(* which reads the key's candidate slots one at a time without a lock;    *)
(* on a miss the crypto primitive; on success record_verified, which      *)
(* takes the writers' exclusive section and inserts the key, relocating   *)
(* occupants ("kicks") up to MaxDepth times and dropping the key in hand  *)
(* when the depth is used up.  A slot is written atomically.  Besides the *)
(* threads: the caller's policy advances the generation, a maintenance    *)
(* pass sweeps the oldest generation out under the writers' section, and  *)
(* initialize/resize empties the set while no call is running.            *)
(*                                                                         *)
(* A signature check is a record [pk, sig, digest]; Valid is the crypto   *)
(* primitive's verdict on each.  A job is one input to verify.            *)
(***************************************************************************)
EXTENDS ConsensusAPI, FiniteSets

CONSTANTS
    Threads,        \* the verification worker threads
    Slots,          \* the backing array of the presence set
    Checks,         \* signature checks [pk, sig, digest]
    Valid,          \* the checks the crypto primitive accepts
    Bucket(_, _),   \* Bucket(key, i): the i-th candidate slot of a key
    Jobs,           \* inputs to verify: [tx, nIn, flags, amount, check]
    MaxDepth,       \* the kick depth limit of insert
    MaxGen,         \* bound on generation advances
    MaxCalls,       \* bound on the verify calls of a behaviour
    Nobody,         \* no thread holds the writers' section
    Nil,            \* an empty slot
    NoJob           \* a thread that has not been called yet

ASSUME Valid \subseteq Checks /\ MaxDepth \in Nat /\ MaxGen \in Nat
ASSUME \A j \in Jobs : j.check \in Checks

VARIABLES
    table,      \* table[s]: Nil or [key, gen], the entry in slot s
    gen,        \* the current generation
    writer,     \* the thread in the writers' exclusive section
    pc,         \* pc[t]: "idle", "lookup", "crypto", "lock", "insert"
    job,        \* job[t]: the input thread t verifies (or verified last)
    result,     \* result[t]: what the call returned [ret, err]
    unread,     \* unread[t]: candidate slots have_verified has not read
    carried,    \* carried[t]: the [key, gen] insert holds in hand
    from,       \* from[t]: the slot the carried entry was kicked out of
    depth,      \* depth[t]: kicks so far in this insert
    calls,      \* verify calls so far
    retained    \* keys inserted and not yet dropped, swept or cleared
                \* (history)

vars == <<table, gen, writer, pc, job, result, unread, carried, from, depth,
          calls, retained>>

-----------------------------------------------------------------------------
(* Mutant: the key leaves the message digest out of the derivation. *)
KeyIgnoringDigest(c) == <<c.pk, c.sig>>

(***************************************************************************)
(* CacheKey: a digest of (pubkey, signature, message digest, salt).  The  *)
(* salt is fixed for the process and collisions are treated as           *)
(* impossible, so the key is the triple itself.                          *)
(***************************************************************************)
Key(c) == <<c.pk, c.sig, c.digest>>

(* The candidate slots of a key (two independent hash functions). *)
Candidates(k) == {Bucket(k, 1), Bucket(k, 2)}

Entries == [key : {Key(c) : c \in Checks}, gen : 0..MaxGen]
TableKeys == {table[s].key : s \in {x \in Slots : table[x] # Nil}}

(* The outcome of a call with the cache left out: the reference. *)
Reference(j) ==
    VerifyOutcome(j.tx, j.nIn, j.flags, j.amount, j.check \in Valid)

TypeOK ==
    /\ table \in [Slots -> Entries \cup {Nil}]
    /\ gen \in 0..MaxGen
    /\ writer \in Threads \cup {Nobody}
    /\ pc \in [Threads -> {"idle", "lookup", "crypto", "lock", "insert"}]
    /\ job \in [Threads -> Jobs \cup {NoJob}]
    /\ unread \in [Threads -> SUBSET Slots]
    /\ carried \in [Threads -> Entries \cup {Nil}]
    /\ depth \in [Threads -> 0..MaxDepth]
    /\ calls \in 0..MaxCalls

Init ==
    /\ table = [s \in Slots |-> Nil]
    /\ gen = 0
    /\ writer = Nobody
    /\ pc = [t \in Threads |-> "idle"]
    /\ job = [t \in Threads |-> NoJob]
    /\ result = [t \in Threads |-> [ret |-> 0, err |-> ERR_OK]]
    /\ unread = [t \in Threads |-> {}]
    /\ carried = [t \in Threads |-> Nil]
    /\ from = [t \in Threads |-> Nil]
    /\ depth = [t \in Threads |-> 0]
    /\ calls = 0
    /\ retained = {}

(* The call of thread t returns r. *)
Return(t, r) ==
    /\ pc' = [pc EXCEPT ![t] = "idle"]
    /\ result' = [result EXCEPT ![t] = r]

Accept(t) == Return(t, [ret |-> 1, err |-> ERR_OK])

-----------------------------------------------------------------------------
(***************************************************************************)
(* verify(...) is called on thread t.  The preconditions are checked      *)
(* first; a failing one returns at once and the cache is not consulted.   *)
(* Otherwise evaluation reaches the signature check, which starts with    *)
(* have_verified.                                                          *)
(***************************************************************************)
Call(t, j) ==
    LET pre == PreconditionError(j.tx, j.nIn, j.flags, j.amount) IN
    /\ pc[t] = "idle"
    /\ calls < MaxCalls
    /\ calls' = calls + 1
    /\ job' = [job EXCEPT ![t] = j]
    /\ IF pre # ERR_OK
       THEN /\ Return(t, [ret |-> 0, err |-> pre])
            /\ UNCHANGED unread
       ELSE /\ pc' = [pc EXCEPT ![t] = "lookup"]
            /\ unread' = [unread EXCEPT ![t] = Candidates(Key(j.check))]
            /\ UNCHANGED result
    /\ UNCHANGED <<table, gen, writer, carried, from, depth, retained>>

(***************************************************************************)
(* have_verified -> contains(key): read one candidate slot, without any   *)
(* lock.  An exact match is a hit: the check counts as proven and the     *)
(* script evaluates to true.  When no candidate matched, it is a miss.    *)
(***************************************************************************)
Probe(t, s) ==
    LET k == Key(job[t].check) IN
    /\ pc[t] = "lookup"
    /\ s \in unread[t]
    /\ unread' = [unread EXCEPT ![t] = @ \ {s}]
    /\ IF table[s] # Nil /\ table[s].key = k
       THEN Accept(t)
       ELSE /\ pc' = [pc EXCEPT ![t] = IF unread[t] = {s} THEN "crypto" ELSE "lookup"]
            /\ UNCHANGED result
    /\ UNCHANGED <<table, gen, writer, job, carried, from, depth, calls, retained>>

(***************************************************************************)
(* On a miss, the crypto primitive checks the signature.  A valid one is  *)
(* recorded (record_verified) before the call returns true; an invalid   *)
(* one fails the script and is never recorded.                            *)
(***************************************************************************)
Crypto(t) ==
    /\ pc[t] = "crypto"
    /\ IF job[t].check \in Valid
       THEN /\ pc' = [pc EXCEPT ![t] = "lock"]
            /\ UNCHANGED result
       ELSE Return(t, [ret |-> 0, err |-> ERR_SCRIPT])
    /\ UNCHANGED <<table, gen, writer, job, unread, carried, from, depth,
                   calls, retained>>

(* record_verified -> insert(key): enter the writers' exclusive section   *)
(* with the new key, tagged with the current generation, in hand.         *)
Acquire(t) ==
    LET k == Key(job[t].check) IN
    /\ pc[t] = "lock"
    /\ writer = Nobody
    /\ writer' = t
    /\ pc' = [pc EXCEPT ![t] = "insert"]
    /\ carried' = [carried EXCEPT ![t] = [key |-> k, gen |-> gen]]
    /\ from' = [from EXCEPT ![t] = Nil]
    /\ depth' = [depth EXCEPT ![t] = 0]
    /\ retained' = retained \cup {k}
    /\ UNCHANGED <<table, gen, job, result, unread, calls>>

(* Leave the writers' section; record_verified and the call return. *)
InsertDone(t) ==
    /\ writer' = Nobody
    /\ carried' = [carried EXCEPT ![t] = Nil]
    /\ Accept(t)

(* An empty candidate slot of the entry in hand: occupy it. *)
Place(t, s) ==
    /\ pc[t] = "insert"
    /\ s \in Candidates(carried[t].key)
    /\ table[s] = Nil
    /\ table' = [table EXCEPT ![s] = carried[t]]
    /\ InsertDone(t)
    /\ UNCHANGED <<gen, job, unread, from, depth, calls, retained>>

(* Mutant: a full slot is overwritten and its occupant lost. *)
KickOverwriting(t, s) ==
    /\ pc[t] = "insert"
    /\ \A x \in Candidates(carried[t].key) : table[x] # Nil
    /\ depth[t] < MaxDepth
    /\ s \in Candidates(carried[t].key) \ {from[t]}
    /\ table' = [table EXCEPT ![s] = carried[t]]
    /\ InsertDone(t)
    /\ UNCHANGED <<gen, job, unread, from, depth, calls, retained>>

(* Mutant: the depth limit is tested with <= and one kick too many is made. *)
KickUnbounded(t, s) ==
    /\ pc[t] = "insert"
    /\ \A x \in Candidates(carried[t].key) : table[x] # Nil
    /\ depth[t] <= MaxDepth
    /\ s \in Candidates(carried[t].key) \ {from[t]}
    /\ table' = [table EXCEPT ![s] = carried[t]]
    /\ carried' = [carried EXCEPT ![t] = table[s]]
    /\ from' = [from EXCEPT ![t] = s]
    /\ depth' = [depth EXCEPT ![t] = @ + 1]
    /\ UNCHANGED <<gen, writer, pc, job, result, unread, calls, retained>>

(* Mutant: the depth counter of the kick loop is never advanced. *)
KickUncounted(t, s) ==
    /\ pc[t] = "insert"
    /\ \A x \in Candidates(carried[t].key) : table[x] # Nil
    /\ depth[t] < MaxDepth
    /\ s \in Candidates(carried[t].key) \ {from[t]}
    /\ table' = [table EXCEPT ![s] = carried[t]]
    /\ carried' = [carried EXCEPT ![t] = table[s]]
    /\ from' = [from EXCEPT ![t] = s]
    /\ UNCHANGED <<gen, writer, pc, job, result, unread, depth, calls, retained>>

(***************************************************************************)
(* Every candidate slot is full and the depth limit is not reached: put   *)
(* the entry in hand into a candidate slot other than the one it was      *)
(* kicked out of, and take that slot's occupant, with its generation, in  *)
(* hand, to be moved to one of its own candidate slots.                  *)
(***************************************************************************)
Kick(t, s) ==
    /\ pc[t] = "insert"
    /\ \A x \in Candidates(carried[t].key) : table[x] # Nil
    /\ depth[t] < MaxDepth
    /\ s \in Candidates(carried[t].key) \ {from[t]}
    /\ table' = [table EXCEPT ![s] = carried[t]]
    /\ carried' = [carried EXCEPT ![t] = table[s]]
    /\ from' = [from EXCEPT ![t] = s]
    /\ depth' = [depth EXCEPT ![t] = @ + 1]
    /\ UNCHANGED <<gen, writer, pc, job, result, unread, calls, retained>>

(* The depth limit is used up: the entry in hand is dropped (insert is    *)
(* advisory).                                                              *)
Drop(t) ==
    /\ pc[t] = "insert"
    /\ \A x \in Candidates(carried[t].key) : table[x] # Nil
    /\ depth[t] = MaxDepth
    /\ retained' = retained \ {carried[t].key}
    /\ InsertDone(t)
    /\ UNCHANGED <<table, gen, job, unread, from, depth, calls>>

-----------------------------------------------------------------------------
(* The caller's policy advances the generation; later inserts are tagged  *)
(* with the new one.                                                       *)
AdvanceGeneration ==
    /\ gen < MaxGen
    /\ gen' = gen + 1
    /\ UNCHANGED <<table, writer, pc, job, result, unread, carried, from,
                   depth, calls, retained>>

(***************************************************************************)
(* The maintenance pass, in the writers' section: the entries of the      *)
(* oldest generation still present, if it is not the current one, are    *)
(* swept out.                                                              *)
(***************************************************************************)
Sweep ==
    LET used   == {s \in Slots : table[s] # Nil}
        oldest == CHOOSE g \in {table[s].gen : s \in used} :
                      \A s \in used : g <= table[s].gen
        swept  == {s \in used : table[s].gen = oldest}
    IN
    /\ writer = Nobody
    /\ used # {}
    /\ oldest < gen
    /\ table' = [s \in Slots |-> IF s \in swept THEN Nil ELSE table[s]]
    /\ retained' = retained \ {table[s].key : s \in swept}
    /\ UNCHANGED <<gen, writer, pc, job, result, unread, carried, from,
                   depth, calls>>

(* initialize/resize: configuration time only, while no call runs; all    *)
(* entries are discarded.                                                  *)
Initialize ==
    /\ \A t \in Threads : pc[t] = "idle"
    /\ table' = [s \in Slots |-> Nil]
    /\ gen' = 0
    /\ retained' = {}
    /\ UNCHANGED <<writer, pc, job, result, unread, carried, from, depth, calls>>

(* The steps of thread t that need no lock. *)
Step(t) ==
    \/ \E s \in Slots : Probe(t, s) \/ Place(t, s) \/ Kick(t, s)
    \/ Crypto(t)
    \/ Drop(t)

Next ==
    \/ \E t \in Threads :
          \/ \E j \in Jobs : Call(t, j)
          \/ Step(t)
          \/ Acquire(t)
    \/ AdvanceGeneration
    \/ Sweep
    \/ Initialize

(***************************************************************************)
(* A worker thread has no suspension point (spec.md 5): a step it can     *)
(* take, it takes.  Entering the writers' section is only possible while  *)
(* no other writer is in it, and every writer leaves it within MaxDepth  *)
(* steps; the section is taken to be granted to a thread that keeps      *)
(* asking (strong fairness).  Callers, the generation policy, the sweep   *)
(* and resizing are not required to happen.                               *)
(***************************************************************************)
Fairness ==
    \A t \in Threads : WF_vars(Step(t)) /\ SF_vars(Acquire(t))

Spec == Init /\ [][Next]_vars /\ Fairness

-----------------------------------------------------------------------------
(***************************************************************************)
(* Cache transparency (spec.md 8): every call, with lookups racing        *)
(* concurrent inserts, sweeps and resizes, returns what the engine        *)
(* without a cache would return for the same input.                      *)
(***************************************************************************)
CallsTransparent ==
    \A t \in Threads : pc[t] = "idle" /\ job[t] # NoJob => result[t] = Reference(job[t])

(***************************************************************************)
(* Presence-set soundness (spec.md 8): a key stays in the set from its    *)
(* insert until an insert drops it at the depth limit, a sweep or a       *)
(* resize removes it.  While a kick chain moves it, it is the entry in    *)
(* the writer's hand.                                                      *)
(***************************************************************************)
RetainedPresent ==
    retained \subseteq TableKeys \cup {carried[t].key : t \in {x \in Threads : carried[x] # Nil}}

(***************************************************************************)
(* Every verify call returns (spec.md 5): the kick chain of an insert is  *)
(* bounded, so a thread in the writers' section always leaves it.         *)
(***************************************************************************)
CallsReturn == \A t \in Threads : pc[t] # "idle" ~> pc[t] = "idle"
====
