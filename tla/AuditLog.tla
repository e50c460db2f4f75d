------------------------------ MODULE AuditLog ------------------------------
(***************************************************************************)
(* The audit_log table, its hash-chain trigger and its verifier            *)
(* (db/migrations/0001_audit_hardening.sql), driven by the database        *)
(* sessions in which appendAudit (server/domain/audit/writer.ts) runs its  *)
(* INSERT.  Every INSERT is a transaction of its own, so two requests that *)
(* audit at the same time interleave between                               *)
(*   nextval (the default of the bigserial id, evaluated first),           *)
(*   the advisory lock taken by the BEFORE INSERT trigger,                 *)
(*   the trigger's SELECT of the newest hash, and the commit.              *)
(* A session can be lost at any of these points; its transaction is then   *)
(* rolled back and the id it drew stays unused.                            *)
(***************************************************************************)
EXTENDS HashChain, SequencesExt

CONSTANTS Writers,      \* database sessions that append audit rows
          Payloads,     \* canonical payload texts
          NoWriter,     \* nobody holds the advisory lock
          MaxId         \* bound: ids the sequence hands out in a behaviour

ASSUME WritersAssumption == NoWriter \notin Writers
ASSUME MaxIdAssumption == MaxId \in Nat

VARIABLES
  seq,       \* last value drawn from audit_log_id_seq
  rows,      \* committed rows, by id
  commits,   \* ids in the order their transactions committed (history)
  lock,      \* holder of pg_advisory_xact_lock
  pc,        \* where each session is in its INSERT
  draft      \* the row each session is inserting

vars == <<seq, rows, commits, lock, pc, draft>>

Stages == {"idle", "waiting", "locked", "chained"}

\* The hash of the row with the highest id among ids (ORDER BY id DESC LIMIT 1).
TipOf(table, ids) == IF ids = {} THEN Genesis ELSE table[Max(ids)].hash

Ids == DOMAIN rows
Below(i) == {j \in Ids : j < i}

NoDraft == [id |-> 0, payload |-> Genesis, prev |-> Genesis]

-----------------------------------------------------------------------------
Init ==
  /\ seq = 0
  /\ rows = [i \in {} |-> Genesis]
  /\ commits = <<>>
  /\ lock = NoWriter
  /\ pc = [w \in Writers |-> "idle"]
  /\ draft = [w \in Writers |-> NoDraft]

\* Mutation: the INSERT names the id, the newest row's plus one, instead of leaving it
\* to the sequence, which then stays behind the table.
DrawNewestPlusOne(w, p) ==
  /\ pc[w] = "idle"
  /\ seq < MaxId
  /\ pc' = [pc EXCEPT ![w] = "waiting"]
  /\ draft' = [draft EXCEPT ![w] = [id |-> Max(Ids \cup {0}) + 1, payload |-> p, prev |-> Genesis]]
  /\ UNCHANGED <<seq, rows, commits, lock>>

\* INSERT begins: the id default is evaluated before the row trigger runs.
DrawId(w, p) ==
  /\ pc[w] = "idle"
  /\ seq < MaxId
  /\ seq' = seq + 1
  /\ pc' = [pc EXCEPT ![w] = "waiting"]
  /\ draft' = [draft EXCEPT ![w] = [id |-> seq + 1, payload |-> p, prev |-> Genesis]]
  /\ UNCHANGED <<rows, commits, lock>>

\* Mutation: the trigger does not serialize.
TakeLockUnserialized(w) ==
  /\ pc[w] = "waiting"
  /\ lock' = w
  /\ pc' = [pc EXCEPT ![w] = "locked"]
  /\ UNCHANGED <<seq, rows, commits, draft>>

\* PERFORM pg_advisory_xact_lock(...)
TakeLock(w) ==
  /\ pc[w] = "waiting"
  /\ lock = NoWriter
  /\ lock' = w
  /\ pc' = [pc EXCEPT ![w] = "locked"]
  /\ UNCHANGED <<seq, rows, commits, draft>>

\* Mutation: the oldest row's hash instead of the newest.
ReadOldest(w) ==
  /\ pc[w] = "locked"
  /\ pc' = [pc EXCEPT ![w] = "chained"]
  /\ draft' = [draft EXCEPT ![w].prev = IF Ids = {} THEN Genesis ELSE rows[Min(Ids)].hash]
  /\ UNCHANGED <<seq, rows, commits, lock>>

\* SELECT a.hash INTO prev ... : a fresh READ COMMITTED snapshot, read under the
\* lock; NEW.prev_hash and NEW.hash are computed from it.
ReadTip(w) ==
  /\ pc[w] = "locked"
  /\ pc' = [pc EXCEPT ![w] = "chained"]
  /\ draft' = [draft EXCEPT ![w].prev = TipOf(rows, Ids)]
  /\ UNCHANGED <<seq, rows, commits, lock>>

DraftRow(w) == LinkedRow(draft[w].prev, draft[w].payload)

\* hash is UNIQUE in the table.
HashTaken(h) == \E i \in Ids : rows[i].hash = h

\* Mutation: a session-level lock, which a rollback keeps.
RollbackKeepingLock(w) ==
  /\ pc[w] # "idle"
  /\ pc' = [pc EXCEPT ![w] = "idle"]
  /\ UNCHANGED <<seq, rows, commits, lock, draft>>

\* The transaction ends without its row; a lock it holds is released with it.
Rollback(w) ==
  /\ pc[w] # "idle"
  /\ pc' = [pc EXCEPT ![w] = "idle"]
  /\ lock' = IF lock = w THEN NoWriter ELSE lock
  /\ UNCHANGED <<seq, rows, commits, draft>>

\* The row becomes visible, then the transaction's lock is released.
Commit(w) ==
  /\ pc[w] = "chained"
  /\ ~HashTaken(DraftRow(w).hash)
  /\ rows' = [i \in Ids \cup {draft[w].id} |->
                IF i = draft[w].id THEN DraftRow(w) ELSE rows[i]]
  /\ commits' = Append(commits, draft[w].id)
  /\ lock' = NoWriter
  /\ pc' = [pc EXCEPT ![w] = "idle"]
  /\ UNCHANGED <<seq, draft>>

\* The UNIQUE index refuses the row: the statement fails and appendAudit throws.
DuplicateHash(w) ==
  /\ pc[w] = "chained"
  /\ HashTaken(DraftRow(w).hash)
  /\ Rollback(w)

Next ==
  \E w \in Writers :
    \/ \E p \in Payloads : DrawId(w, p)
    \/ TakeLock(w)
    \/ ReadTip(w)
    \/ Commit(w)
    \/ DuplicateHash(w)
    \/ Rollback(w)

Spec == Init /\ [][Next]_vars

\* The server works on every statement it has started; advisory-lock waiters are
\* queued, so a waiter is not passed over for ever.
Fairness ==
  \A w \in Writers :
    /\ SF_vars(TakeLock(w))
    /\ WF_vars(ReadTip(w))
    /\ WF_vars(Commit(w) \/ DuplicateHash(w))

FairSpec == Spec /\ Fairness

-----------------------------------------------------------------------------
\* verify_audit_chain(): walk the rows by ascending id, expecting each row to
\* link to the one before it and to hash to what it stores.
RowVerifies(i) ==
  /\ rows[i].prev = TipOf(rows, Below(i))
  /\ rows[i].hash = Hash(rows[i].prev, rows[i].payload)

ChainIntact == \A i \in Ids : RowVerifies(i)

\* broken_at, the first id that fails to verify (0 stands for NULL).
BrokenAt ==
  IF ChainIntact THEN 0
  ELSE CHOOSE i \in Ids : ~RowVerifies(i) /\ \A j \in Below(i) : RowVerifies(j)

\* The rows as the viewer lists them, by ascending id: the k-th has k - 1 below it.
SortedIds == [k \in 1..Cardinality(Ids) |-> CHOOSE i \in Ids : Cardinality(Below(i)) = k - 1]
Chronicle == [k \in 1..Len(SortedIds) |-> rows[SortedIds[k]]]

-----------------------------------------------------------------------------
\* Type invariant.
TypeOK ==
  /\ seq \in 0..MaxId
  /\ Ids \subseteq 1..seq
  /\ commits \in Seq(Ids)
  /\ lock \in Writers \cup {NoWriter}
  /\ pc \in [Writers -> Stages]
  /\ DOMAIN draft = Writers
  /\ \A w \in Writers : draft[w].id \in 0..seq

\* The ids were committed in the order the sequence handed them out.
CommittedInIdOrder ==
  \A k, l \in 1..Len(commits) : k < l => commits[k] < commits[l]

\* Whatever the interleaving and whatever transactions are lost, a row is chained
\* to the row that had the highest id when it was committed, so no committed row
\* is ever left out of the newest hash by a stale read in the trigger.
LinkedToNewest ==
  \A k \in 1..Len(commits) :
    rows[commits[k]].prev = TipOf(rows, {commits[l] : l \in 1..(k - 1)})

\* The inductive invariant behind LinkedToNewest and VerifierExact.
LockHeld == \A w \in Writers : pc[w] \in {"locked", "chained"} <=> lock = w
DraftIdsFresh ==
  \A w \in Writers : pc[w] # "idle" =>
    /\ draft[w].id \in 1..seq
    /\ draft[w].id \notin Ids
    /\ \A v \in Writers : v # w /\ pc[v] # "idle" => draft[v].id # draft[w].id
DraftChained == \A w \in Writers : pc[w] = "chained" => draft[w].prev = TipOf(rows, Ids)
CommitsListIds ==
  /\ Ids = {commits[k] : k \in 1..Len(commits)}
  /\ \A k, l \in 1..Len(commits) : commits[k] = commits[l] => k = l
RowsSealed == \A i \in Ids : rows[i].hash = Hash(rows[i].prev, rows[i].payload)
HashesUnique == \A i, j \in Ids : rows[i].hash = rows[j].hash => i = j

IInv ==
  /\ TypeOK
  /\ LockHeld
  /\ DraftIdsFresh
  /\ DraftChained
  /\ CommitsListIds
  /\ RowsSealed
  /\ HashesUnique
  /\ LinkedToNewest

\* The verifier's answer means exactly this: it reports a break if and only if
\* some row was committed after a row with a higher id.  Nothing else that
\* concurrent writers, lost sessions or refused rows do makes it report one.
VerifierExact == ChainIntact <=> CommittedInIdOrder

\* verify_audit_chain in SQL and verifyChain in TypeScript find the same break; and an
\* intact log stops verifying when the payload of any row is altered, or when any row
\* other than the last is removed (the promise of the verifiers).
TamperEvident ==
  LET Altered(k, p) == [Chronicle EXCEPT ![k].payload = p]
      b == BrokenIndex(Chronicle)
  IN /\ BrokenAt = IF b = 0 THEN 0 ELSE SortedIds[b]
     /\ b = 0 =>
          \A k \in 1..Len(Chronicle) :
            /\ \A p \in Payloads \ {Chronicle[k].payload} : BrokenIndex(Altered(k, p)) = k
            /\ k < Len(Chronicle) => BrokenIndex(RemoveAt(Chronicle, k)) = k

\* The comment on the trigger's lock: "Serialize all audit inserts so the chain
\* cannot fork under concurrency" -- no two rows link to the same predecessor.
NoFork == \A i, j \in Ids : rows[i].prev = rows[j].prev => i = j

\* Every INSERT that has drawn its id ends: no session waits for the advisory lock
\* for ever, also when sessions are lost while they hold it.
InsertEnds == \A w \in Writers : pc[w] # "idle" ~> pc[w] = "idle"

\* The rows committed before the first one whose id is below that of an earlier commit.
InOrder(k) == \A l \in 2..k : commits[l - 1] < commits[l]
OrderedLength == Cardinality({k \in 1..Len(commits) : InOrder(k)})

\* The abstract chain: these rows, in commit order.
Chain == INSTANCE AuditChain WITH log <- [k \in 1..OrderedLength |-> rows[commits[k]]]

\* For as long as commits follow the ids the table is the abstract append-only chain,
\* whatever sessions race or are lost.
ImplementsChain == Chain!Spec
=============================================================================
