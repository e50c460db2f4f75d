--------------------------- MODULE AuditLogProofs ---------------------------
(***************************************************************************)
(* For any number of sessions, payloads and ids: the audit log's types,    *)
(* its inductive invariant, that every row is chained to the newest row    *)
(* committed before it, and what exactly the verifier's answer means.      *)
(***************************************************************************)
EXTENDS AuditLog, WellFoundedInduction, FiniteSetTheorems, SequenceTheorems, TLAPS

\* A non-empty set of naturals has a least element.
LEMMA NatMin ==
  ASSUME NEW S, S \subseteq Nat, S # {}
  PROVE  \E m \in S : \A i \in S : m <= i
<1>1. PICK x \in S : \A y \in S : ~ (<<y, x>> \in OpToRel(<, Nat))
  BY NatLessThanWellFounded, WFMin
<1>2. ASSUME NEW y \in S PROVE x <= y
  <2>1. x \in Nat /\ y \in Nat
    OBVIOUS
  <2>2. <<y, x>> \in Nat \X Nat
    BY <2>1
  <2>3. ~ (y < x)
    BY <1>1, <2>2 DEF OpToRel
  <2>. QED  BY <2>1, <2>3
<1>. QED  BY <1>2

\* A non-empty set of ids up to n has a greatest element.
LEMMA NatMax ==
  ASSUME NEW n \in Nat, NEW S, S \subseteq 1..n, S # {}
  PROVE  \E m \in S : \A i \in S : i <= m
<1>. DEFINE T == {n - i : i \in S}
<1>1. T \subseteq Nat
  OBVIOUS
<1>2. T # {}
  OBVIOUS
<1>3. PICK t \in T : \A u \in T : t <= u
  BY <1>1, <1>2, NatMin
<1>4. PICK m \in S : t = n - m
  OBVIOUS
<1>5. \A i \in S : i <= m
  <2>. TAKE i \in S
  <2>1. n - i \in T
    OBVIOUS
  <2>. QED  BY <2>1, <1>3, <1>4
<1>. QED  BY <1>5

\* Max of such a set is that element: the row "ORDER BY id DESC LIMIT 1" selects.
LEMMA MaxOf ==
  ASSUME NEW n \in Nat, NEW ids, ids \subseteq 1..n, ids # {}
  PROVE  Max(ids) \in ids /\ \A i \in ids : i <= Max(ids)
<1>1. \E m \in ids : \A i \in ids : m >= i
  BY NatMax
<1>. QED  BY <1>1 DEF Max

\* The empty log satisfies the inductive invariant.
LEMMA InitIInv == Init => IInv
<1>. SUFFICES ASSUME Init PROVE IInv
  OBVIOUS
<1>. USE DEF Init
<1>1. TypeOK
  BY MaxIdAssumption DEF TypeOK, Ids, Stages, NoDraft
<1>2. LockHeld /\ DraftIdsFresh /\ DraftChained
  BY WritersAssumption DEF LockHeld, DraftIdsFresh, DraftChained
<1>3. CommitsListIds /\ RowsSealed /\ HashesUnique /\ LinkedToNewest
  BY DEF CommitsListIds, RowsSealed, HashesUnique, LinkedToNewest, Ids
<1>. QED  BY <1>1, <1>2, <1>3 DEF IInv

\* What a commit does to the rows.
LEMMA CommitInserts ==
  ASSUME IInv, NEW w \in Writers, Commit(w)
  PROVE  /\ lock = w /\ draft[w].id \in 1..seq /\ draft[w].id \notin Ids
         /\ Ids' = Ids \cup {draft[w].id}
         /\ rows'[draft[w].id] = DraftRow(w)
         /\ \A i \in Ids : rows'[i] = rows[i]
<1>1. lock = w /\ draft[w].id \in 1..seq /\ draft[w].id \notin Ids
  BY DEF IInv, LockHeld, DraftIdsFresh, Commit
<1>2. Ids' = Ids \cup {draft[w].id}
  BY DEF Commit, Ids
<1>. QED  BY <1>1, <1>2 DEF Commit

\* No step of a session leaves the types, whatever transaction is lost.
LEMMA TypeOKStep == IInv /\ [Next]_vars => TypeOK'
<1>. SUFFICES ASSUME IInv, [Next]_vars PROVE TypeOK'
  OBVIOUS
<1>. USE DEF TypeOK, Stages
<1>1. ASSUME NEW w \in Writers, NEW p \in Payloads, DrawId(w, p) PROVE TypeOK'
  <2>1. seq \in Nat /\ seq' = seq + 1 /\ seq' \in 0..MaxId
    BY <1>1, MaxIdAssumption DEF IInv, DrawId
  <2>2. Ids' = Ids /\ commits' = commits /\ lock' = lock
    BY <1>1 DEF DrawId, Ids
  <2>3. pc' \in [Writers -> Stages]
    BY <1>1 DEF IInv, DrawId
  <2>4. DOMAIN draft' = Writers /\ \A v \in Writers : draft'[v].id \in 0..seq'
    BY <1>1, <2>1 DEF IInv, DrawId
  <2>. QED  BY <2>1, <2>2, <2>3, <2>4 DEF IInv
<1>2. ASSUME NEW w \in Writers, TakeLock(w) PROVE TypeOK'
  BY <1>2 DEF IInv, TakeLock, Ids
<1>3. ASSUME NEW w \in Writers, ReadTip(w) PROVE TypeOK'
  BY <1>3 DEF IInv, ReadTip, Ids
<1>4. ASSUME NEW w \in Writers, Commit(w) PROVE TypeOK'
  <2>1. Ids' = Ids \cup {draft[w].id} /\ draft[w].id \in 1..seq /\ seq' = seq
    BY <1>4, CommitInserts DEF Commit
  <2>2. commits' \in Seq(Ids')
    BY <1>4, <2>1 DEF IInv, Commit
  <2>. QED  BY <1>4, <2>1, <2>2 DEF IInv, Commit
<1>5. ASSUME NEW w \in Writers, Rollback(w) PROVE TypeOK'
  BY <1>5 DEF IInv, Rollback, Ids
<1>6. CASE UNCHANGED vars
  BY <1>6 DEF IInv, vars, Ids
<1>. QED  BY <1>1, <1>2, <1>3, <1>4, <1>5, <1>6 DEF Next, DuplicateHash

\* The lock and the ids in use: only its holder is past the lock, and an id drawn
\* from the sequence belongs to one session until it is committed or dropped.
LEMMA LockStep == IInv /\ [Next]_vars => LockHeld'
<1>. SUFFICES ASSUME IInv, [Next]_vars PROVE LockHeld'
  OBVIOUS
<1>. USE WritersAssumption DEF LockHeld
<1>0. pc \in [Writers -> Stages]
  BY DEF IInv, TypeOK
<1>1. ASSUME NEW w \in Writers, NEW p \in Payloads, DrawId(w, p) PROVE LockHeld'
  BY <1>0, <1>1 DEF IInv, DrawId
<1>2. ASSUME NEW w \in Writers, TakeLock(w) PROVE LockHeld'
  BY <1>0, <1>2 DEF IInv, TakeLock
<1>3. ASSUME NEW w \in Writers, ReadTip(w) PROVE LockHeld'
  BY <1>0, <1>3 DEF IInv, ReadTip
<1>4. ASSUME NEW w \in Writers, Commit(w) PROVE LockHeld'
  BY <1>0, <1>4 DEF IInv, Commit
<1>5. ASSUME NEW w \in Writers, Rollback(w) PROVE LockHeld'
  BY <1>0, <1>5 DEF IInv, Rollback
<1>6. CASE UNCHANGED vars
  BY <1>6 DEF IInv, vars
<1>. QED  BY <1>1, <1>2, <1>3, <1>4, <1>5, <1>6 DEF Next, DuplicateHash

\* Ids come from the sequence once: no two sessions, and no session and a committed
\* row, ever share one.
LEMMA DraftIdsStep == IInv /\ [Next]_vars => DraftIdsFresh'
<1>. SUFFICES ASSUME IInv, [Next]_vars PROVE DraftIdsFresh'
  OBVIOUS
<1>. USE DEF DraftIdsFresh
<1>0. /\ pc \in [Writers -> Stages] /\ DOMAIN draft = Writers
      /\ seq \in Nat /\ Ids \subseteq 1..seq
  BY MaxIdAssumption DEF IInv, TypeOK
<1>1. ASSUME NEW w \in Writers, NEW p \in Payloads, DrawId(w, p) PROVE DraftIdsFresh'
  <2>1. seq' = seq + 1 /\ Ids' = Ids /\ draft'[w].id = seq + 1
    BY <1>0, <1>1 DEF DrawId, Ids
  <2>2. \A v \in Writers : v # w => draft'[v] = draft[v] /\ pc'[v] = pc[v]
    BY <1>0, <1>1 DEF DrawId
  <2>3. \A v \in Writers : v # w /\ pc[v] # "idle" => draft[v].id \in 1..seq
    BY DEF IInv
  <2>4. seq + 1 \in 1..seq' /\ seq + 1 \notin Ids' /\ 1..seq \subseteq 1..seq' /\ seq + 1 \notin 1..seq
    BY <1>0, <2>1
  <2>5. \A v \in Writers : v # w /\ pc'[v] # "idle" =>
          /\ draft'[v].id \in 1..seq' /\ draft'[v].id \notin Ids'
          /\ \A u \in Writers : u # v /\ pc'[u] # "idle" => draft'[u].id # draft'[v].id
    BY <2>1, <2>2, <2>3, <2>4 DEF IInv
  <2>. QED  BY <2>1, <2>2, <2>3, <2>4, <2>5
<1>2. ASSUME NEW w \in Writers, TakeLock(w) PROVE DraftIdsFresh'
  BY <1>0, <1>2 DEF IInv, TakeLock, Ids
<1>3. ASSUME NEW w \in Writers, ReadTip(w) PROVE DraftIdsFresh'
  <2>1. \A v \in Writers : draft'[v].id = draft[v].id /\ (pc'[v] # "idle" <=> pc[v] # "idle")
    BY <1>0, <1>3 DEF ReadTip
  <2>. QED  BY <1>3, <2>1 DEF IInv, ReadTip, Ids
<1>4. ASSUME NEW w \in Writers, Commit(w) PROVE DraftIdsFresh'
  <2>1. Ids' = Ids \cup {draft[w].id} /\ seq' = seq /\ draft' = draft
    BY <1>4, CommitInserts DEF Commit
  <2>2. pc'[w] = "idle" /\ pc[w] # "idle" /\ \A v \in Writers : v # w => pc'[v] = pc[v]
    BY <1>0, <1>4 DEF Commit
  <2>. QED  BY <2>1, <2>2 DEF IInv
<1>5. ASSUME NEW w \in Writers, Rollback(w) PROVE DraftIdsFresh'
  BY <1>0, <1>5 DEF IInv, Rollback, Ids
<1>6. CASE UNCHANGED vars
  BY <1>6 DEF IInv, vars, Ids
<1>. QED  BY <1>1, <1>2, <1>3, <1>4, <1>5, <1>6 DEF Next, DuplicateHash

\* What the trigger read is still the newest hash when its row is committed.
LEMMA DraftChainedStep == IInv /\ [Next]_vars => DraftChained'
<1>. SUFFICES ASSUME IInv, [Next]_vars PROVE DraftChained'
  OBVIOUS
<1>. USE DEF DraftChained
<1>0. pc \in [Writers -> Stages] /\ DOMAIN draft = Writers
  BY DEF IInv, TypeOK
<1>1. ASSUME NEW w \in Writers, NEW p \in Payloads, DrawId(w, p) PROVE DraftChained'
  BY <1>0, <1>1 DEF IInv, DrawId, Ids
<1>2. ASSUME NEW w \in Writers, TakeLock(w) PROVE DraftChained'
  BY <1>0, <1>2 DEF IInv, TakeLock, Ids
<1>3. ASSUME NEW w \in Writers, ReadTip(w) PROVE DraftChained'
  <2>1. draft'[w].prev = TipOf(rows, Ids)
    BY <1>0, <1>3 DEF ReadTip
  <2>2. \A v \in Writers : v # w => draft'[v] = draft[v] /\ pc'[v] = pc[v]
    BY <1>0, <1>3 DEF ReadTip
  <2>3. rows' = rows /\ Ids' = Ids
    BY <1>3 DEF ReadTip, Ids
  <2>. QED  BY <2>1, <2>2, <2>3 DEF IInv
<1>4. ASSUME NEW w \in Writers, Commit(w) PROVE DraftChained'
  <2>1. \A v \in Writers : pc'[v] # "chained"
    BY <1>0, <1>4, CommitInserts DEF Commit, IInv, LockHeld
  <2>. QED  BY <2>1
<1>5. ASSUME NEW w \in Writers, Rollback(w) PROVE DraftChained'
  BY <1>0, <1>5 DEF IInv, Rollback, Ids
<1>6. CASE UNCHANGED vars
  BY <1>6 DEF IInv, vars, Ids
<1>. QED  BY <1>1, <1>2, <1>3, <1>4, <1>5, <1>6 DEF Next, DuplicateHash

\* What holds of the committed rows can only be disturbed by a commit.
LEMMA RowsStep ==
  IInv /\ [Next]_vars =>
    (CommitsListIds /\ RowsSealed /\ HashesUnique /\ LinkedToNewest)'
<1>. SUFFICES ASSUME IInv, [Next]_vars
              PROVE  (CommitsListIds /\ RowsSealed /\ HashesUnique /\ LinkedToNewest)'
  OBVIOUS
<1>1. CASE rows' = rows /\ commits' = commits
  BY <1>1 DEF IInv, CommitsListIds, RowsSealed, HashesUnique, LinkedToNewest, Ids
<1>2. ASSUME NEW w \in Writers, Commit(w)
      PROVE  (CommitsListIds /\ RowsSealed /\ HashesUnique /\ LinkedToNewest)'
  <2>. DEFINE new == draft[w].id
              n == Len(commits)
  <2>1. /\ new \in 1..seq /\ new \notin Ids /\ Ids' = Ids \cup {new}
        /\ rows'[new] = DraftRow(w) /\ \A i \in Ids : rows'[i] = rows[i]
    BY <1>2, CommitInserts
  <2>2. commits \in Seq(Ids) /\ n \in Nat /\ commits' = Append(commits, new)
    BY <1>2 DEF IInv, TypeOK, Commit
  <2>3. /\ Len(commits') = n + 1 /\ commits'[n + 1] = new
        /\ \A k \in 1..n : commits'[k] = commits[k] /\ commits[k] \in Ids
    BY <2>2
  <2>4. CommitsListIds'
    <3>1. {commits'[k] : k \in 1..Len(commits')} = {commits[k] : k \in 1..n} \cup {new}
      BY <2>2, <2>3
    <3>2. \A k, l \in 1..Len(commits') : commits'[k] = commits'[l] => k = l
      BY <2>1, <2>2, <2>3 DEF IInv, CommitsListIds
    <3>. QED  BY <2>1, <3>1, <3>2 DEF IInv, CommitsListIds
  <2>5. RowsSealed'
    BY <2>1 DEF IInv, RowsSealed, DraftRow, LinkedRow
  <2>6. HashesUnique'
    BY <1>2, <2>1 DEF IInv, HashesUnique, Commit, HashTaken
  <2>7. LinkedToNewest'
    <3>1. Ids \subseteq 1..seq /\ seq \in Nat
      BY MaxIdAssumption DEF IInv, TypeOK
    <3>0. ASSUME NEW ids, ids \subseteq Ids
          PROVE  TipOf(rows', ids) = TipOf(rows, ids)
      <4>1. ids \subseteq 1..seq
        BY <3>0, <3>1
      <4>2. \A i \in ids : rows'[i] = rows[i]
        BY <3>0, <2>1
      <4>3. ids # {} => Max(ids) \in ids
        BY <3>1, <4>1, MaxOf
      <4>. QED  BY <4>2, <4>3 DEF TipOf
    <3>2. ASSUME NEW k \in 1..n
          PROVE  rows'[commits'[k]].prev = TipOf(rows', {commits'[l] : l \in 1..(k - 1)})
      <4>. DEFINE older == {commits[l] : l \in 1..(k - 1)}
      <4>1. older \subseteq Ids /\ {commits'[l] : l \in 1..(k - 1)} = older
        BY <2>2, <2>3
      <4>2. TipOf(rows', older) = TipOf(rows, older)
        BY <4>1, <3>0
      <4>3. rows[commits[k]].prev = TipOf(rows, older)
        BY <2>2 DEF IInv, LinkedToNewest
      <4>. QED  BY <4>1, <4>2, <4>3, <2>1, <2>3
    <3>3. rows'[commits'[n + 1]].prev = TipOf(rows', {commits'[l] : l \in 1..((n + 1) - 1)})
      <4>1. {commits'[l] : l \in 1..((n + 1) - 1)} = Ids
        BY <2>2, <2>3 DEF IInv, CommitsListIds
      <4>2. TipOf(rows', Ids) = TipOf(rows, Ids)
        BY <3>0
      <4>3. DraftRow(w).prev = TipOf(rows, Ids)
        BY <1>2 DEF IInv, DraftChained, Commit, DraftRow, LinkedRow
      <4>. QED  BY <4>1, <4>2, <4>3, <2>1, <2>3
    <3>4. \A k \in 1..Len(commits') : k \in 1..n \/ k = n + 1
      BY <2>2, <2>3
    <3>. QED  BY <3>2, <3>3, <3>4 DEF LinkedToNewest
  <2>. QED  BY <2>4, <2>5, <2>6, <2>7
<1>3. CASE UNCHANGED vars
  BY <1>3, <1>1 DEF vars
<1>. QED  BY <1>1, <1>2, <1>3 DEF Next, DrawId, TakeLock, ReadTip, Rollback, DuplicateHash

-----------------------------------------------------------------------------
\* Type correctness of the audit log for any sessions, payloads and bound.
THEOREM TypeCorrect == Spec => []TypeOK
<1>1. Init => IInv
  BY InitIInv
<1>2. IInv /\ [Next]_vars => IInv'
  BY TypeOKStep, LockStep, DraftIdsStep, DraftChainedStep, RowsStep DEF IInv
<1>3. IInv => TypeOK
  BY DEF IInv
<1>. QED  BY <1>1, <1>2, <1>3, PTL DEF Spec

\* The inductive invariant holds in every reachable state of the audit log: the trigger's
\* lock, the freshness of ids, and the sealing and uniqueness of hashes.
THEOREM Invariance == Spec => []IInv
<1>1. Init => IInv
  BY InitIInv
<1>2. IInv /\ [Next]_vars => IInv'
  BY TypeOKStep, LockStep, DraftIdsStep, DraftChainedStep, RowsStep DEF IInv
<1>. QED  BY <1>1, <1>2, PTL DEF Spec

\* However many sessions append at once, a committed row is chained to the row that
\* had the highest id when it was committed: the trigger's read is never stale.
THEOREM ChainedToNewest == Spec => []LinkedToNewest
<1>1. IInv => LinkedToNewest
  BY DEF IInv
<1>. QED  BY <1>1, Invariance, PTL

-----------------------------------------------------------------------------
(* What the verifier's answer means *)

\* No row hashes to GENESIS: the root of the chain is nobody's hash.
LEMMA GenesisIsNoHash ==
  ASSUME NEW prev, NEW p
  PROVE  Hash(prev, p) # Genesis
<1>1. Len(<<prev, p>>) = 2 /\ Len(<<>>) = 0
  OBVIOUS
<1>. QED  BY <1>1 DEF Hash, Genesis

\* Rows committed in id order verify.
LEMMA OrderedVerifies == IInv /\ CommittedInIdOrder => ChainIntact
<1>. SUFFICES ASSUME IInv, CommittedInIdOrder, NEW i \in Ids PROVE RowVerifies(i)
  BY DEF ChainIntact
<1>0. /\ commits \in Seq(Ids) /\ Ids \subseteq 1..seq
      /\ Ids = {commits[k] : k \in 1..Len(commits)}
  BY DEF IInv, TypeOK, CommitsListIds
<1>a. Len(commits) \in Nat
  BY <1>0
<1>1. PICK k \in 1..Len(commits) : i = commits[k]
  BY <1>0
<1>2. Below(i) = {commits[l] : l \in 1..(k - 1)}
  <2>1. ASSUME NEW l \in 1..(k - 1) PROVE commits[l] \in Below(i)
    <3>1. l \in 1..Len(commits) /\ l < k
      BY <1>a
    <3>. QED  BY <1>0, <1>1, <3>1 DEF CommittedInIdOrder, Below
  <2>2. ASSUME NEW j \in Below(i) PROVE \E l \in 1..(k - 1) : j = commits[l]
    <3>1. j \in Ids /\ j < i
      BY DEF Below
    <3>2. PICK l \in 1..Len(commits) : j = commits[l]
      BY <1>0, <3>1
    <3>3. i \in 1..seq /\ j \in 1..seq
      BY <3>1, <1>0
    <3>4. k < l => i < j
      BY <1>1, <3>2 DEF CommittedInIdOrder
    <3>5. k = l => i = j
      BY <1>1, <3>2
    <3>6. ~ (i < j) /\ i # j
      BY <3>1, <3>3
    <3>7. l \in 1..(k - 1)
      BY <3>4, <3>5, <3>6, <1>a
    <3>. QED  BY <3>2, <3>7
  <2>. QED  BY <2>1, <2>2
<1>3. rows[i].prev = TipOf(rows, Below(i))
  BY <1>1, <1>2 DEF IInv, LinkedToNewest
<1>. QED  BY <1>3 DEF RowVerifies, IInv, RowsSealed

\* A row committed after a row with a higher id makes the verifier report a break.
LEMMA VerifiedIsOrdered == IInv /\ ChainIntact => CommittedInIdOrder
<1>. SUFFICES ASSUME IInv, ChainIntact,
                     NEW k \in 1..Len(commits), NEW l \in 1..Len(commits), k < l,
                     ~ (commits[k] < commits[l])
              PROVE  FALSE
  BY DEF CommittedInIdOrder
<1>. DEFINE i == commits[l]
            older == {commits[m] : m \in 1..(l - 1)}
            M == Max(older)
            B == Max(Below(i))
<1>0. /\ commits \in Seq(Ids) /\ Ids \subseteq 1..seq /\ seq \in Nat
      /\ Len(commits) \in Nat
      /\ \A m \in 1..Len(commits) : commits[m] \in Ids
  BY MaxIdAssumption DEF IInv, TypeOK
<1>1. i < commits[k]
  <2>1. commits[k] # commits[l]
    BY DEF IInv, CommitsListIds
  <2>2. commits[k] \in 1..seq /\ commits[l] \in 1..seq
    BY <1>0
  <2>3. commits[k] \in Nat /\ commits[l] \in Nat
    BY <1>0, <2>2
  <2>. QED  BY <2>1, <2>3
<1>2. older \subseteq Ids /\ commits[k] \in older
  BY <1>0
<1>3. M \in older /\ commits[k] <= M
  <2>1. older \subseteq 1..seq /\ older # {}
    BY <1>0, <1>2
  <2>. HIDE DEF older
  <2>. QED  BY <2>1, <1>0, <1>2, MaxOf
<1>4. i < M /\ M \in Ids /\ i \in Ids
  <2>1. M \in Ids /\ i \in Ids /\ commits[k] \in Ids
    BY <1>0, <1>2, <1>3
  <2>. HIDE DEF M, i
  <2>a. M \in 1..seq /\ i \in 1..seq /\ commits[k] \in 1..seq
    BY <2>1, <1>0
  <2>2. M \in Nat /\ i \in Nat /\ commits[k] \in Nat
    BY <2>a, <1>0
  <2>. QED  BY <2>1, <2>2, <1>1, <1>3
<1>5. rows[i].prev = rows[M].hash
  <2>1. rows[i].prev = TipOf(rows, older)
    BY DEF IInv, LinkedToNewest
  <2>. HIDE DEF older
  <2>. QED  BY <2>1, <1>2 DEF TipOf
<1>6. rows[i].prev = TipOf(rows, Below(i))
  BY <1>4 DEF ChainIntact, RowVerifies
<1>7. CASE Below(i) = {}
  <2>1. rows[M].hash = Genesis
    BY <1>5, <1>6, <1>7 DEF TipOf
  <2>2. rows[M].hash = Hash(rows[M].prev, rows[M].payload)
    BY <1>4 DEF IInv, RowsSealed
  <2>. QED  BY <2>1, <2>2, GenesisIsNoHash
<1>8. CASE Below(i) # {}
  <2>1. Below(i) \subseteq 1..seq /\ Below(i) \subseteq Ids
    BY <1>0 DEF Below
  <2>2. B \in Below(i)
    BY <1>8, <2>1, <1>0, MaxOf
  <2>3. B \in Ids /\ B < i
    BY <2>2 DEF Below
  <2>4. rows[M].hash = rows[B].hash
    BY <1>5, <1>6, <1>8 DEF TipOf
  <2>5. M = B
    BY <2>3, <2>4, <1>4 DEF IInv, HashesUnique
  <2>. HIDE DEF M, B, i
  <2>a. M \in 1..seq /\ i \in 1..seq
    BY <1>4, <1>0
  <2>6. M \in Nat /\ i \in Nat
    BY <2>a, <1>0
  <2>. QED  BY <2>3, <2>5, <2>6, <1>4
<1>. QED  BY <1>7, <1>8

\* verify_audit_chain reports a break if and only if some row was committed after a
\* row with a higher id, for any number of sessions, payloads and rows.
THEOREM VerifierIsExact == Spec => []VerifierExact
<1>1. IInv => VerifierExact
  BY OrderedVerifies, VerifiedIsOrdered DEF VerifierExact
<1>. QED  BY <1>1, Invariance, PTL

-----------------------------------------------------------------------------
(***************************************************************************)
(* The audit log implements the abstract append-only chain: up to the      *)
(* first row that was committed after a row with a higher id, the rows in  *)
(* commit order are a log that only grows at its end, each entry hashed    *)
(* together with the hash of the entry before it.                          *)
(***************************************************************************)

\* A session inserts one of the payloads.
PayloadsKnown == \A w \in Writers : pc[w] # "idle" => draft[w].payload \in Payloads

Ordered == {k \in 1..Len(commits) : InOrder(k)}
Log == [k \in 1..OrderedLength |-> rows[commits[k]]]

\* Every session's payload stays the one its INSERT began with.
LEMMA PayloadsStep ==
  ASSUME IInv, PayloadsKnown, [Next]_vars
  PROVE  PayloadsKnown'
<1>0. pc \in [Writers -> Stages] /\ DOMAIN draft = Writers
  BY DEF IInv, TypeOK
<1>. USE DEF PayloadsKnown
<1>1. ASSUME NEW w \in Writers, NEW p \in Payloads, DrawId(w, p) PROVE PayloadsKnown'
  BY <1>0, <1>1 DEF DrawId
<1>2. ASSUME NEW w \in Writers, TakeLock(w) PROVE PayloadsKnown'
  BY <1>0, <1>2 DEF TakeLock
<1>3. ASSUME NEW w \in Writers, ReadTip(w) PROVE PayloadsKnown'
  BY <1>0, <1>3 DEF ReadTip
<1>4. ASSUME NEW w \in Writers, Commit(w) PROVE PayloadsKnown'
  BY <1>0, <1>4 DEF Commit
<1>5. ASSUME NEW w \in Writers, Rollback(w) PROVE PayloadsKnown'
  BY <1>0, <1>5 DEF Rollback
<1>6. CASE UNCHANGED vars
  BY <1>6 DEF vars
<1>. QED  BY <1>1, <1>2, <1>3, <1>4, <1>5, <1>6 DEF Next, DuplicateHash

\* A set of positions that contains every position before one of its own is a prefix.
LEMMA OrderedPrefix ==
  ASSUME NEW ordered, NEW n \in Nat, ordered \subseteq 1..n,
         \A k \in ordered : \A j \in 1..k : j \in ordered
  PROVE  Cardinality(ordered) \in 0..n /\ ordered = 1..Cardinality(ordered)
<1>1. CASE ordered = {}
  <2>1. Cardinality(ordered) = 0
    BY <1>1, FS_EmptySet
  <2>. QED  BY <1>1, <2>1
<1>2. CASE ordered # {}
  <2>1. PICK m \in ordered : \A i \in ordered : i <= m
    BY <1>2, NatMax
  <2>2. m \in 1..n /\ ordered \subseteq 1..m
    BY <2>1
  <2>a. 1..m \subseteq ordered
    OBVIOUS
  <2>3. ordered = 1..m
    BY <2>2, <2>a
  <2>4. Cardinality(1..m) = m
    BY <2>2, FS_Interval
  <2>5. Cardinality(ordered) = m
    BY <2>3, <2>4
  <2>6. m \in 0..n
    BY <2>2
  <2>. QED  BY <2>3, <2>5, <2>6
<1>. QED  BY <1>1, <1>2

\* What that says of the log.
PrefixShape ==
  /\ Len(commits) \in Nat /\ commits \in Seq(Ids)
  /\ OrderedLength \in 0..Len(commits) /\ Ordered = 1..OrderedLength

\* It has that shape in every state of the invariant ...
LEMMA OrderedIsPrefix == IInv => PrefixShape
<1>. SUFFICES ASSUME IInv PROVE PrefixShape
  OBVIOUS
<1>1. Len(commits) \in Nat /\ commits \in Seq(Ids)
  BY DEF IInv, TypeOK
<1>2. \A k \in Ordered : \A j \in 1..k : j \in Ordered
  BY <1>1 DEF Ordered, InOrder
<1>3. Ordered \subseteq 1..Len(commits)
  BY DEF Ordered
<1>4. OrderedLength = Cardinality(Ordered)
  BY DEF OrderedLength, Ordered
<1>. QED  BY <1>1, <1>2, <1>3, <1>4, OrderedPrefix DEF PrefixShape

\* ... and in the next.
LEMMA OrderedIsPrefixAfter == IInv' => PrefixShape'
BY OrderedIsPrefix, PTL

\* While all commits are in id order the newest hash is that of the last of them.
LEMMA NewestIsLast ==
  ASSUME IInv, Len(commits) # 0, InOrder(Len(commits))
  PROVE  TipOf(rows, Ids) = rows[commits[Len(commits)]].hash
<1>. DEFINE n == Len(commits)
<1>1. /\ n \in Nat \ {0} /\ Ids \subseteq 1..seq /\ seq \in Nat
      /\ Ids = {commits[k] : k \in 1..n}
  BY MaxIdAssumption DEF IInv, TypeOK, CommitsListIds
<1>2. \A k \in 1..n : commits[k] \in Ids /\ commits[k] \in Nat
  BY <1>1
<1>3. Ids # {}
  <2>1. 1 \in 1..n
    BY <1>1
  <2>. QED  BY <1>2, <2>1
<1>4. Max(Ids) \in Ids /\ \A i \in Ids : i <= Max(Ids)
  BY <1>1, <1>3, MaxOf
<1>5. PICK m \in 1..n : Max(Ids) = commits[m]
  BY <1>1, <1>4
<1>6. ~ (m < n)
  <2>. SUFFICES ASSUME m < n PROVE FALSE
    OBVIOUS
  <2>1. m + 1 \in 2..n /\ m + 1 \in 1..n /\ (m + 1) - 1 = m
    BY <1>1
  <2>2. commits[m] < commits[m + 1]
    BY <2>1 DEF InOrder
  <2>3. commits[m + 1] <= commits[m]
    BY <2>1, <1>2, <1>4, <1>5
  <2>. QED  BY <2>1, <2>2, <2>3, <1>2
<1>7. m = n
  BY <1>1, <1>6
<1>. QED  BY <1>3, <1>5, <1>7 DEF TipOf

\* A commit extends the chain by its row, if it is in id order after commits that are;
\* otherwise the chain stays what it is.
LEMMA CommitExtends ==
  ASSUME IInv, IInv', PayloadsKnown, NEW w \in Writers, Commit(w)
  PROVE  \/ Log' = Log
         \/ \E p \in Payloads : Log' = Append(Log, LinkedRow(Tip(Log), p))
<1>. DEFINE n == Len(commits)
            new == draft[w].id
<1>1. /\ n \in Nat /\ commits \in Seq(Ids)
      /\ OrderedLength \in 0..n /\ Ordered = 1..OrderedLength
  BY OrderedIsPrefix DEF PrefixShape
<1>2. OrderedLength' \in 0..Len(commits') /\ Ordered' = 1..OrderedLength'
  BY OrderedIsPrefixAfter DEF PrefixShape
<1>3. /\ Len(commits') = n + 1 /\ commits'[n + 1] = new
      /\ \A k \in 1..n : commits'[k] = commits[k] /\ commits[k] \in Ids
  BY <1>1 DEF Commit
<1>4. /\ rows'[new] = DraftRow(w)
      /\ \A i \in Ids : rows'[i] = rows[i]
  BY CommitInserts
<1>5. ASSUME NEW k \in 1..n PROVE k \in Ordered' <=> k \in Ordered
  <2>1. \A l \in 2..k : commits'[l - 1] = commits[l - 1] /\ commits'[l] = commits[l]
    BY <1>1, <1>3
  <2>2. InOrder(k)' <=> InOrder(k)
    BY <2>1 DEF InOrder
  <2>3. k \in 1..(n + 1)
    BY <1>1
  <2>. QED  BY <1>3, <2>2, <2>3 DEF Ordered
<1>6. CASE n + 1 \notin Ordered'
  <2>1. Ordered' = Ordered
    BY <1>1, <1>2, <1>3, <1>5, <1>6 DEF Ordered
  <2>2. OrderedLength' = OrderedLength
    BY <1>1, <1>2, <1>3, <2>1
  <2>3. \A k \in 1..OrderedLength : rows'[commits'[k]] = rows[commits[k]]
    BY <1>1, <1>3, <1>4
  <2>. QED  BY <2>2, <2>3 DEF Log
<1>7. CASE n + 1 \in Ordered'
  <2>1. OrderedLength' = n + 1
    BY <1>1, <1>2, <1>3, <1>7
  <2>2. \A k \in 1..n : k \in Ordered
    BY <1>1, <1>2, <1>5, <2>1
  <2>3. OrderedLength = n
    BY <1>1, <2>2
  <2>4. DraftRow(w) = LinkedRow(TipOf(rows, Ids), draft[w].payload)
    BY DEF Commit, DraftRow, IInv, DraftChained
  <2>5. Tip(Log) = TipOf(rows, Ids)
    <3>1. CASE n = 0
      <4>1. Log = <<>>
        BY <2>3, <3>1 DEF Log
      <4>2. Ids = {}
        BY <3>1 DEF IInv, CommitsListIds
      <4>. QED  BY <4>1, <4>2 DEF Tip, TipOf
    <3>2. CASE n # 0
      <4>1. Log # <<>> /\ Len(Log) = n /\ Log[n] = rows[commits[n]]
        BY <1>1, <2>3, <3>2 DEF Log
      <4>2. InOrder(n)
        BY <1>1, <2>2, <3>2 DEF Ordered
      <4>. QED  BY <3>2, <4>1, <4>2, NewestIsLast DEF Tip
    <3>. QED  BY <3>1, <3>2
  <2>6. draft[w].payload \in Payloads
    BY DEF PayloadsKnown, Commit
  <2>7. Log' = Append(Log, DraftRow(w))
    <3>1. Log' = [k \in 1..(n + 1) |-> rows'[commits'[k]]]
      BY <2>1 DEF Log
    <3>2. Log = [k \in 1..n |-> rows[commits[k]]]
      BY <2>3 DEF Log
    <3>3. \A k \in 1..n : rows'[commits'[k]] = rows[commits[k]]
      BY <1>3, <1>4
    <3>4. rows'[commits'[n + 1]] = DraftRow(w)
      BY <1>3, <1>4
    <3>. HIDE DEF n
    <3>5. Append(Log, DraftRow(w)) = [k \in 1..(n + 1) |-> IF k = n + 1 THEN DraftRow(w) ELSE rows[commits[k]]]
      BY <3>2, <1>1
    <3>. QED  BY <3>1, <3>3, <3>4, <3>5, <1>1
  <2>. QED  BY <2>4, <2>5, <2>6, <2>7
<1>. QED  BY <1>6, <1>7

\* Initially the chain is empty, and every step extends it at its end or leaves it alone.
LEMMA ChainStep ==
  ASSUME IInv, IInv', PayloadsKnown, [Next]_vars
  PROVE  \/ Log' = Log
         \/ \E p \in Payloads : Log' = Append(Log, LinkedRow(Tip(Log), p))
<1>1. CASE rows' = rows /\ commits' = commits
  BY <1>1 DEF Log, OrderedLength, InOrder
<1>2. ASSUME NEW w \in Writers, Commit(w)
      PROVE  \/ Log' = Log
             \/ \E p \in Payloads : Log' = Append(Log, LinkedRow(Tip(Log), p))
  BY <1>2, CommitExtends
<1>. QED  BY <1>1, <1>2 DEF Next, DrawId, TakeLock, ReadTip, Rollback, DuplicateHash, vars

\* For any number of sessions, payloads and ids the audit log implements the abstract
\* chain for as long as commits follow the ids, whatever sessions race or are lost.
THEOREM LogImplementsChain == Spec => ImplementsChain
<1>1. Init => Chain!Init /\ PayloadsKnown
  <2>. SUFFICES ASSUME Init PROVE Chain!Init /\ PayloadsKnown
    OBVIOUS
  <2>1. commits = <<>> /\ PayloadsKnown
    BY DEF Init, PayloadsKnown
  <2>2. OrderedLength = 0
    <3>1. {k \in 1..Len(commits) : InOrder(k)} = {}
      BY <2>1
    <3>. QED  BY <3>1, FS_EmptySet DEF OrderedLength
  <2>. QED  BY <2>1, <2>2 DEF Chain!Init
<1>2. IInv /\ PayloadsKnown /\ [Next]_vars => PayloadsKnown'
  BY PayloadsStep
<1>3. IInv /\ IInv' /\ PayloadsKnown /\ [Next]_vars
        => [Chain!Next]_[k \in 1..OrderedLength |-> rows[commits[k]]]
  BY ChainStep DEF Chain!Next, Chain!Extend, Log, Chain!LinkedRow, Chain!Tip, Chain!Hash,
     Chain!Genesis, LinkedRow, Tip, Hash, Genesis
<1>. QED  BY <1>1, <1>2, <1>3, Invariance, PTL DEF Spec, ImplementsChain, Chain!Spec

-----------------------------------------------------------------------------
(***************************************************************************)
(* What alterations the verifiers find.  The walk of verifyChain along the *)
(* rows in the order of their ids is that of verify_audit_chain, and a row *)
(* altered, or taken out in the middle, is where it stops.                 *)
(***************************************************************************)

LEMMA IdsAreNumbers ==
  ASSUME IInv
  PROVE  seq \in Nat /\ Ids \subseteq 1..seq /\ Ids \subseteq Nat /\ IsFiniteSet(Ids)
<1>1. seq \in Nat /\ Ids \subseteq 1..seq
  BY MaxIdAssumption DEF IInv, TypeOK
<1>2. IsFiniteSet(1..seq) /\ Ids \in SUBSET (1..seq)
  BY <1>1, FS_Interval
<1>3. IsFiniteSet(Ids)
  BY <1>2, FS_Subset
<1>. QED  BY <1>1, <1>3

\* The ids in ascending order: each of them has its place.
LEMMA IdsRanked ==
  ASSUME IInv
  PROVE  /\ Cardinality(Ids) \in Nat /\ Len(SortedIds) = Cardinality(Ids)
         /\ \A k \in 1..Cardinality(Ids) : SortedIds[k] \in Ids
         /\ \A i \in Ids : \E k \in 1..Cardinality(Ids) : SortedIds[k] = i
         /\ \A k, l \in 1..Cardinality(Ids) : k < l => SortedIds[k] < SortedIds[l]
<1>. DEFINE n == Cardinality(Ids)
            rank == [i \in Ids |-> Cardinality(Below(i)) + 1]
<1>1. Ids \subseteq Nat /\ IsFiniteSet(Ids)
  BY IdsAreNumbers
<1>2. n \in Nat /\ IsFiniteSet(1..n) /\ Cardinality(1..n) = n
  BY <1>1, FS_CardinalityType, FS_Interval
<1>3. ASSUME NEW i \in Ids
      PROVE  IsFiniteSet(Below(i)) /\ Cardinality(Below(i)) \in 0..(n - 1)
  <2>1. Below(i) \in SUBSET Ids /\ i \notin Below(i) /\ i \in Nat
    BY <1>1 DEF Below
  <2>2. IsFiniteSet(Below(i)) /\ Cardinality(Below(i)) \in Nat /\ Cardinality(Below(i)) <= n
    BY <1>1, <2>1, FS_Subset, FS_CardinalityType
  <2>3. Cardinality(Below(i)) # n
    BY <1>1, <2>1, FS_Subset
  <2>. QED  BY <1>2, <2>2, <2>3
<1>4. ASSUME NEW i \in Ids, NEW j \in Ids, i < j
      PROVE  rank[i] < rank[j]
  <2>1. i \in Nat /\ j \in Nat /\ \A x \in Ids : x \in Nat
    BY <1>1
  <2>2. Below(i) \in SUBSET Below(j) /\ i \in Below(j) /\ i \notin Below(i)
    <3>1. ASSUME NEW x \in Below(i) PROVE x \in Below(j)
      <4>1. x \in Ids /\ x \in Nat /\ x < i
        BY <2>1 DEF Below
      <4>2. x < j
        BY <1>4, <2>1, <4>1
      <4>. QED  BY <4>1, <4>2 DEF Below
    <3>2. i \in Below(j)
      BY <1>4 DEF Below
    <3>3. i \notin Below(i)
      BY <2>1 DEF Below
    <3>. QED  BY <3>1, <3>2, <3>3
  <2>3. Cardinality(Below(i)) <= Cardinality(Below(j)) /\ Cardinality(Below(i)) # Cardinality(Below(j))
    BY <1>3, <2>2, FS_Subset
  <2>. QED  BY <1>2, <1>3, <2>3
<1>5. rank \in [Ids -> 1..n]
  BY <1>2, <1>3
<1>6. \A i, j \in Ids : rank[i] = rank[j] => i = j
  <2>1. ASSUME NEW i \in Ids, NEW j \in Ids, i # j PROVE rank[i] # rank[j]
    <3>1. i \in Nat /\ j \in Nat /\ rank[i] \in Nat /\ rank[j] \in Nat
      BY <1>1, <1>2, <1>5
    <3>. HIDE DEF rank
    <3>. QED  BY <1>4, <2>1, <3>1
  <2>. QED  BY <2>1
<1>7. \A k \in 1..n : \E i \in Ids : rank[i] = k
  <2>. HIDE DEF rank
  <2>1. rank \in Injection(Ids, 1..n)
    BY <1>5, <1>6 DEF Injection, IsInjective
  <2>2. rank \in Surjection(Ids, 1..n)
    BY <1>2, <2>1, FS_Injection
  <2>. QED  BY <2>2 DEF Surjection
<1>8. ASSUME NEW k \in 1..n PROVE SortedIds[k] \in Ids /\ rank[SortedIds[k]] = k
  <2>1. \E i \in Ids : Cardinality(Below(i)) = k - 1
    BY <1>2, <1>3, <1>7
  <2>2. SortedIds[k] \in Ids /\ Cardinality(Below(SortedIds[k])) = k - 1
    BY <2>1 DEF SortedIds
  <2>. QED  BY <1>2, <2>2
<1>9. Len(SortedIds) = n
  BY <1>2 DEF SortedIds
<1>10. ASSUME NEW i \in Ids PROVE \E k \in 1..n : SortedIds[k] = i
  <2>1. rank[i] \in 1..n
    BY <1>5
  <2>. HIDE DEF rank
  <2>. QED  BY <1>6, <1>8, <2>1
<1>11. ASSUME NEW k \in 1..n, NEW l \in 1..n, k < l PROVE SortedIds[k] < SortedIds[l]
  <2>1. /\ SortedIds[k] \in Ids /\ rank[SortedIds[k]] = k
        /\ SortedIds[l] \in Ids /\ rank[SortedIds[l]] = l
    BY <1>8
  <2>. HIDE DEF rank
  <2>2. SortedIds[k] \in Nat /\ SortedIds[l] \in Nat
    BY <1>1, <2>1
  <2>3. ~(SortedIds[l] < SortedIds[k]) /\ SortedIds[l] # SortedIds[k]
    <3>1. k \in Int /\ l \in Int
      BY <1>2
    <3>2. SortedIds[l] < SortedIds[k] => l < k
      BY <1>4, <2>1
    <3>. QED  BY <1>11, <2>1, <3>1, <3>2
  <2>. QED  BY <2>2, <2>3
<1>. QED  BY <1>2, <1>8, <1>9, <1>10, <1>11

\* A row is stored with its link and its digest.
RowsWhole == \A i \in Ids : rows[i] = LinkedRow(rows[i].prev, rows[i].payload)

LEMMA RowsWholeStep ==
  ASSUME IInv, RowsWhole, [Next]_vars
  PROVE  RowsWhole'
<1>1. CASE rows' = rows
  BY <1>1 DEF RowsWhole, Ids
<1>2. ASSUME NEW w \in Writers, Commit(w) PROVE RowsWhole'
  <2>1. /\ Ids' = Ids \cup {draft[w].id} /\ rows'[draft[w].id] = DraftRow(w)
        /\ \A i \in Ids : rows'[i] = rows[i]
    BY <1>2, CommitInserts
  <2>. QED  BY <2>1 DEF RowsWhole, DraftRow, LinkedRow
<1>. QED  BY <1>1, <1>2 DEF Next, vars, DrawId, TakeLock, ReadTip, Rollback, DuplicateHash

\* What is at each place of the chronicle, and that the hashes there are different.
LEMMA ChronicleRows ==
  ASSUME IInv, RowsWhole
  PROVE  /\ Len(Chronicle) \in Nat /\ Len(Chronicle) = Len(SortedIds)
         /\ Chronicle = [k \in 1..Len(Chronicle) |-> rows[SortedIds[k]]]
         /\ \A k \in 1..Len(Chronicle) :
              /\ Chronicle[k] = LinkedRow(Chronicle[k].prev, Chronicle[k].payload)
              /\ Chronicle[k].hash # Genesis
         /\ \A k, l \in 1..Len(Chronicle) : Chronicle[k].hash = Chronicle[l].hash => k = l
<1>1. Len(Chronicle) \in Nat /\ Len(Chronicle) = Len(SortedIds)
  BY IdsRanked DEF Chronicle
<1>2. Chronicle = [k \in 1..Len(Chronicle) |-> rows[SortedIds[k]]]
  BY <1>1 DEF Chronicle
<1>3. ASSUME NEW k \in 1..Len(Chronicle)
      PROVE  /\ Chronicle[k] = LinkedRow(Chronicle[k].prev, Chronicle[k].payload)
             /\ Chronicle[k].hash # Genesis
  <2>1. SortedIds[k] \in Ids /\ Chronicle[k] = rows[SortedIds[k]]
    BY <1>1, <1>2, IdsRanked
  <2>2. Chronicle[k] = LinkedRow(Chronicle[k].prev, Chronicle[k].payload)
    BY <2>1 DEF RowsWhole
  <2>3. Chronicle[k].hash = Hash(Chronicle[k].prev, Chronicle[k].payload)
    BY <2>2 DEF LinkedRow
  <2>. QED  BY <2>2, <2>3, GenesisIsNoHash
<1>4. ASSUME NEW k \in 1..Len(Chronicle), NEW l \in 1..Len(Chronicle),
             Chronicle[k].hash = Chronicle[l].hash
      PROVE  k = l
  <2>1. SortedIds[k] = SortedIds[l] /\ SortedIds[k] \in Ids
    BY <1>1, <1>2, <1>4, IdsRanked DEF IInv, HashesUnique
  <2>2. SortedIds[k] \in Nat
    BY <2>1, IdsAreNumbers
  <2>3. ~(k < l) /\ ~(l < k)
    BY <1>1, <2>1, <2>2, IdsRanked
  <2>. QED  BY <1>1, <2>3
<1>. QED  BY <1>1, <1>2, <1>3, <1>4

\* The hash the row at k has to link to is that of the row before it.
LEMMA TipBefore ==
  ASSUME NEW s, Len(s) \in Nat, NEW k \in 1..Len(s)
  PROVE  Tip(SubSeq(s, 1, k - 1)) = IF k = 1 THEN Genesis ELSE s[k - 1].hash
<1>. DEFINE S == {s[i] : i \in 1..(k - 1)}
<1>1. k - 1 \in Nat /\ 1 \in Int /\ \A i \in 1..(k - 1) : s[i] \in S
  OBVIOUS
<1>2. /\ SubSeq(s, 1, k - 1) \in Seq(S)
      /\ Len(SubSeq(s, 1, k - 1)) = IF 1 <= k - 1 THEN (k - 1) - 1 + 1 ELSE 0
      /\ \A i \in 1..((k - 1) - 1 + 1) : SubSeq(s, 1, k - 1)[i] = s[1 + i - 1]
  <2>. HIDE DEF S
  <2>. QED  BY <1>1, SubSeqProperties
<1>3. CASE k = 1
  BY <1>2, <1>3, SubSeqEmpty DEF Tip
<1>4. CASE k # 1
  <2>. DEFINE t == SubSeq(s, 1, k - 1)
  <2>1. Len(t) = k - 1 /\ t[k - 1] = s[k - 1]
    BY <1>1, <1>2, <1>4
  <2>2. t # <<>>
    BY <1>1, <1>4, <2>1
  <2>. HIDE DEF t
  <2>3. Tip(t) = s[k - 1].hash
    BY <2>1, <2>2 DEF Tip
  <2>. QED  BY <1>4, <2>3 DEF t
<1>. QED  BY <1>3, <1>4

\* The walk stops where it first fails.
LEMMA StopsAt ==
  ASSUME NEW s, Len(s) \in Nat, NEW k \in 1..Len(s), ~Links(s, k),
         \A j \in 1..(k - 1) : Links(s, j)
  PROVE  BrokenIndex(s) = k
<1>. DEFINE First(i) == ~Links(s, i) /\ \A j \in 1..(i - 1) : Links(s, j)
<1>1. First(k)
  OBVIOUS
<1>2. ASSUME NEW i \in 1..Len(s), First(i) PROVE i = k
  <2>1. ~(i < k) /\ ~(k < i)
    BY <1>2
  <2>. QED  BY <2>1
<1>3. BrokenIndex(s) = CHOOSE i \in 1..Len(s) : First(i)
  BY DEF BrokenIndex
<1>. HIDE DEF First
<1>. QED  BY <1>1, <1>2, <1>3

\* A walk that does not pass stops somewhere.
LEMMA StopsSomewhere ==
  ASSUME NEW s, Len(s) \in Nat, NEW i \in 1..Len(s), ~Links(s, i)
  PROVE  \E k \in 1..Len(s) : ~Links(s, k) /\ \A j \in 1..(k - 1) : Links(s, j)
<1>. DEFINE bad == {k \in 1..Len(s) : ~Links(s, k)}
<1>1. bad \subseteq Nat /\ bad # {}
  OBVIOUS
<1>2. PICK k \in bad : \A j \in bad : k <= j
  BY <1>1, NatMin
<1>3. ASSUME NEW j \in 1..(k - 1) PROVE Links(s, j)
  BY <1>2
<1>. QED  BY <1>3

LEMMA Passes ==
  ASSUME NEW s, Len(s) \in Nat
  PROVE  BrokenIndex(s) = 0 <=> \A i \in 1..Len(s) : Links(s, i)
<1>1. CASE \A i \in 1..Len(s) : Links(s, i)
  BY <1>1 DEF BrokenIndex
<1>2. CASE \E i \in 1..Len(s) : ~Links(s, i)
  <2>1. PICK k \in 1..Len(s) : ~Links(s, k) /\ \A j \in 1..(k - 1) : Links(s, j)
    BY <1>2, StopsSomewhere
  <2>2. BrokenIndex(s) = k
    BY <2>1, StopsAt
  <2>. QED  BY <1>2, <2>2
<1>. QED  BY <1>1, <1>2

\* A row passes in the database where it passes in the chronicle.
LEMMA WalksAgree ==
  ASSUME IInv, RowsWhole, NEW k \in 1..Len(Chronicle)
  PROVE  RowVerifies(SortedIds[k]) <=> Links(Chronicle, k)
<1>. DEFINE n == Cardinality(Ids)
            i == SortedIds[k]
<1>1. /\ n \in Nat /\ Len(Chronicle) = n /\ i \in Ids
      /\ \A j \in 1..n : SortedIds[j] \in Ids /\ Chronicle[j] = rows[SortedIds[j]]
  BY IdsRanked, ChronicleRows
<1>2. seq \in Nat /\ Ids \subseteq 1..seq /\ Ids \subseteq Nat
  BY IdsAreNumbers
<1>3. Below(i) = {SortedIds[j] : j \in 1..(k - 1)}
  <2>1. ASSUME NEW j \in 1..(k - 1) PROVE SortedIds[j] \in Below(i)
    <3>1. j \in 1..n /\ j < k /\ k \in 1..n
      BY <1>1
    <3>. QED  BY <1>1, <3>1, IdsRanked DEF Below
  <2>2. ASSUME NEW x \in Below(i) PROVE \E j \in 1..(k - 1) : x = SortedIds[j]
    <3>1. x \in Ids /\ x < i
      BY DEF Below
    <3>2. PICK j \in 1..n : SortedIds[j] = x
      BY <3>1, IdsRanked
    <3>3. x \in Nat /\ i \in Nat
      BY <1>1, <1>2, <3>1
    <3>4. ~(k < j) /\ k # j
      <4>1. k < j => i < x
        BY <1>1, <3>2, IdsRanked
      <4>. HIDE DEF i
      <4>2. ~(i < x) /\ x # i
        BY <3>1, <3>3
      <4>. QED  BY <3>2, <4>1, <4>2 DEF i
    <3>5. j \in 1..(k - 1)
      BY <1>1, <3>4
    <3>. QED  BY <3>2, <3>5
  <2>. QED  BY <2>1, <2>2
<1>4. TipOf(rows, Below(i)) = Tip(SubSeq(Chronicle, 1, k - 1))
  <2>1. CASE k = 1
    <3>1. Below(i) = {}
      BY <1>3, <2>1
    <3>. QED  BY <1>1, <2>1, <3>1, TipBefore DEF TipOf
  <2>2. CASE k # 1
    <3>. DEFINE m == SortedIds[k - 1]
    <3>1. k - 1 \in 1..n /\ k - 1 \in 1..(k - 1) /\ m \in Below(i)
      BY <1>1, <1>3, <2>2
    <3>2. Below(i) \subseteq 1..seq /\ Below(i) # {}
      BY <1>2, <3>1 DEF Below
    <3>3. Max(Below(i)) \in Below(i) /\ \A x \in Below(i) : x <= Max(Below(i))
      BY <1>2, <3>2, MaxOf
    <3>4. PICK j \in 1..(k - 1) : Max(Below(i)) = SortedIds[j]
      BY <1>3, <3>3
    <3>5. ~(SortedIds[j] < m)
      <4>1. m <= SortedIds[j]
        BY <3>1, <3>3, <3>4
      <4>2. j \in 1..n
        BY <1>1
      <4>3. m \in Nat /\ SortedIds[j] \in Nat
        BY <1>1, <1>2, <3>1, <4>2
      <4>. QED  BY <4>1, <4>3
    <3>6. j = k - 1
      <4>1. j \in 1..n /\ (j < k - 1 => SortedIds[j] < m)
        BY <1>1, <3>1, IdsRanked
      <4>. QED  BY <1>1, <3>5, <4>1
    <3>7. TipOf(rows, Below(i)) = rows[m].hash
      BY <3>2, <3>4, <3>6 DEF TipOf
    <3>8. rows[m] = Chronicle[k - 1]
      BY <1>1, <3>1
    <3>9. Tip(SubSeq(Chronicle, 1, k - 1)) = Chronicle[k - 1].hash
      BY <1>1, <2>2, TipBefore
    <3>. QED  BY <3>7, <3>8, <3>9
  <2>. QED  BY <2>1, <2>2
<1>5. Chronicle[k] = rows[i]
  BY <1>1
<1>. QED  BY <1>4, <1>5 DEF RowVerifies, Links

\* The verifier in SQL names the row at which the one in TypeScript stops.
LEMMA SameBreak ==
  ASSUME IInv, RowsWhole
  PROVE  BrokenAt = IF BrokenIndex(Chronicle) = 0 THEN 0 ELSE SortedIds[BrokenIndex(Chronicle)]
<1>. DEFINE n == Cardinality(Ids)
<1>1. n \in Nat /\ Len(Chronicle) = n
  BY IdsRanked, ChronicleRows
<1>2. ChainIntact <=> \A k \in 1..n : Links(Chronicle, k)
  <2>1. ASSUME ChainIntact, NEW k \in 1..n PROVE Links(Chronicle, k)
    BY <1>1, <2>1, IdsRanked, WalksAgree DEF ChainIntact
  <2>2. ASSUME \A k \in 1..n : Links(Chronicle, k), NEW i \in Ids PROVE RowVerifies(i)
    <3>1. PICK k \in 1..n : SortedIds[k] = i
      BY IdsRanked
    <3>. QED  BY <1>1, <2>2, <3>1, WalksAgree
  <2>. QED  BY <2>1, <2>2 DEF ChainIntact
<1>3. CASE \A k \in 1..n : Links(Chronicle, k)
  BY <1>1, <1>2, <1>3, Passes DEF BrokenAt
<1>4. CASE \E k \in 1..n : ~Links(Chronicle, k)
  <2>1. PICK k \in 1..n : ~Links(Chronicle, k) /\ \A j \in 1..(k - 1) : Links(Chronicle, j)
    BY <1>1, <1>4, StopsSomewhere
  <2>2. BrokenIndex(Chronicle) = k
    BY <1>1, <2>1, StopsAt
  <2>. DEFINE First(i) == ~RowVerifies(i) /\ \A j \in Below(i) : RowVerifies(j)
  <2>3. SortedIds[k] \in Ids /\ First(SortedIds[k])
    <3>1. SortedIds[k] \in Ids /\ ~RowVerifies(SortedIds[k])
      BY <1>1, <2>1, IdsRanked, WalksAgree
    <3>2. ASSUME NEW x \in Below(SortedIds[k]) PROVE RowVerifies(x)
      <4>1. x \in Ids /\ x < SortedIds[k]
        BY DEF Below
      <4>2. PICK j \in 1..n : SortedIds[j] = x
        BY <4>1, IdsRanked
      <4>3. ~(k < j) /\ k # j
        <5>1. x \in Nat /\ SortedIds[k] \in Nat
          BY <3>1, <4>1, IdsAreNumbers
        <5>2. k < j => SortedIds[k] < x
          BY <4>2, IdsRanked
        <5>. QED  BY <4>1, <4>2, <5>1, <5>2
      <4>4. j \in 1..(k - 1)
        BY <1>1, <4>3
      <4>. QED  BY <1>1, <2>1, <4>2, <4>4, WalksAgree
    <3>. QED  BY <3>1, <3>2
  <2>4. ASSUME NEW i \in Ids, First(i) PROVE i = SortedIds[k]
    <3>1. i \in Nat /\ SortedIds[k] \in Nat
      BY <2>3, <2>4, IdsAreNumbers
    <3>2. ~(i < SortedIds[k])
      BY <2>3, <2>4 DEF Below
    <3>3. ~(SortedIds[k] < i)
      BY <2>3, <2>4 DEF Below
    <3>. QED  BY <3>1, <3>2, <3>3
  <2>5. BrokenAt = CHOOSE i \in Ids : First(i)
    BY <1>2, <2>1 DEF BrokenAt
  <2>. HIDE DEF First
  <2>6. BrokenAt = SortedIds[k]
    BY <2>3, <2>4, <2>5
  <2>. QED  BY <2>2, <2>6
<1>. QED  BY <1>3, <1>4

\* What has the first rows of an intact chain passes as far as those.
LEMMA PrefixPasses ==
  ASSUME NEW s, Len(s) \in Nat, NEW t, Len(t) \in Nat, NEW k \in 1..Len(t), k <= Len(s),
         \A j \in 1..(k - 1) : t[j] = s[j], \A j \in 1..Len(s) : Links(s, j)
  PROVE  \A j \in 1..(k - 1) : Links(t, j)
<1>. SUFFICES ASSUME NEW j \in 1..(k - 1) PROVE Links(t, j)
  OBVIOUS
<1>1. j \in 1..Len(s) /\ j \in 1..Len(t) /\ t[j] = s[j] /\ (j # 1 => t[j - 1] = s[j - 1])
  OBVIOUS
<1>2. Tip(SubSeq(t, 1, j - 1)) = Tip(SubSeq(s, 1, j - 1))
  <2>1. Tip(SubSeq(t, 1, j - 1)) = IF j = 1 THEN Genesis ELSE t[j - 1].hash
    BY <1>1, TipBefore
  <2>2. Tip(SubSeq(s, 1, j - 1)) = IF j = 1 THEN Genesis ELSE s[j - 1].hash
    BY <1>1, TipBefore
  <2>. QED  BY <1>1, <2>1, <2>2
<1>. QED  BY <1>1, <1>2 DEF Links

\* A row with another payload is where the walk stops.
LEMMA AlteredIsFound ==
  ASSUME IInv, RowsWhole, BrokenIndex(Chronicle) = 0,
         NEW k \in 1..Len(Chronicle), NEW p, p # Chronicle[k].payload
  PROVE  BrokenIndex([Chronicle EXCEPT ![k].payload = p]) = k
<1>. DEFINE t == [Chronicle EXCEPT ![k].payload = p]
            n == Len(Chronicle)
<1>1. n \in Nat /\ Chronicle = [j \in 1..n |-> rows[SortedIds[j]]]
  BY ChronicleRows
<1>2. \A j \in 1..n : Links(Chronicle, j)
  BY <1>1, Passes
<1>3. /\ DOMAIN t = 1..n /\ Len(t) = n
      /\ \A j \in 1..n : j # k => t[j] = Chronicle[j]
      /\ t[k] = [Chronicle[k] EXCEPT !.payload = p]
  <2>1. t = [j \in 1..n |-> IF j = k THEN [Chronicle[k] EXCEPT !.payload = p] ELSE Chronicle[j]]
    BY <1>1
  <2>. HIDE DEF t
  <2>. QED  BY <1>1, <2>1
<1>4. t[k].payload = p /\ t[k].prev = Chronicle[k].prev /\ t[k].hash = Chronicle[k].hash
  <2>1. PICK prev, old : Chronicle[k] = LinkedRow(prev, old)
    BY ChronicleRows
  <2>. QED  BY <1>3, <2>1 DEF LinkedRow
<1>5. Chronicle[k].hash = Hash(Chronicle[k].prev, Chronicle[k].payload)
  BY <1>2 DEF Links
<1>. HIDE DEF t
<1>6. ~Links(t, k)
  <2>1. Hash(t[k].prev, p) # Hash(t[k].prev, Chronicle[k].payload)
    BY DEF Hash
  <2>. QED  BY <1>4, <1>5, <2>1 DEF Links
<1>7. \A j \in 1..(k - 1) : t[j] = Chronicle[j]
  BY <1>1, <1>3
<1>8. \A j \in 1..(k - 1) : Links(t, j)
  BY <1>1, <1>2, <1>3, <1>7, PrefixPasses
<1>9. BrokenIndex(t) = k
  BY <1>1, <1>3, <1>6, <1>8, StopsAt
<1>. QED  BY <1>9 DEF t

\* Where a row other than the last was taken out, the walk stops.
LEMMA RemovedIsFound ==
  ASSUME IInv, RowsWhole, BrokenIndex(Chronicle) = 0,
         NEW k \in 1..Len(Chronicle), k < Len(Chronicle)
  PROVE  BrokenIndex(RemoveAt(Chronicle, k)) = k
<1>. DEFINE n == Len(Chronicle)
            S == {Chronicle[j] : j \in 1..n}
            a == SubSeq(Chronicle, 1, k - 1)
            b == SubSeq(Chronicle, k + 1, n)
            t == RemoveAt(Chronicle, k)
<1>1. n \in Nat /\ Chronicle = [j \in 1..n |-> rows[SortedIds[j]]]
  BY ChronicleRows
<1>2. \A j \in 1..n : Links(Chronicle, j)
  BY <1>1, Passes
<1>3. /\ \A j \in 1..(k - 1) : Chronicle[j] \in S
      /\ \A j \in (k + 1)..n : Chronicle[j] \in S
      /\ 1 \in Int /\ k - 1 \in Int /\ k + 1 \in Int /\ n \in Int
  BY <1>1
<1>4. a \in Seq(S) /\ Len(a) = k - 1 /\ \A j \in 1..(k - 1) : a[j] = Chronicle[j]
  <2>1. /\ a \in Seq(S) /\ Len(a) = IF 1 <= k - 1 THEN (k - 1) - 1 + 1 ELSE 0
        /\ \A j \in 1..((k - 1) - 1 + 1) : a[j] = Chronicle[1 + j - 1]
    <3>. HIDE DEF S
    <3>. QED  BY <1>3, SubSeqProperties
  <2>. HIDE DEF a, S
  <2>. QED  BY <1>1, <2>1
<1>5. b \in Seq(S) /\ Len(b) = n - k /\ \A j \in 1..(n - k) : b[j] = Chronicle[k + j]
  <2>1. /\ b \in Seq(S) /\ Len(b) = IF k + 1 <= n THEN n - (k + 1) + 1 ELSE 0
        /\ \A j \in 1..(n - (k + 1) + 1) : b[j] = Chronicle[(k + 1) + j - 1]
    <3>. HIDE DEF S
    <3>. QED  BY <1>3, SubSeqProperties
  <2>. HIDE DEF b, S
  <2>2. n \in Nat /\ k \in 1..n /\ k < n
    BY <1>1
  <2>. HIDE DEF n
  <2>. QED  BY <2>1, <2>2
<1>6. t = a \o b
  BY DEF RemoveAt
<1>. HIDE DEF a, b, t, S
<1>7. /\ Len(t) = n - 1 /\ k \in 1..Len(t) /\ k <= n
      /\ \A j \in 1..(k - 1) : t[j] = Chronicle[j]
      /\ t[k] = Chronicle[k + 1]
  <2>1. /\ Len(t) = Len(a) + Len(b)
        /\ \A j \in 1..(Len(a) + Len(b)) : t[j] = IF j <= Len(a) THEN a[j] ELSE b[j - Len(a)]
    BY <1>4, <1>5, <1>6, ConcatProperties
  <2>2. Len(t) = n - 1 /\ k \in 1..Len(t) /\ k <= n
    BY <1>1, <1>4, <1>5, <2>1
  <2>3. ASSUME NEW j \in 1..(k - 1) PROVE t[j] = Chronicle[j]
    BY <1>1, <1>4, <1>5, <2>1
  <2>4. t[k] = b[1] /\ b[1] = Chronicle[k + 1]
    BY <1>1, <1>4, <1>5, <2>1
  <2>. QED  BY <2>2, <2>3, <2>4
<1>8. \A j \in 1..(k - 1) : Links(t, j)
  BY <1>1, <1>2, <1>7, PrefixPasses
<1>9. ~Links(t, k)
  <2>1. Chronicle[k + 1].prev = Chronicle[k].hash
    <3>1. k + 1 \in 1..n /\ k + 1 # 1 /\ (k + 1) - 1 = k
      BY <1>1
    <3>2. Chronicle[k + 1].prev = Tip(SubSeq(Chronicle, 1, (k + 1) - 1))
      BY <1>2, <3>1 DEF Links
    <3>. QED  BY <1>1, <3>1, <3>2, TipBefore
  <2>2. Tip(SubSeq(t, 1, k - 1)) = IF k = 1 THEN Genesis ELSE t[k - 1].hash
    BY <1>1, <1>7, TipBefore
  <2>3. CASE k = 1
    BY <1>7, <2>1, <2>2, <2>3, ChronicleRows DEF Links
  <2>4. CASE k # 1
    <3>1. k - 1 \in 1..(k - 1) /\ k - 1 \in 1..n /\ k - 1 # k
      BY <1>1, <2>4
    <3>2. t[k - 1].hash = Chronicle[k - 1].hash
      BY <1>7, <3>1
    <3>3. Chronicle[k - 1].hash # Chronicle[k].hash
      BY <3>1, ChronicleRows
    <3>. QED  BY <1>7, <2>1, <2>2, <2>4, <3>2, <3>3 DEF Links
  <2>. QED  BY <2>3, <2>4
<1>10. Len(t) \in Nat
  BY <1>1, <1>7
<1>11. BrokenIndex(t) = k
  BY <1>7, <1>8, <1>9, <1>10, StopsAt
<1>. QED  BY <1>11 DEF t

\* The verifiers agree, and an intact log stops verifying at any row that is altered, and
\* where any row but the last is taken out, however many rows were appended by however
\* many sessions (verify_audit_chain, verifyChain).
THEOREM TamperingIsEvident == Spec => []TamperEvident
<1>1. Init => RowsWhole
  BY DEF Init, RowsWhole, Ids
<1>2. IInv /\ RowsWhole /\ [Next]_vars => RowsWhole'
  BY RowsWholeStep
<1>3. IInv /\ RowsWhole => TamperEvident
  <2>. SUFFICES ASSUME IInv, RowsWhole PROVE TamperEvident
    OBVIOUS
  <2>. DEFINE b == BrokenIndex(Chronicle)
  <2>1. BrokenAt = IF b = 0 THEN 0 ELSE SortedIds[b]
    BY SameBreak
  <2>2. ASSUME b = 0, NEW k \in 1..Len(Chronicle)
        PROVE  /\ \A p \in Payloads \ {Chronicle[k].payload} :
                    BrokenIndex([Chronicle EXCEPT ![k].payload = p]) = k
               /\ k < Len(Chronicle) => BrokenIndex(RemoveAt(Chronicle, k)) = k
    BY <2>2, AlteredIsFound, RemovedIsFound
  <2>. QED  BY <2>1, <2>2 DEF TamperEvident
<1>. QED  BY <1>1, <1>2, <1>3, Invariance, PTL DEF Spec
=============================================================================
