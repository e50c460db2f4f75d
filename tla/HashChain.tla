----------------------------- MODULE HashChain ------------------------------
(***************************************************************************)
(* The hash chain of server/domain/audit/hashchain.ts.  Digests are        *)
(* symbolic: Hash(prev, payload) stands for sha256(prev || payload), taken *)
(* to be free of collisions.                                               *)
(***************************************************************************)
EXTENDS Naturals, Sequences

Genesis == <<>>
Hash(prev, payload) == <<prev, payload>>
LinkedRow(prev, p) == [payload |-> p, prev |-> prev, hash |-> Hash(prev, p)]

\* The hash a row appended to the chain s has to link to.
Tip(s) == IF s = <<>> THEN Genesis ELSE s[Len(s)].hash

\* Mutation: hashes are not recomputed.
LinksByPrevOnly(s, i) == s[i].prev = Tip(SubSeq(s, 1, i - 1))

\* Position i of the walk passes: it links to position i - 1 and its own hash
\* is that of what it stores.
Links(s, i) ==
  /\ s[i].prev = Tip(SubSeq(s, 1, i - 1))
  /\ s[i].hash = Hash(s[i].prev, s[i].payload)

\* verifyChain: the first position that fails (0 stands for ok).
BrokenIndex(s) ==
  IF \A i \in 1..Len(s) : Links(s, i) THEN 0
  ELSE CHOOSE i \in 1..Len(s) : ~Links(s, i) /\ \A j \in 1..(i - 1) : Links(s, j)
=============================================================================
