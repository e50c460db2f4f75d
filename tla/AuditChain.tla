----------------------------- MODULE AuditChain -----------------------------
(***************************************************************************)
(* What the audit log promises its readers: a sequence of entries that     *)
(* only grows at its end, in which every entry is hashed together with the *)
(* hash of the entry before it.                                            *)
(***************************************************************************)
EXTENDS HashChain

CONSTANT Payloads

VARIABLE log

Init == log = <<>>

Extend(p) == log' = Append(log, LinkedRow(Tip(log), p))

Next == \E p \in Payloads : Extend(p)

Spec == Init /\ [][Next]_log
=============================================================================
