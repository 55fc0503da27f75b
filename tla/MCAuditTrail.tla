----------------------------- MODULE MCAuditTrail -----------------------------
\* The audit trail and the autopsy, instantiated for TLC.
EXTENDS AuditTrail, TLC

Symmetry == Permutations(Workers)
===============================================================================
