--------------------------- MODULE MCSandboxBots ---------------------------
\* Small instances of SandboxBots for TLC.

EXTENDS SandboxBots, TLC

\* Slots are interchangeable: no definition tells one from another.
SlotSymmetry == Permutations(Slots)

=============================================================================
