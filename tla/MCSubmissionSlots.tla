-------------------------- MODULE MCSubmissionSlots --------------------------
\* Small instances of SubmissionSlots for TLC.

EXTENDS SubmissionSlots

\* One bot for each slot.
OneBotPerSlot == {[team |-> t, slot |-> k, code |-> k] : t \in Teams, k \in SlotIds}

\* The same bot for every slot.
SameBot == [team: Teams, slot: SlotIds, code: Codes]

=============================================================================
