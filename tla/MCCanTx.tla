------------------------------- MODULE MCCanTx --------------------------------
(* Small instances of CanTx for TLC.                                       *)
EXTENDS CanTx, TLC

\* bxCAN fills any free mailbox: the mailboxes are interchangeable.
MailboxSymmetry == Permutations(Mailbox)

===============================================================================
