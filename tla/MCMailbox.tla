------------------------------ MODULE MCMailbox ------------------------------
(* Small instances of Mailbox for TLC.                                     *)
EXTENDS Mailbox, TLC

CONSTANTS t1, t2

=============================================================================
