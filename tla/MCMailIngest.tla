---------------------------- MODULE MCMailIngest ----------------------------
(* MailIngest for TLC: a mail for each way of naming a lot, among them one *)
(* whose address and subject disagree and one whose subject fits two lots. *)
EXTENDS MailIngest

CONSTANTS l1, l2

SomeMails ==
    {[address |-> l1, subject |-> {l2}], [address |-> NoLot, subject |-> {l1, l2}],
     [address |-> NoLot, subject |-> {}], [address |-> Unknown, subject |-> {l1}]}
=============================================================================
