------------------------------- MODULE MCMailbox -------------------------------
(* Values for model checking Mailbox.                                          *)
EXTENDS Mailbox

CONSTANTS m1, m2, address, domain

\* One sender has a filter for the address, all of them one for the domain.
MCMatches == [x \in Filters |-> IF x = address THEN {m1} ELSE {m1, m2}]
=============================================================================
