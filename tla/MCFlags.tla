------------------------------ MODULE MCFlags ------------------------------
(***************************************************************************)
(* Two flags that differ in case; edits of nothing, of the flag, of the    *)
(* case sensitivity and of the type, with a flag or without.               *)
(***************************************************************************)
EXTENDS Flags

CONSTANTS FLAG, flag

MCTexts == {FLAG, flag}
MCLower == [t \in MCTexts |-> flag]

Ask(regex, sensitive, text) == [regex |-> regex, sensitive |-> sensitive, flag |-> text]

MCRequests == {Ask(None, None, None), Ask(None, TRUE, None), Ask(FALSE, FALSE, FLAG),
               Ask(FALSE, TRUE, flag), Ask(TRUE, None, flag)}
MCAuthored == {Ask(FALSE, TRUE, FLAG), Ask(TRUE, FALSE, flag)}

=============================================================================
