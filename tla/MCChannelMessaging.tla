------------------------- MODULE MCChannelMessaging -------------------------
(* Two messages of one user, the first of which asks for an approval; the    *)
(* user presses to allow it, a bystander to deny it.                         *)
EXTENDS ChannelMessaging
CONSTANTS m1, m2, user, bystander
MCMessages == {m1, m2}
MCApprovals == {m1}
MCRows == {m1, m2, <<"approval", m1>>}
MCPresses == { [of |-> m1, decision |-> "allow", sender |-> user],
               [of |-> m1, decision |-> "deny", sender |-> bystander] }
=============================================================================
