--------------------------- MODULE MCBindingSync ---------------------------
(* Instances of BindingSync for TLC. *)
EXTENDS BindingSync

CONSTANTS token1, token2, push1

OneToken   == {token1}
TwoTokens  == {token1, token2}
OnePush    == {push1}

\* A node reached by the reverse tunnel.
Tunnelled == {[enabled |-> TRUE, tunnel |-> TRUE]}
=============================================================================
