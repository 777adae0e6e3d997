------------------------------ MODULE MCPrompt ------------------------------
(* A small instance of Prompt for TLC. *)
EXTENDS Prompt

CONSTANTS Billing, Identity, Rules

\* As Claude Code sends it, with two anchors; with one; and with none.
SomeSystems == {<<Billing, Identity, Rules>>, <<Billing, Rules>>, <<Rules>>}
SomeAnchors == {Billing, Identity}
=============================================================================
