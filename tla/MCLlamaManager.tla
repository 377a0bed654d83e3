---------------------------- MODULE MCLlamaManager ----------------------------
(* The host manager of Llama on small instances. *)
EXTENDS LlamaManager

ReleaseOrder == <<"v1", "v2">>

\* The plans that wait.  One that is still good when another operation has gone
\* on could as well have been made after it: from any tree, at any time.
WaitingMatters ==
    asked # Idle => Current(asked) /\ (op = Idle \/ op.pc = "preflight")
=============================================================================
