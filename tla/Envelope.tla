------------------------------ MODULE Envelope ------------------------------
(***************************************************************************)
(* The envelope's status machine: the pure part of hermes/envelope, that   *)
(* every store operation and handler consults before it writes.            *)
(*                                                                         *)
(* A proof is a map from keys to texts.  Two facts about a text matter:    *)
(* whether the key is there at all, and whether its text is empty.         *)
(***************************************************************************)

CONSTANT ProofKeys  \* the keys a task may require, or an executor may send

Status == {"created", "delivered", "read", "in_progress", "paused", "blocked",
           "awaiting_confirm", "done", "failed", "lost"}

Terminal == {"done", "failed", "lost"}

IsTerminal(s) == s \in Terminal

Known(s) == s \in Status

Proofs == [ProofKeys -> {"absent", "empty", "given"}]

NoProof == [k \in ProofKeys |-> "absent"]

\* No value of the map is the empty text, for required keys and all others.
ValidateProofValues(proof) == \A k \in ProofKeys : proof[k] # "empty"

HasRequired(required, proof) == \A k \in required : proof[k] # "absent"

\* Mutant: the stored proof is replaced instead of merged.
MergeProof_Replaces(old, sent) == sent

\* UpdateStatus merges what the caller sent over what the row already holds.
MergeProof(old, sent) ==
  [k \in ProofKeys |-> IF sent[k] = "absent" THEN old[k] ELSE sent[k]]

\* env has the fields status, proofRequired and proof.
CanTransition(env, next) ==
  /\ ~ IsTerminal(env.status)
  /\ Known(next)
  /\ next = "done" =>
       /\ HasRequired(env.proofRequired, env.proof)
       /\ ValidateProofValues(env.proof)
=============================================================================
