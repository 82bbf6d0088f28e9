----------------------------- MODULE MCImporter -----------------------------
(* Instances of Importer for model checking. *)
EXTENDS Importer, TLC

CONSTANTS p, q, r, x, c, g, a

Carries(exports, completions, governance) ==
    [exports |-> exports, completions |-> completions, governance |-> governance]

\* p carries an export and a proposal; q the same export, a completion and the
\* acknowledgment of that proposal; r, where there is one, a completion.
MixedProofs ==
    [n \in Package |-> CASE n = p -> Carries(<<x>>, <<>>, <<g>>)
                         [] n = q -> Carries(<<x>>, <<c>>, <<a>>)
                         [] OTHER -> Carries(<<>>, <<c>>, <<>>)]

\* p carries a proposal, q its acknowledgment, r a completion.
SeparateProofs ==
    [n \in Package |-> CASE n = p -> Carries(<<>>, <<>>, <<g>>)
                         [] n = q -> Carries(<<>>, <<>>, <<a>>)
                         [] OTHER -> Carries(<<>>, <<c>>, <<>>)]

AckOfProposal == (a :> g)
=============================================================================
