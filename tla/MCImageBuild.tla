----------------------------- MODULE MCImageBuild -----------------------------
(***************************************************************************)
(* Model checking of ImageBuild: two workers share a docker host and a      *)
(* third has its own; of three requests two have names that are the same    *)
(* when sanitized, one project being called like the fallback of the other, *)
(* and commits that begin in the same way; the third has another commit.    *)
(***************************************************************************)
EXTENDS ImageProperties, TLC

CONSTANTS w1, w2, w3, h1, h2

MCHostOf == (w1 :> h1) @@ (w2 :> h1) @@ (w3 :> h2)

Request(project, service, commit) ==
  [project |-> project, service |-> service, commit |-> commit]

\* The workers that share a host are interchangeable.
Symmetry == Permutations({w1, w2})

MCRequests ==
  {Request(<<"#">>, <<"-", "a", "#", "-", "b", "#">>, <<1, 1>>),
   Request(<<"b", "b">>, <<"a", "-", "b">>, <<1, 2>>),
   Request(<<"#">>, <<"a", "-", "b">>, <<2>>)}

=============================================================================
