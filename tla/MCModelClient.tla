--------------------------- MODULE MCModelClient ---------------------------
(* Two workflows and two providers; one workflow has two scenarios in a    *)
(* batch, so that an answer can leave one out.                             *)
EXTENDS ModelClient, TLC
CONSTANTS groq, groqFallback, a1, a2, s1, s2
MCListed == <<groq, groqFallback>>
MCWork == (a1 :> <<{s1, s2}>>) @@ (a2 :> <<{s1}>>)
=============================================================================
