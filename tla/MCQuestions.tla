---------------------------- MODULE MCQuestions ----------------------------
(***************************************************************************)
(* Bounds for model checking Questions.                                    *)
(***************************************************************************)
EXTENDS Questions, TLC

CONSTANTS soon, late

\* A question that expires with the next tick and one that takes another.
MCTimeout == soon :> 0 @@ late :> 1

Bounds(post, answer, check, kill) ==
    [post |-> post, answer |-> answer, check |-> check, kill |-> kill]

MCLimit == Bounds(2, 1, 2, 1)
=============================================================================
