--------------------------- MODULE OrderedStream ---------------------------
(***************************************************************************)
(* What a team terminal promises about one direction of its traffic: the   *)
(* receiver is given what the sender sealed, in the order in which it was  *)
(* sealed, each piece once.  It may stop at any point; it never jumps over *)
(* a piece and goes on.                                                    *)
(***************************************************************************)
EXTENDS Naturals

VARIABLES
    sent,  \* pieces sealed so far
    given  \* pieces the receiver was given

streamVars == <<sent, given>>

StreamInit == sent \in Nat /\ given \in 0..sent

Seal == sent' = sent + 1 /\ UNCHANGED given

Give == given < sent /\ given' = given + 1 /\ UNCHANGED sent

StreamSpec == StreamInit /\ [][Seal \/ Give]_streamVars
=============================================================================
