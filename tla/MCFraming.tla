----------------------------- MODULE MCFraming -----------------------------
(* The instance of Framing that TLC checks: an empty text, a short one and *)
(* one that reads as a length.                                             *)
EXTENDS Framing

MCTexts == {<<>>, <<200>>, <<1, 1, 1, 1>>}
=============================================================================
