----------------------------- MODULE MCFraming -----------------------------
(* An instance of Framing for TLC. *)
EXTENDS Framing

\* A delimiter that overlaps itself: one that crosses two chunks can match at
\* more than one place.
LongDelimiter == <<"a", "a", "a">>
=============================================================================
