----------------------------- MODULE MCFilmStart -----------------------------
(* Two starts, what may interrupt them, and a worker that answers late.       *)
EXTENDS FilmStart

MCAsides == {Back, SourceLost, Handoff}
=============================================================================
