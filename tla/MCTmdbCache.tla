---------------------------- MODULE MCTmdbCache ----------------------------
(***************************************************************************)
(* One request thread, two languages, three groups of which the first does *)
(* not qualify, one recommended title.                                     *)
(***************************************************************************)
EXTENDS TmdbCache

MCGroups == <<"broadcast", "disc", "story">>

MCTitles == <<"dune">>
=============================================================================
