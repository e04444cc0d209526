--------------------------- MODULE MCEpisodeSession ---------------------------
(* EpisodeSession on a few episodes. *)
EXTENDS EpisodeSession

=============================================================================
