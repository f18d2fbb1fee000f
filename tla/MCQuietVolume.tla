--------------------------- MODULE MCQuietVolume ---------------------------
(* QuietVolume over a few volumes and at most two frequencies; the numbers  *)
(* are in the configurations, 255 standing for NoVolume.                     *)
EXTENDS QuietVolume, TLC

FreqSymmetry == Permutations(Freqs)

\* Nothing is claimed of a run after the volume was lost.
NothingLost == ~givenUp /\ ~overtaken
=============================================================================
