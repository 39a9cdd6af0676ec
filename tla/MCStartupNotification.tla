------------------------ MODULE MCStartupNotification ------------------------
(* Instances of StartupNotification for TLC. *)
EXTENDS StartupNotification

CONSTANTS s1, s2

TwoIds    == {s1, s2}
Symmetric == Permutations(Ids)
=============================================================================
