---------------------------- MODULE MCChatClient ----------------------------
(* TLC instance of ChatClient: two streams and two loads are enough for every  *)
(* overlap; a third conversation tells an old one from the two that overlap.    *)
EXTENDS ChatClient, TLC

Symmetry == Permutations(Streams) \union Permutations(Gets) \union Permutations(Convs)
=============================================================================
