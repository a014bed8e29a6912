--------------------------- MODULE MCFriendChallenge ---------------------------
(* An instance of FriendChallenge for TLC; players, rows and handlers are alike. *)
EXTENDS FriendChallenge, TLC

Alike == Permutations(Players) \cup Permutations(Requests) \cup Permutations(Handlers) 
=============================================================================
