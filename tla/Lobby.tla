-------------------------------- MODULE Lobby --------------------------------
(***************************************************************************)
(* The life of one match: what match_handler.go promises to matchmaking,   *)
(* whatever happens in the fight.  Shooter implements this specification.  *)
(***************************************************************************)
EXTENDS LobbyState

CONSTANT Users

VARIABLE lobby

Init == lobby = NewLobby

Enter == \E U \in SUBSET Users : U # {} /\ lobby' = Entered(lobby, U)

Exit == \E U \in SUBSET Users : lobby' = Exited(lobby, U)

Decide == lobby.started /\ ~lobby.over /\ lobby' = Decided(lobby)

Close == MayClose(lobby) /\ lobby' = Closed(lobby)

Next == lobby.life = "up" /\ (Enter \/ Exit \/ Decide \/ Close)

Spec == Init /\ [][Next]_lobby
=============================================================================
