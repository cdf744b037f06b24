---------------------------- MODULE MCRoomServer ----------------------------
(* RoomServer for the model checker.  Connections, users and rooms only    *)
(* differ by name, so the safety runs use their symmetry.  No step reads   *)
(* out, which the previous step wrote: two states that differ only in out  *)
(* have the same future, and the view leaves it aside.  The invariants do  *)
(* not mention out; the action properties that do are checked on every     *)
(* step, whether its state is new or not.                                  *)
EXTENDS RoomServer, TLC

Symmetry == Permutations(Conns) \cup Permutations(Users) \cup Permutations(Rooms)

StateWithoutOut == <<tcpVars, roomVars, hostVars, monitor, kick, roster>>
=============================================================================
