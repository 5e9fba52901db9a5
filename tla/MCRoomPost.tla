----------------------------- MODULE MCRoomPost -----------------------------
(* Instances of RoomPost: one form, two calls of addRooms.                  *)
EXTENDS RoomPost
=============================================================================
