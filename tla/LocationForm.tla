----------------------------- MODULE LocationForm -----------------------------
(* The location of a device as the two forms edit it (device-detail.tsx,       *)
(* device-new.tsx): a type, a level and a room, where a type other than "room" *)
(* keeps the room that was picked before.                                      *)
EXTENDS Naturals

CONSTANTS
  Rooms, NoRoom,
  RoomLevel,   \* the level of each room
  NoLevel

FloorLevels == {RoomLevel[r] : r \in Rooms}

Locations == [type : {"", "site", "floor", "room"}, level : FloorLevels \union {NoLevel}, room : Rooms \union {NoRoom}]
NoLocation == [type |-> "", level |-> NoLevel, room |-> NoRoom]

(* What the server keeps for a device.                                         *)
Placed ==
  {NoLocation, [NoLocation EXCEPT !.type = "site"]}
    \union {[type |-> "floor", level |-> l, room |-> NoRoom] : l \in FloorLevels}
    \union {[type |-> "room", level |-> RoomLevel[r], room |-> r] : r \in Rooms}

setLocationType(f, t) ==
  IF t = "site" THEN [NoLocation EXCEPT !.type = "site"] ELSE [f EXCEPT !.type = t]

(* Mutant: another floor keeps the room.                                       *)
LevelKeepsRoom(f, l) == [f EXCEPT !.level = l]

setSelectedLevel(f, l) == [f EXCEPT !.level = l, !.room = NoRoom]

setSelectedRoomId(f, r) == [f EXCEPT !.room = r]

(* The forms after one more click: the floor is offered for a floor or a room, *)
(* the rooms are those of the level.                                           *)
Edits(f) ==
  {setLocationType(f, t) : t \in {"site", "floor", "room"}}
    \union (IF f.type \in {"floor", "room"} THEN {setSelectedLevel(f, l) : l \in FloorLevels \union {NoLevel}} ELSE {})
    \union (IF f.type = "room" /\ f.level # NoLevel
            THEN {setSelectedRoomId(f, r) : r \in {q \in Rooms : RoomLevel[q] = f.level} \union {NoRoom}} ELSE {})

Complete(f) ==
  /\ f.type # ""
  /\ f.type = "floor" => f.level # NoLevel
  /\ f.type = "room" => f.level # NoLevel /\ f.room # NoRoom

(* A room is never named with the level of another one.                        *)
Fits(f) == f.room # NoRoom => f.level = RoomLevel[f.room]

=============================================================================
