------------------------------ MODULE MCGroupCache ------------------------------
(* Instances of GroupCache for TLC. *)
EXTENDS GroupCache

CONSTANTS a, b, r

\* b comes and goes: by joining, by an approved request and by removal, while its role
\* is changed and its rooms and the members (by RequestJoin) are asked for.
Requests ==
  { Join(r, b), RequestJoin(r, b), RespondJoinRequest(r, b, TRUE, a), Query(b),
    AddRoomMember(r, b, a), AddRoomMembers(r, <<b>>, a), RemoveRoomMember(r, b, a),
    ChangeMemberRole(r, b, a) }
ListOfB == {<<b>>}
Created == {[room |-> r, creator |-> b, members |-> << >>]}
================================================================================
