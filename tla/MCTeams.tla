------------------------------ MODULE MCTeams ------------------------------
EXTENDS Teams

(* A member list: the roles of users 1, 2 and 3; user 4 is not listed.     *)
List(a, b, c) == <<a, b, c, NotMember>>

MCLists == {List(0, 0, 3), List(0, 0, 1), List(0, 1, 0)}
MCInitLists == {List(0, 1, 0)}
=============================================================================
