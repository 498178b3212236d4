--------------------------- MODULE MCMemberLists ---------------------------
(* Member lists on small tables: all well-formed images of up to MaxOwners  *)
(* owners and MaxMembers members, and all calls that fit.                   *)
EXTENDS MemberLists
============================================================================
