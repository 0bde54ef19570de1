-------------------------- MODULE MCSearchSessions --------------------------
(***************************************************************************)
(* A small instance of SearchSessions: one search more than there may be   *)
(* sessions, two seat-map requests, and a budget of two browsers that the  *)
(* booking worker shares.                                                  *)
(***************************************************************************)
EXTENDS SearchSessions

CONSTANTS s1, s2, v1, v2
=============================================================================
