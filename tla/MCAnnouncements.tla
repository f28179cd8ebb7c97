--------------------------- MODULE MCAnnouncements ---------------------------
(* Instance of Announcements for TLC: requests and residents are                *)
(* interchangeable.                                                           *)
EXTENDS Announcements, TLC

CommunitySymmetry == Permutations(Requests) \cup Permutations(Residents)
=============================================================================
