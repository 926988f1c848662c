------------------------------- MODULE MCScreens ------------------------------
EXTENDS Screens, TLC

(* Two boards with a tag each; a category, or a building, for each of two. *)
MCTagsOf == [b \in Boards |-> {b}]
MCRoomsOf == [b \in Buildings |-> {b}]
MCCategoryOf ==
  CHOOSE f \in [Ids -> Categories] : \A a, b \in Ids : a # b => f[a] # f[b]
===============================================================================
