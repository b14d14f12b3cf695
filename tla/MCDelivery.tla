------------------------------ MODULE MCDelivery ------------------------------
(***************************************************************************)
(* The instance of module Delivery for TLC: drafts with and without HTML,  *)
(* a picture and a file, whose boundaries are drawn apart or too fast; and *)
(* letters of up to two lines, with lone dots, bare line feeds and no end  *)
(* of line at the end.                                                     *)
(***************************************************************************)
EXTENDS Delivery

MCDrafts ==
  [text : {1}, html : BOOLEAN, pictures : 0 .. 1, files : 0 .. 1,
   clock : {<<1, 2, 3>>, <<1, 1, 1>>}]

LastLines ==
  [dots : 0 .. 2, is : {"blank", "plain"}, boundary : {0}, end : {"crlf", "lf", "none"}] \ {Nothing}

MCRaws == {<<>>} \cup {<<l>> : l \in LastLines} \cup {<<Lone, l>> : l \in LastLines}
==============================================================================
