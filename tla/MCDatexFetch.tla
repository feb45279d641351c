---------------------------- MODULE MCDatexFetch ----------------------------
(***************************************************************************)
(* DatexFetch with replies that show, blank and drop signs, and replies    *)
(* that are defective: a null element, a sign without its id before or     *)
(* after another, an image that does not decode.                           *)
(***************************************************************************)
EXTENDS DatexFetch

Lights(id) == [id |-> id, shows |-> "lit", image |-> "ok"]
Blank(id) == [id |-> id, shows |-> "blank", image |-> "ok"]
BadImage(id) == [id |-> id, shows |-> "lit", image |-> "bad"]

MCReplies ==
    { <<>>,
      <<Lights("s1")>>,
      <<Lights("s1"), Blank("s2")>>,
      <<Blank("s1"), Lights("s2")>>,
      <<Blank(NullSign), Lights("s1")>>,
      <<Lights(NoId), Lights("s1")>>,
      <<Lights("s2"), Blank(NoId)>>,
      <<BadImage("s1")>> }
=============================================================================
