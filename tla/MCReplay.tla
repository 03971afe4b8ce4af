------------------------------ MODULE MCReplay ------------------------------
(* An instance of ActionReplay for TLC: a page without two elements alike. *)
EXTENDS ActionReplay

RpLook(tag, id, name, ax) == [tag |-> tag, id |-> id, name |-> name, ax |-> ax, class |-> "btn"]
MCRpLooks ==
  [save |-> RpLook("button", "", "", "Save"), ad |-> RpLook("button", "", "", "Ad"),
   mail |-> RpLook("input", "m", "mail", "")]
RpStep(kind, index) == [kind |-> kind, index |-> index]
MCRpOriginals == {<<"save", "mail">>}
MCRpHistories == {<<RpStep("click", 1), RpStep("click", 2)>>}
RpSpec == RpInit /\ [][RpNext]_rpVars
=============================================================================
