------------------------------ MODULE MCMapping ------------------------------
(***************************************************************************)
(* A small instance of Mapping.  The axes read -8 .. 7 for -32768 ..       *)
(* 32767.  The quick mapping's three distances keep their scale; of the    *)
(* calibration's two only the order counts.                                *)
(***************************************************************************)
EXTENDS Mapping

MCLowest == -8
MCPositions == {-8, 0, 7}

\* What no step reads before it is written again, and no property of the run
\* speaks of beyond its type, is left out: what the page is told; the quick
\* mapping's progress once the pump has found the device gone; its record of
\* the gesture when no control is armed; whether a template was applied once
\* the device was sampled; the evidence of a step that has ended; what a
\* device reads while the calibration offers nothing.
QuickView ==
    IF ~connected \/ (batch # Nil /\ ~batch.connected) THEN <<connected, bindings>>
    ELSE <<device, drained, batch, quickAxes, quickButtons, bindings, armed,
           IF armed = Nil THEN Nil
           ELSE <<window, status, atArm, settled, reach, struck>> >>

GuidedView ==
    <<state, draft, control, engaged, IF state = "neutral" THEN template ELSE Nil,
      centers, noise, base,
      IF state # "capturing" THEN Nil
      ELSE <<candidate, least, most, changed, stable, count, age, visited,
             IF candidate = Nil THEN Nil ELSE <<rawAxes, rawButtons>> >> >>

MCView == <<moving, QuickView, GuidedView>>

==============================================================================
