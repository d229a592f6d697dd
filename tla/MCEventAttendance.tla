---- MODULE MCEventAttendance ----
(* Three events, of which a sweep takes two.  Event 1 has no fence, so that cal waits
   to be marked by hand; ann's device, at event 2, posts in two parts, the second
   without the id of the event; bob's readings, at event 3, miss the fence. *)
EXTENDS EventAttendance, TLC

CONSTANTS ann, bob, cal, early, late, stray, s1, d1

AllEvents == {1, 2, 3}
Volunteers == {ann, bob, cal}
At == cal :> 1 @@ ann :> 2 @@ bob :> 3
Posts == {early, late, stray}
From == early :> ann @@ late :> ann @@ stray :> bob
Whole == {{early, late}, {stray}}
ByHand == {{ann, bob}, {cal}}
====
