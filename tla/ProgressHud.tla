----------------------------- MODULE ProgressHud -----------------------------
(***************************************************************************)
(* The progress indicator all controllers of ChipChat share                *)
(* (Utils/Extensions.swift, UIViewController.hud): a JGProgressHUD with a  *)
(* weak reference to the view it covers.  Showing and dismissing it are    *)
(* animated, and a call that comes during an animation is not queued: a    *)
(* show is dropped, a dismissal is remembered only until the end of an     *)
(* appearance.                                                             *)
(***************************************************************************)
CONSTANT NoView   \* the indicator has no target view

Phase == {"hidden", "appearing", "shown", "leaving"}

\* view: the target view; again: was a dismissal asked for during an animation?
Indicator(View) == [view : View \cup {NoView}, phase : Phase, again : BOOLEAN]

Hidden == [view |-> NoView, phase |-> "hidden", again |-> FALSE]

Moving(h) == h.phase \in {"appearing", "leaving"}

\* showProgressHud(true) in the view v.
Show(h, v) ==
  IF Moving(h) \/ h.view # NoView
  THEN h
  ELSE [view |-> v, phase |-> "appearing", again |-> FALSE]

\* showProgressHud(false), from any controller.
Dismiss(h) ==
  CASE Moving(h)          -> [h EXCEPT !.again = TRUE]
    [] h.phase = "shown"  -> [h EXCEPT !.phase = "leaving"]
    [] h.phase = "hidden" -> h

\* The end of an animation.
Settled(h) ==
  IF h.phase = "leaving" \/ h.view = NoView
  THEN Hidden
  ELSE [h EXCEPT !.phase = IF h.again THEN "leaving" ELSE "shown", !.again = FALSE]

\* The view v is deallocated.
Released(h, v) ==
  IF h.view # v THEN h
  ELSE IF h.phase = "shown" THEN Hidden ELSE [h EXCEPT !.view = NoView]

\* The indicator takes every touch of the view it covers.  While it is animated
\* UIKit lets touches through.
Blocks(h, v) == h.view = v /\ h.phase = "shown"
=============================================================================
