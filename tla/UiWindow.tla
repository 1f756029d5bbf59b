------------------------------- MODULE UiWindow -------------------------------
(***************************************************************************)
(* The widget tree of a companion window, as far as lifetimes go.  Pages   *)
(* are rebuilt from inside the callbacks of their own widgets, so the      *)
(* scroll view keeps the content it just replaced alive until the next     *)
(* replacement.  A widget is named by what it is and by how many pages     *)
(* have been built since its own: 0 is on screen, 1 is retired and still   *)
(* alive, 2 has been freed.                                                *)
(***************************************************************************)
LOCAL INSTANCE Naturals

NoWidget == [what |-> "none", age |-> 0]
Widget(w) == [what |-> w, age |-> 0]
Freed == 2

Aged(w) ==
    IF w.what = "none" \/ w.age = Freed THEN w ELSE [w EXCEPT !.age = @ + 1]

NoTree == [pressed |-> NoWidget, focus |-> NoWidget, faulted |-> "none"]

(* A call on a widget; on one that was freed anything may happen.          *)
Touch(u, w) == IF w.age = Freed THEN [u EXCEPT !.faulted = w.what] ELSE u

WantsFocus(w) == w.what = "search"

IsInteracting(u) == u.pressed.what # "none" \/ u.focus.what # "none"

(* OnBlur on whatever had the focus.                                       *)
ClearFocus(u) == [Touch(u, u.focus) EXCEPT !.focus = NoWidget]

SetFocus(u, w) ==
    IF w = u.focus THEN u
    ELSE [Touch(u, u.focus) EXCEPT !.focus = IF WantsFocus(w) THEN w ELSE NoWidget]

(* ScrollView::SetContent: the content before the last one goes now.       *)
SetContent(u) == [u EXCEPT !.pressed = Aged(@), !.focus = Aged(@)]

(* The whole tree retires as one; nothing points into it any more.         *)
SetRoot(u) == [ClearFocus(u) EXCEPT !.pressed = NoWidget]

HandlePress(u, w) == SetFocus([u EXCEPT !.pressed = w], w)

(* What is left once the pressed widget's OnRelease has returned into it.  *)
HandleRelease(u) == [Touch(u, u.pressed) EXCEPT !.pressed = NoWidget]
=============================================================================
