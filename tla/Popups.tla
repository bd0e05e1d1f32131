------------------------------- MODULE Popups -------------------------------
(***************************************************************************)
(* The popup of the terminal window as its commands use it                  *)
(* (internal/runtime/tui/handlerPopup.go): a page with the pages esc goes   *)
(* back to, the popupChild message that carries a choice to its handler     *)
(* after the page has closed, and the prompts of a run that wait behind it. *)
(*                                                                         *)
(* A page is named by its step and by what it is about; what it looks like, *)
(* its cursor, tabs and filter are left out.  TuiWindow has the runs behind *)
(* the prompts; here they only come and are settled.  A command takes       *)
(* several keys: it is typed when no choice is on its way.                  *)
(***************************************************************************)
EXTENDS Integers, SequencesExt

CONSTANTS
    None,
    MaxPrompts   \* prompts a run asks meanwhile

ASSUME PromptAssumption == MaxPrompts \in Nat

VARIABLES
    popup,    \* the page on the screen, last, and the pages behind it (Popup.back)
    child,    \* popupChild on its way: the page it comes from with those behind, and the choice
    queue,    \* popupQueue: prompts that wait
    prompted  \* prompts so far

popupVars == <<popup, child, queue, prompted>>

\* no is told apart by pointers in the code: the loading page of a list.
Page(step, of, via) == [step |-> step, of |-> of, via |-> via, no |-> 0, ids |-> {}]

Prompt == Page("prompt", None, None)

Top == Last(popup)

\* Two pages of one step have different titles when they are about different things; the
\* gateway is picked and typed under one title.
Title(p) == <<IF p.step = "gatewayid" THEN "gateway" ELSE p.step, p.of>>

\* runPopupChild: the new page goes before the page it came from, or before the last one of
\* its title, which it replaces with all that followed.
Push(parent, p) ==
    LET same == {i \in DOMAIN parent : Title(parent[i]) = Title(p)}
    IN  IF same = {} THEN Append(parent, p)
        ELSE Append(SubSeq(parent, 1, Max(same) - 1), p)

PopupInit == popup = <<>> /\ child = None /\ queue = 0 /\ prompted = 0

\* closePopup: the next prompt in the queue opens at once.
ClosePopup ==
    /\ popup' = IF queue > 0 THEN <<Prompt>> ELSE <<>>
    /\ queue' = IF queue > 0 THEN queue - 1 ELSE 0

\* Enter, or d, on a page that has a handler: it closes and its choice follows.
Choose(arg) ==
    /\ child' = [from |-> popup, arg |-> arg]
    /\ ClosePopup
    /\ UNCHANGED prompted

\* The choice of a page of this step reaches its handler.
Chosen(step) == child # None /\ popup = <<>> /\ Last(child.from).step = step

\* The handler's page: the choice led to it.
Open(step, of) == popup' = Push(child.from, Page(step, of, child.arg))

\* escapePopup, on a page that is not a prompt nor a login.
Escape ==
    /\ popup # <<>> /\ Top.step \notin {"prompt", "oauth", "mcplogin"}
    /\ IF Len(popup) > 1
       THEN popup' = Front(popup) /\ UNCHANGED queue
       ELSE ClosePopup
    /\ UNCHANGED <<child, prompted>>

\* A prompt is answered or refused.
Settle ==
    /\ popup # <<>> /\ Top.step = "prompt"
    /\ ClosePopup
    /\ UNCHANGED <<child, prompted>>

\* Pending: shown, or queued behind the page that is open.
Pending ==
    /\ prompted < MaxPrompts
    /\ prompted' = prompted + 1
    /\ IF popup = <<>> THEN popup' = <<Prompt>> /\ UNCHANGED queue
       ELSE queue' = queue + 1 /\ UNCHANGED popup
    /\ UNCHANGED child

\* Update has no case for a popupChild while a popup is open.
Dropped ==
    /\ child # None /\ popup # <<>>
    /\ child' = None
    /\ UNCHANGED <<popup, queue, prompted>>
=============================================================================
