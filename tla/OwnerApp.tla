------------------------------ MODULE OwnerApp ------------------------------
(***************************************************************************)
(* One page of the owner app (public/app.js, owner-runtime.mjs) between    *)
(* the owner's eyes and the control plane: it fetches the window the hash  *)
(* names, paints it, confirms the showing, and offers the veto.            *)
(*                                                                         *)
(* Every handler of the page runs to its next await.  A navigation changes *)
(* location.hash at once and its hashchange event comes later; the review  *)
(* is split where the code awaits the network, two frames, the digest, the *)
(* key and the signature; the owner leaves, returns, navigates and clicks  *)
(* between any two of these, other devices veto and time passes.           *)
(*                                                                         *)
(* Abstracted: renderGen is only ever compared with what it was, so each   *)
(* promise keeps instead whether it is of the present generation; the text *)
(* of a window is the window; the document is top-level (a framed one      *)
(* fetches nothing); the control plane's own conditions for a delivery and *)
(* for its confirmation are in VetoLane.tla and may here fail at will.     *)
(***************************************************************************)
EXTENDS FiniteSets, Naturals

CONSTANTS
    Windows,     \* veto windows the hash may name
    Nothing,     \* a hash without a window; no text painted; no window armed
    MaxReviews,  \* bound on unfinished reviews of the page (model bound)
    MaxVetoes,   \* bound on unanswered vetoes of the page (model bound)
    MaxAcks      \* bound on confirmations under way (model bound)

ASSUME NothingAssumption == Nothing \notin Windows
ASSUME BoundAssumption ==
    /\ MaxReviews \in Nat \ {0} /\ MaxVetoes \in Nat \ {0} /\ MaxAcks \in Nat \ {0}

VARIABLES
    window,            \* the control plane's veto windows
    hash, heard,       \* location.hash, and whether its last change was handled
    visible, focused,  \* visibilityState = "visible", hasFocus()
    runtime,           \* the page's one import of owner-runtime.mjs
    painted,           \* the window whose text the kv- nodes hold, and how
    button,            \* the shared veto button
    reviews,           \* reviews under way: routeAlert's promise chains
    vetoes, acks       \* requests under way

surface == <<hash, heard, visible, focused, runtime>>
promises == <<reviews, vetoes>>
vars == <<window, surface, painted, button, promises, acks>>

-----------------------------------------------------------------------------
(* The control plane.                                                      *)

\* A deadline ends a window (an extension only moves it: VetoLane.tla).
Pass(w) ==
    /\ window[w] = "open"
    /\ window' = [window EXCEPT ![w] = "ended"]
    /\ UNCHANGED <<surface, painted, button, promises, acks>>

\* Another device or channel vetoes.
VetoElsewhere(w) ==
    /\ window[w] = "open"
    /\ window' = [window EXCEPT ![w] = "vetoed"]
    /\ UNCHANGED <<surface, painted, button, promises, acks>>

-----------------------------------------------------------------------------
(* The generation of the page's promises.                                  *)

Stale(S) == {[x EXCEPT !.current = FALSE] : x \in S}

\* The owner no longer sees what these reviews painted.
Unseen(R) == {[r EXCEPT !.seen = FALSE] : r \in R}

ButtonReset == [label |-> "VETO", enabled |-> FALSE, win |-> Nothing, current |-> FALSE]
Armed(w) == [label |-> "VETO", enabled |-> TRUE, win |-> w, current |-> TRUE]

\* The surface is left: ++renderGen, and nothing else.
InvalidateRender ==
    /\ reviews' = Unseen(Stale(reviews)) /\ vetoes' = Stale(vetoes)
    /\ button' = [button EXCEPT !.current = FALSE]

\* Of a review the model also keeps (history) whether what it painted was in
\* view for two frames and has been since.
Review(w, step) ==
    [win |-> w, current |-> TRUE, step |-> step, delivery |-> FALSE, seen |-> FALSE]

\* The window the hash names is fetched as soon as the runtime is there.  The
\* import is kept by the page, and so is its rejection, which nothing catches:
\* after it no review of this page begins.
Begun(h, import) ==
    {Review(w, IF import = "loaded" THEN "asked" ELSE "loading") :
        w \in {v \in {h} \ {Nothing} : import /= "failed"}}

\* The former review is over and its button is wiped.
RouteAlert(h) ==
    /\ Cardinality(reviews) < MaxReviews
    /\ reviews' = Stale(reviews) \union Begun(h, runtime)
    /\ vetoes' = Stale(vetoes)
    /\ button' = ButtonReset

-----------------------------------------------------------------------------
(* The owner and the browser.                                              *)

\* A tap on a notification (sw.js) or a link moves the page to another window.
Navigate(h) ==
    /\ h /= hash
    /\ hash' = h /\ heard' = FALSE
    /\ UNCHANGED <<window, visible, focused, runtime, painted, button, promises, acks>>

HashChange ==
    /\ ~heard
    /\ heard' = TRUE
    /\ RouteAlert(hash)
    /\ UNCHANGED <<window, hash, visible, focused, runtime, painted, acks>>

Hide ==
    /\ visible
    /\ visible' = FALSE
    /\ InvalidateRender
    /\ UNCHANGED <<window, hash, heard, focused, runtime, painted, acks>>

Blur ==
    /\ focused
    /\ focused' = FALSE
    /\ InvalidateRender
    /\ UNCHANGED <<window, hash, heard, visible, runtime, painted, acks>>

\* Mutant: coming back to the page does not fetch the window again.
ShowUnrouted ==
    /\ ~visible
    /\ visible' = TRUE
    /\ InvalidateRender
    /\ UNCHANGED <<window, hash, heard, focused, runtime, painted, acks>>

Show ==
    /\ ~visible
    /\ visible' = TRUE
    /\ RouteAlert(hash)
    /\ UNCHANGED <<window, hash, heard, focused, runtime, painted, acks>>

Focus ==
    /\ ~focused
    /\ focused' = TRUE
    /\ RouteAlert(hash)
    /\ UNCHANGED <<window, hash, heard, visible, runtime, painted, acks>>

\* The page is closed and opened on a window (sw.js, openWindow): its promises
\* are gone, the requests that left are not.
OpenPage(h) ==
    /\ hash' = h /\ heard' = TRUE /\ visible' = TRUE /\ focused' = TRUE
    /\ runtime' = "pending" /\ painted' = [win |-> Nothing, as |-> "blank"]
    /\ reviews' = Begun(h, runtime')
    /\ vetoes' = {} /\ button' = ButtonReset
    /\ UNCHANGED <<window, acks>>

-----------------------------------------------------------------------------
(* The page's import of owner-runtime.mjs, by a review or by another tab.   *)

\* Every review that waited asks for its window, the superseded ones too.
RuntimeLoaded ==
    /\ runtime = "pending"
    /\ runtime' = "loaded"
    /\ reviews' = {[r EXCEPT !.step = "asked"] : r \in reviews}
    /\ UNCHANGED <<window, hash, heard, visible, focused, painted, button, vetoes, acks>>

\* They end, and the owner is told nothing.
RuntimeFailed ==
    /\ runtime = "pending"
    /\ runtime' = "failed"
    /\ reviews' = {}
    /\ UNCHANGED <<window, hash, heard, visible, focused, painted, button, vetoes, acks>>

-----------------------------------------------------------------------------
(* A review, from fetch to confirmation.                                   *)

Moved(r, s) == (reviews \ {r}) \union {s}

\* ackableContent(): whether a window can be shown in full, exactly as it will
\* be confirmed.  Texts too long or unsafe to display cannot.
Ackable == BOOLEAN

\* GET /veto/:id/detail: an open window comes with a delivery, unless it
\* cannot be confirmed.
DetailServed(r) ==
    /\ r.step = "asked"
    /\ \E ackable \in Ackable : LET delivery == window[r.win] = "open" /\ ackable IN
         reviews' = Moved(r, [r EXCEPT !.step = "fetched", !.delivery = delivery])
    /\ UNCHANGED <<window, surface, painted, button, vetoes, acks>>

Superseded(x) == ~x.current

\* displayEnvelope(): the exact fields, or stripped ones beside a note.
Display(delivery) == IF delivery THEN "envelope" ELSE "display"

\* The fields are painted as text and the button is armed for them.  Only a
\* window with a delivery is to be confirmed.
Render(r) ==
    /\ r.step = "fetched" /\ ~Superseded(r)
    /\ painted' = [win |-> r.win, as |-> Display(r.delivery)]
    /\ button' = Armed(r.win)
    /\ reviews' = Unseen(IF r.delivery THEN Moved(r, [r EXCEPT !.step = "frames"])
                         ELSE reviews \ {r})
    /\ UNCHANGED <<window, surface, vetoes, acks>>

\* fetchDetail() fails, or its answer.  "This review could not be loaded" goes over one node.
DetailFailed(r) ==
    /\ r.step = "asked"
    /\ IF Superseded(r)
       THEN UNCHANGED painted /\ reviews' = reviews \ {r}
       ELSE /\ painted' = [painted EXCEPT !.as = "error"]
            /\ reviews' = Unseen(reviews \ {r})
    /\ UNCHANGED <<window, surface, button, vetoes, acks>>

Drop(r) ==
    /\ r.step = "fetched" /\ Superseded(r)
    /\ reviews' = reviews \ {r}
    /\ UNCHANGED <<window, surface, painted, button, vetoes, acks>>

\* What the owner has before the eyes.
InView(w) ==
    /\ visible /\ focused
    /\ painted = [win |-> w, as |-> "envelope"]

\* Mutant: the guard looks at the texts and not at the surface.
EvidenceOfTexts(r) == painted = [win |-> r.win, as |-> "envelope"]

\* evidenceStillValid(): the generation, the surface, and the nodes read back.
Evidence(r) == r.current /\ hash = r.win /\ InView(r.win)

Following == [frames |-> "digest", digest |-> "sign"]

\* Two frames, then the digest and the key: the guard is asked after each.  A
\* hidden page has no frames.
Advance(r) ==
    /\ r.step \in DOMAIN Following
    /\ r.step = "frames" => visible
    /\ reviews' = IF Evidence(r)
                  THEN Moved(r, [r EXCEPT !.step = Following[@],
                                          !.seen = @ \/ (r.step = "frames" /\ InView(r.win))])
                  ELSE reviews \ {r}
    /\ UNCHANGED <<window, surface, painted, button, vetoes, acks>>

\* ... and after the signature, at once before the request leaves.
SendSeenAck(r) ==
    /\ r.step = "sign" /\ Cardinality(acks) < MaxAcks
    /\ reviews' = reviews \ {r}
    /\ acks' = IF Evidence(r)
               THEN acks \union {[win |-> r.win, seen |-> r.seen]}
               ELSE acks
    /\ UNCHANGED <<window, surface, painted, button, vetoes>>

\* POST /veto/:id/seen: lost, taken or refused (VetoLane.tla), the page ignores
\* the answer.
AckServed(a) ==
    /\ acks' = acks \ {a}
    /\ UNCHANGED <<window, surface, painted, button, promises>>

-----------------------------------------------------------------------------
(* The one-tap veto.                                                       *)

Click ==
    /\ visible /\ focused /\ button.enabled
    /\ IF button.current
       THEN /\ Cardinality(vetoes) < MaxVetoes
            /\ button' = [button EXCEPT !.enabled = FALSE]
            /\ vetoes' = vetoes \union {[win |-> button.win, current |-> TRUE, step |-> "sent"]}
       ELSE UNCHANGED <<button, vetoes>>
    /\ UNCHANGED <<window, surface, painted, reviews, acks>>

Answered(v, how) == vetoes' = (vetoes \ {v}) \union {[v EXCEPT !.step = how]}

\* POST /veto/:id: a veto twice is a veto.
VetoServed(v) ==
    /\ v.step = "sent"
    /\ LET stops == window[v.win] /= "ended" IN
        /\ window' = IF stops THEN [window EXCEPT ![v.win] = "vetoed"] ELSE window
        /\ Answered(v, IF stops THEN "vetoed" ELSE "failed")
    /\ UNCHANGED <<surface, painted, button, reviews, acks>>

\* The request is lost, or its answer is.
VetoLost(v) ==
    /\ v.step \in {"sent", "vetoed"}
    /\ Answered(v, "failed")
    /\ UNCHANGED <<window, surface, painted, button, reviews, acks>>

\* The window is compared too, since the hash moves before its event.
VetoResultAction(v) ==
    CASE Superseded(v) \/ hash /= v.win -> "superseded"
      [] OTHER -> IF v.step = "vetoed" THEN "stopped" ELSE "retry"

VetoAnswered(v) ==
    /\ v.step /= "sent"
    /\ vetoes' = vetoes \ {v}
    /\ button' =
         CASE VetoResultAction(v) = "superseded" -> button
           [] VetoResultAction(v) = "stopped" -> [button EXCEPT !.label = "STOPPED"]
           [] OTHER -> [button EXCEPT !.label = "VETO - retry", !.enabled = TRUE]
    /\ UNCHANGED <<window, surface, painted, reviews, acks>>

-----------------------------------------------------------------------------
Init ==
    /\ window = [w \in Windows |-> "open"]
    /\ hash \in Windows \union {Nothing} /\ heard = TRUE
    /\ visible = TRUE /\ focused = TRUE /\ runtime = "pending"
    /\ painted = [win |-> Nothing, as |-> "blank"]
    /\ button = ButtonReset
    /\ reviews = Begun(hash, runtime)
    /\ vetoes = {} /\ acks = {}

ControlPlane == \E w \in Windows : Pass(w) \/ VetoElsewhere(w)

Browser ==
    \/ \E h \in Windows \union {Nothing} : Navigate(h) \/ OpenPage(h)
    \/ HashChange \/ Hide \/ Blur \/ Show \/ Focus

Fetch(r) == DetailServed(r) \/ DetailFailed(r) \/ Render(r) \/ Drop(r)

Reviewing ==
    \/ RuntimeLoaded \/ RuntimeFailed
    \/ \E r \in reviews : Fetch(r) \/ Advance(r) \/ SendSeenAck(r)
    \/ \E a \in acks : AckServed(a)

Vetoing ==
    \/ Click
    \/ \E v \in vetoes : VetoServed(v) \/ VetoLost(v) \/ VetoAnswered(v)

Next == ControlPlane \/ Browser \/ Reviewing \/ Vetoing

Spec == Init /\ [][Next]_vars

-----------------------------------------------------------------------------
(* Properties.                                                             *)

Places == Windows \union {Nothing}

\* The types of the variables.
TypeOK ==
    /\ window \in [Windows -> {"open", "ended", "vetoed"}]
    /\ hash \in Places
    /\ heard \in BOOLEAN /\ visible \in BOOLEAN /\ focused \in BOOLEAN
    /\ runtime \in {"pending", "loaded", "failed"}
    /\ painted \in [win : Places, as : {"blank", "envelope", "display", "error"}]
    /\ button \in [label : {"VETO", "STOPPED", "VETO - retry"}, enabled : BOOLEAN,
                   win : Places, current : BOOLEAN]
    /\ reviews \subseteq
         [win : Windows, current : BOOLEAN, delivery : BOOLEAN, seen : BOOLEAN,
          step : {"loading", "asked", "fetched", "frames", "digest", "sign"}]
    /\ vetoes \subseteq
         [win : Windows, current : BOOLEAN, step : {"sent", "vetoed", "failed"}]
    /\ acks \subseteq [win : Windows, seen : BOOLEAN]

\* A confirmation leaves the page only for a window whose envelope was painted
\* in front for two frames and never left the view, or was painted over, until
\* then: through navigations, blurs, late answers and the awaits of the digest,
\* the key and the signature (routeAlert, evidenceGuard, signedFetch).
ConfirmedWasSeen == \A a \in acks : a.seen

\* STOPPED beside a window's text means that this window is stopped, although
\* the button is shared and answers come late (wireVeto, vetoResultAction).
StoppedMeansVetoed ==
    button.label = "STOPPED" =>
        /\ painted.win = button.win
        /\ window[button.win] = "vetoed"

\* The only silent page: its runtime never came, so that it never showed a
\* window and shows none until it is opened anew.
NeverBegan == runtime = "failed" /\ painted.as = "blank" /\ reviews = {}

\* In front of the owner, with its events handled, the page is on its way to
\* the named window, or shows it with a button that acts or has acted, or
\* says that it could not (routeAlert on every return to the surface).  A page
\* whose import of the runtime was rejected does neither, and says nothing
\* (loadRuntime); that is the one exception, and it never befalls a page that
\* has shown a window.
NoDeadControl ==
    visible /\ focused /\ heard /\ hash /= Nothing =>
        \/ NeverBegan
        \/ \E r \in reviews :
              r.current /\ r.win = hash /\ r.step \in {"loading", "asked", "fetched"}
        \/ painted.as = "error"
        \/ /\ button.current /\ button.win = hash /\ painted.win = hash
           /\ \/ button.enabled \/ button.label = "STOPPED"
              \/ \E v \in vetoes : v.current /\ v.win = hash

\* The shape of the state, and a page that neither strands its owner nor tells
\* the owner of a stop that is not one.
Inv == TypeOK /\ NoDeadControl /\ StoppedMeansVetoed
=============================================================================
