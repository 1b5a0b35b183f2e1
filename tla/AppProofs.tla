------------------------------ MODULE AppProofs ------------------------------
(***************************************************************************)
(* Proofs about the two specifications of the owner's phone, the page of   *)
(* the owner app and the phone that becomes a device.                      *)
(*                                                                         *)
(* The page, for every set of windows and every number of reviews, vetoes  *)
(* and confirmations under way: what is confirmed was seen, STOPPED is     *)
(* said only of a window that is stopped, and the page does not strand its *)
(* owner.                                                                  *)
(*                                                                         *)
(* The phone, for every set of contexts, keys and invites and every number *)
(* of push enrolments under way: the identity a phone signs under is the   *)
(* registry's name for its key, what the owner is told is what happened,   *)
(* and alerts stay where the enrolled phone put them.  Everything rests on *)
(* one fact about custody: the store is written once, so that whatever a   *)
(* context, a request or the registry holds as a key is the key of the     *)
(* store, and the registry admits it once.                                 *)
(***************************************************************************)
EXTENDS OwnerApp, Phone, FiniteSetTheorems, TLAPS

-----------------------------------------------------------------------------
(* The page of the owner app: the inductive invariant.                     *)

Reviews ==
    [win : Windows, current : BOOLEAN, delivery : BOOLEAN, seen : BOOLEAN,
     step : {"loading", "asked", "fetched", "frames", "digest", "sign"}]
Vetoes == [win : Windows, current : BOOLEAN, step : {"sent", "vetoed", "failed"}]
Buttons ==
    [label : {"VETO", "STOPPED", "VETO - retry"}, enabled : BOOLEAN, win : Places,
     current : BOOLEAN]

\* The types, in parts.
WindowType == window \in [Windows -> {"open", "ended", "vetoed"}]
SurfaceType ==
    /\ hash \in Places /\ heard \in BOOLEAN /\ visible \in BOOLEAN /\ focused \in BOOLEAN
    /\ runtime \in {"pending", "loaded", "failed"}
    /\ painted \in [win : Places, as : {"blank", "envelope", "display", "error"}]
    /\ button \in Buttons
PromiseType ==
    /\ reviews \subseteq Reviews /\ vetoes \subseteq Vetoes
    /\ acks \subseteq [win : Windows, seen : BOOLEAN]

\* One review is of the present generation: of the window the hash names, once
\* the page has heard of it.  Past the two frames, what it painted was seen.
ReviewInv ==
    /\ \A r, s \in reviews : r.current /\ s.current => r = s
    /\ \A r \in reviews : r.current =>
          /\ heard => r.win = hash
          /\ r.step \in {"digest", "sign"} => r.seen

\* Before the runtime has come nothing is painted and every review waits for
\* it; once it was refused there is none.
RuntimeInv ==
    /\ runtime /= "loaded" => painted.as = "blank" /\ \A r \in reviews : r.step = "loading"
    /\ runtime = "failed" => reviews = {}
    /\ runtime = "loaded" => \A r \in reviews : r.step /= "loading"

\* A button of the present generation stands beside the text of its window,
\* which no review is about to paint over, and a veto of that generation is of
\* that window.
ButtonInv ==
    /\ button.current =>
          /\ button.win \in Windows /\ painted.win = button.win
          /\ \A r \in reviews : r.current => r.step \notin {"loading", "asked", "fetched"}
    /\ button.enabled \/ button.label = "STOPPED" => button.win \in Windows
    /\ \A v \in vetoes : v.current => button.current /\ v.win = button.win
    /\ \A v \in vetoes : v.step = "vetoed" => window[v.win] = "vetoed"

PInv ==
    /\ WindowType /\ SurfaceType /\ PromiseType
    /\ ReviewInv /\ RuntimeInv /\ ButtonInv /\ ConfirmedWasSeen /\ StoppedMeansVetoed /\ NoDeadControl

-----------------------------------------------------------------------------
(* What becomes of the promises of the page.                               *)

\* At most the review of the hash begins; none does without a window, or
\* after the runtime was refused.
LEMMA BegunShape ==
    ASSUME NEW h \in Windows \union {Nothing}, NEW import
    PROVE  /\ Begun(h, import) \subseteq Reviews
           /\ \A x \in Begun(h, import) :
                /\ x.current /\ x.win = h /\ import /= "failed"
                /\ x.step = IF import = "loaded" THEN "asked" ELSE "loading"
           /\ \A x, y \in Begun(h, import) : x = y
           /\ h /= Nothing /\ import /= "failed" => Begun(h, import) /= {}
  <1> DEFINE step == IF import = "loaded" THEN "asked" ELSE "loading"
  <1>1. /\ Begun(h, import) \subseteq {Review(h, step)}
        /\ Begun(h, import) /= {} => h \in Windows /\ import /= "failed"
        /\ h /= Nothing /\ import /= "failed" => Begun(h, import) /= {}
    BY DEF Begun
  <1>2. step \in {"loading", "asked"}
    OBVIOUS
  <1> HIDE DEF step
  <1>3. h \in Windows => /\ Review(h, step) \in Reviews /\ Review(h, step).current
                         /\ Review(h, step).win = h /\ Review(h, step).step = step
    BY <1>2 DEF Review, Reviews
  <1> QED BY <1>1, <1>3 DEF step

LEMMA StaleReviews ==
    ASSUME NEW S, S \subseteq Reviews
    PROVE  /\ Stale(S) \subseteq Reviews /\ \A x \in Stale(S) : ~x.current
           /\ \A x \in Stale(S) : \E r \in S : x.step = r.step
  <1> SUFFICES ASSUME NEW x \in S
               PROVE  /\ [x EXCEPT !.current = FALSE] \in Reviews
                      /\ ~[x EXCEPT !.current = FALSE].current
                      /\ [x EXCEPT !.current = FALSE].step = x.step
    BY DEF Stale
  <1>1. x \in Reviews
    OBVIOUS
  <1> QED BY <1>1 DEF Reviews

LEMMA StaleVetoes ==
    ASSUME NEW S, S \subseteq Vetoes
    PROVE  /\ Stale(S) \subseteq Vetoes /\ \A x \in Stale(S) : ~x.current
           /\ \A x \in Stale(S) : \E v \in S : x.win = v.win /\ x.step = v.step
  <1> SUFFICES ASSUME NEW v \in S
               PROVE  /\ [v EXCEPT !.current = FALSE] \in Vetoes
                      /\ ~[v EXCEPT !.current = FALSE].current
                      /\ [v EXCEPT !.current = FALSE].win = v.win
                      /\ [v EXCEPT !.current = FALSE].step = v.step
    BY DEF Stale
  <1>1. v \in Vetoes
    OBVIOUS
  <1> QED BY <1>1 DEF Vetoes

LEMMA UnseenReviews ==
    ASSUME NEW S, S \subseteq Reviews
    PROVE  /\ Unseen(S) \subseteq Reviews
           /\ \A x \in Unseen(S) : \E s \in S :
                x.win = s.win /\ x.current = s.current /\ x.step = s.step
                /\ x = [s EXCEPT !.seen = FALSE]
  <1> SUFFICES ASSUME NEW s \in S
               PROVE  /\ [s EXCEPT !.seen = FALSE] \in Reviews
                      /\ [s EXCEPT !.seen = FALSE].win = s.win
                      /\ [s EXCEPT !.seen = FALSE].current = s.current
                      /\ [s EXCEPT !.seen = FALSE].step = s.step
    BY DEF Unseen
  <1>1. s \in Reviews
    OBVIOUS
  <1> QED BY <1>1 DEF Reviews

LEMMA ButtonShape ==
    /\ ButtonReset \in Buttons /\ ButtonReset.label = "VETO" /\ ~ButtonReset.enabled
    /\ ~ButtonReset.current
    /\ \A w \in Windows : /\ Armed(w) \in Buttons /\ Armed(w).label = "VETO"
                          /\ Armed(w).enabled /\ Armed(w).win = w /\ Armed(w).current
  BY DEF ButtonReset, Buttons, Armed, Places

-----------------------------------------------------------------------------
(* The steps, one by one.                                                  *)

LEMMA TimeStep ==
    ASSUME PInv, NEW w \in Windows, Pass(w) \/ VetoElsewhere(w)
    PROVE  PInv'
  <1>1. /\ window[w] = "open"
        /\ window' = [window EXCEPT ![w] = "ended"] \/ window' = [window EXCEPT ![w] = "vetoed"]
        /\ UNCHANGED <<hash, heard, visible, focused, runtime, painted, button, reviews, vetoes, acks>>
    BY DEF Pass, VetoElsewhere, surface, promises
  <1>2. WindowType' /\ \A v \in Windows : window[v] = "vetoed" => window'[v] = "vetoed"
    BY <1>1 DEF PInv, WindowType
  <1>3. SurfaceType' /\ PromiseType' /\ ReviewInv' /\ RuntimeInv' /\ ConfirmedWasSeen'
    BY <1>1 DEF PInv, SurfaceType, PromiseType, ReviewInv, RuntimeInv, ConfirmedWasSeen
  <1>4. ButtonInv'
    <2>1. \A v \in vetoes : v.win \in Windows
      BY DEF PInv, PromiseType, Vetoes
    <2>2. \A v \in vetoes' : v.step = "vetoed" => window'[v.win] = "vetoed"
      BY <1>1, <1>2, <2>1 DEF PInv, ButtonInv
    <2> QED BY <1>1, <2>2 DEF PInv, ButtonInv
  <1>5. StoppedMeansVetoed'
    BY <1>1, <1>2 DEF PInv, StoppedMeansVetoed, ButtonInv
  <1>6. NoDeadControl'
    BY <1>1 DEF PInv, NoDeadControl, NeverBegan
  <1> QED BY <1>2, <1>3, <1>4, <1>5, <1>6 DEF PInv

\* The owner leaves: nothing is of the present generation any more.
LEMMA LeaveStep ==
    ASSUME PInv, InvalidateRender, SurfaceType', ~(visible' /\ focused'),
           UNCHANGED <<window, hash, heard, runtime, painted, acks>>
    PROVE  PInv'
  <1>1. reviews \subseteq Reviews /\ vetoes \subseteq Vetoes /\ button \in Buttons
    BY DEF PInv, PromiseType, SurfaceType
  <1>2. /\ reviews' \subseteq Reviews /\ \A x \in reviews' : ~x.current
        /\ \A x \in reviews' : \E r \in reviews : x.step = r.step
    <2>1. /\ Stale(reviews) \subseteq Reviews /\ \A x \in Stale(reviews) : ~x.current
          /\ \A x \in Stale(reviews) : \E r \in reviews : x.step = r.step
      BY <1>1, StaleReviews
    <2>2. /\ reviews' \subseteq Reviews
          /\ \A x \in reviews' : \E y \in Stale(reviews) :
               x.current = y.current /\ x.step = y.step
      BY <2>1, UnseenReviews DEF InvalidateRender
    <2> QED BY <2>1, <2>2
  <1>3. /\ vetoes' \subseteq Vetoes /\ \A x \in vetoes' : ~x.current
        /\ \A x \in vetoes' : \E v \in vetoes : x.win = v.win /\ x.step = v.step
    BY <1>1, StaleVetoes DEF InvalidateRender
  <1>4. /\ button'.label = button.label /\ button'.win = button.win
        /\ button'.enabled = button.enabled /\ ~button'.current
    BY <1>1 DEF InvalidateRender, Buttons
  <1>5. WindowType' /\ PromiseType' /\ ConfirmedWasSeen'
    BY <1>2, <1>3 DEF PInv, WindowType, PromiseType, ConfirmedWasSeen
  <1>6. ReviewInv' /\ RuntimeInv'
    BY <1>2 DEF PInv, ReviewInv, RuntimeInv
  <1>7. ButtonInv'
    BY <1>3, <1>4 DEF PInv, ButtonInv
  <1>8. StoppedMeansVetoed'
    BY <1>4 DEF PInv, StoppedMeansVetoed
  <1>9. NoDeadControl'
    BY DEF NoDeadControl
  <1> QED BY <1>5, <1>6, <1>7, <1>8, <1>9 DEF PInv

\* The window the hash names is fetched, and is the only one.
LEMMA RouteStep ==
    ASSUME PInv, SurfaceType', NEW S \in SUBSET Reviews, \A x \in S : ~x.current,
           \/ /\ \A x \in S : \E r \in reviews : x.step = r.step
              /\ runtime' = runtime /\ painted' = painted
           \/ S = {} /\ runtime' = "pending" /\ painted'.as = "blank",
           reviews' = S \union Begun(hash', runtime'),
           vetoes' \subseteq Vetoes, \A x \in vetoes' : ~x.current,
           \A x \in vetoes' : \E v \in vetoes : x.win = v.win /\ x.step = v.step,
           button' = ButtonReset, UNCHANGED <<window, acks>>
    PROVE  PInv'
  <1>1. hash' \in Windows \union {Nothing}
    BY DEF SurfaceType, Places
  <1> DEFINE B == Begun(hash', runtime')
  <1>2. /\ B \subseteq Reviews
        /\ \A x \in B : /\ x.current /\ x.win = hash' /\ runtime' /= "failed"
                        /\ x.step = IF runtime' = "loaded" THEN "asked" ELSE "loading"
        /\ \A x, y \in B : x = y
        /\ hash' /= Nothing /\ runtime' /= "failed" => B /= {}
    BY <1>1, BegunShape
  <1>3. reviews' = S \union B
    OBVIOUS
  <1> HIDE DEF B
  <1>4. reviews' \subseteq Reviews
    BY <1>2, <1>3
  <1>5. WindowType' /\ PromiseType' /\ ConfirmedWasSeen'
    BY <1>4 DEF PInv, WindowType, PromiseType, ConfirmedWasSeen
  <1>6. ReviewInv'
    <2>1. \A x \in reviews' : x.current => x \in B
      BY <1>3
    <2> QED BY <1>2, <2>1 DEF ReviewInv
  <1>7. RuntimeInv'
    BY <1>2, <1>3 DEF PInv, RuntimeInv
  <1>8. ButtonInv'
    BY ButtonShape DEF PInv, ButtonInv
  <1>9. StoppedMeansVetoed'
    BY ButtonShape DEF StoppedMeansVetoed
  <1>10. NoDeadControl'
    <2>1. CASE runtime' = "failed"
      BY <1>7, <2>1 DEF RuntimeInv, NoDeadControl, NeverBegan
    <2>2. CASE runtime' /= "failed" /\ hash' /= Nothing
      <3>1. PICK x \in B : TRUE
        BY <1>2, <2>2
      <3> QED BY <1>2, <1>3, <3>1 DEF NoDeadControl
    <2>3. CASE hash' = Nothing
      BY <2>3 DEF NoDeadControl
    <2> QED BY <2>1, <2>2, <2>3
  <1> QED BY <1>5, <1>6, <1>7, <1>8, <1>9, <1>10 DEF PInv

LEMMA BrowserStep ==
    ASSUME PInv, Browser
    PROVE  PInv'
  <1>0. /\ reviews \subseteq Reviews /\ vetoes \subseteq Vetoes /\ button \in Buttons
        /\ hash \in Places /\ SurfaceType
    BY DEF PInv, PromiseType, SurfaceType
  <1>1. ASSUME NEW h \in Windows \union {Nothing}, Navigate(h) PROVE PInv'
    <2>1. /\ hash' = h /\ heard' = FALSE
          /\ UNCHANGED <<window, visible, focused, runtime, painted, button, reviews, vetoes, acks>>
      BY <1>1 DEF Navigate, promises
    <2>2. WindowType' /\ SurfaceType' /\ PromiseType' /\ ConfirmedWasSeen'
      BY <2>1 DEF PInv, WindowType, SurfaceType, PromiseType, ConfirmedWasSeen, Places
    <2>3. ReviewInv' /\ RuntimeInv' /\ ButtonInv' /\ StoppedMeansVetoed'
      BY <2>1 DEF PInv, ReviewInv, RuntimeInv, ButtonInv, StoppedMeansVetoed
    <2>4. NoDeadControl'
      BY <2>1 DEF NoDeadControl
    <2> QED BY <2>2, <2>3, <2>4 DEF PInv
  <1>2. ASSUME NEW h \in Windows \union {Nothing}, OpenPage(h) PROVE PInv'
    <2>1. /\ hash' = h /\ button' = ButtonReset /\ vetoes' = {} /\ UNCHANGED <<window, acks>>
          /\ reviews' = {} \union Begun(hash', runtime')
          /\ runtime' = "pending" /\ painted'.as = "blank"
      BY <1>2 DEF OpenPage
    <2>2. SurfaceType'
      BY <1>2, <2>1, ButtonShape DEF OpenPage, SurfaceType, Places
    <2> QED BY <2>1, <2>2, RouteStep
  <1>3. CASE Hide \/ Blur
    <2>1. InvalidateRender /\ ~(visible' /\ focused') /\ UNCHANGED <<window, hash, heard, runtime, painted, acks>>
      BY <1>3 DEF Hide, Blur
    <2>2. button' \in Buttons
      BY <1>0, <2>1 DEF InvalidateRender, Buttons
    <2>3. SurfaceType'
      BY <1>0, <1>3, <2>1, <2>2 DEF Hide, Blur, SurfaceType
    <2> QED BY <2>1, <2>3, LeaveStep
  <1>4. CASE HashChange \/ Show \/ Focus
    <2>1. RouteAlert(hash) /\ UNCHANGED <<window, hash, runtime, painted, acks>>
      BY <1>4 DEF HashChange, Show, Focus
    <2>2. /\ reviews' = Stale(reviews) \union Begun(hash', runtime')
          /\ vetoes' = Stale(vetoes) /\ button' = ButtonReset
      BY <2>1 DEF RouteAlert
    <2>3. SurfaceType'
      BY <1>0, <1>4, <2>1, <2>2, ButtonShape DEF HashChange, Show, Focus, SurfaceType
    <2>4. /\ Stale(reviews) \in SUBSET Reviews /\ \A x \in Stale(reviews) : ~x.current
          /\ \A x \in Stale(reviews) : \E r \in reviews : x.step = r.step
      BY <1>0, StaleReviews
    <2>5. /\ vetoes' \subseteq Vetoes /\ \A x \in vetoes' : ~x.current
          /\ \A x \in vetoes' : \E v \in vetoes : x.win = v.win /\ x.step = v.step
      BY <1>0, <2>2, StaleVetoes
    <2> HIDE DEF PInv
    <2> QED BY <2>1, <2>2, <2>3, <2>4, <2>5, RouteStep
  <1> QED BY <1>1, <1>2, <1>3, <1>4 DEF Browser

\* What is left of a set of reviews when one of them moves on.
LEMMA MovedShape ==
    ASSUME NEW r \in reviews, NEW s
    PROVE  \A x \in Moved(r, s) : x = s \/ (x \in reviews /\ x /= r)
  BY DEF Moved

\* A review moves on, or ends, past or before what it paints.
LEMMA MoveStep ==
    ASSUME PInv, NEW r \in reviews, NEW s \in Reviews,
           reviews' = Moved(r, s) \/ reviews' = reviews \ {r},
           s.win = r.win, s.current = r.current, r.step /= "loading", s.step /= "loading",
           s.step \in {"asked", "fetched"} => r.step \in {"asked", "fetched"},
           s.current /\ s.step \in {"digest", "sign"} => s.seen,
           r.current /\ r.step \in {"asked", "fetched"} =>
                reviews' = Moved(r, s) /\ s.step \in {"asked", "fetched"},
           acks' \subseteq [win : Windows, seen : BOOLEAN], ConfirmedWasSeen',
           UNCHANGED <<window, surface, painted, button, vetoes>>
    PROVE  PInv'
  <1>1. reviews \subseteq Reviews /\ vetoes \subseteq Vetoes
    BY DEF PInv, PromiseType
  <1>2. \A x \in reviews' : x = s \/ (x \in reviews /\ x /= r)
    BY MovedShape
  <1>3. WindowType' /\ SurfaceType' /\ PromiseType'
    BY <1>1, <1>2 DEF PInv, WindowType, SurfaceType, PromiseType, surface
  <1>4. ReviewInv' /\ RuntimeInv'
    BY <1>2 DEF PInv, ReviewInv, RuntimeInv, surface
  <1>5. ButtonInv'
    BY <1>2 DEF PInv, ButtonInv
  <1>6. StoppedMeansVetoed'
    BY DEF PInv, StoppedMeansVetoed
  <1>7. NoDeadControl'
    <2>1. ASSUME NEW x \in reviews, x.current, x.win = hash, x.step \in {"loading", "asked", "fetched"}
          PROVE  \E y \in reviews' : y.current /\ y.win = hash /\ y.step \in {"loading", "asked", "fetched"}
      <3>1. CASE x /= r
        BY <2>1, <3>1 DEF Moved
      <3>2. CASE x = r
        BY <2>1, <3>2 DEF Moved
      <3> QED BY <3>1, <3>2
    <2> QED BY <2>1 DEF PInv, NoDeadControl, NeverBegan, surface
  <1> QED BY <1>3, <1>4, <1>5, <1>6, <1>7 DEF PInv

\* The import of the runtime settles: every review goes on, or none does.
LEMMA RuntimeStep ==
    ASSUME PInv, RuntimeLoaded \/ RuntimeFailed
    PROVE  PInv'
  <1>0. /\ reviews \subseteq Reviews /\ runtime = "pending" /\ painted.as = "blank"
        /\ \A r \in reviews : r.step = "loading"
        /\ UNCHANGED <<window, hash, heard, visible, focused, painted, button, vetoes, acks>>
    BY DEF PInv, PromiseType, RuntimeInv, RuntimeLoaded, RuntimeFailed
  <1>1. WindowType' /\ SurfaceType' /\ ConfirmedWasSeen' /\ StoppedMeansVetoed'
    BY <1>0 DEF PInv, WindowType, SurfaceType, ConfirmedWasSeen, StoppedMeansVetoed,
                RuntimeLoaded, RuntimeFailed
  <1>2. CASE RuntimeFailed
    <2>1. reviews' = {} /\ runtime' = "failed"
      BY <1>2 DEF RuntimeFailed
    <2>2. PromiseType' /\ ReviewInv' /\ RuntimeInv' /\ ButtonInv' /\ NoDeadControl'
      BY <1>0, <2>1 DEF PInv, PromiseType, ReviewInv, RuntimeInv, ButtonInv, NoDeadControl, NeverBegan
    <2> QED BY <1>1, <2>2 DEF PInv
  <1>3. CASE RuntimeLoaded
    <2> DEFINE Asked(r) == [r EXCEPT !.step = "asked"]
    <2>1. reviews' = {Asked(r) : r \in reviews} /\ runtime' = "loaded"
      BY <1>3 DEF RuntimeLoaded
    <2>2. ASSUME NEW r \in reviews
          PROVE  /\ Asked(r) \in Reviews /\ Asked(r).step = "asked" /\ Asked(r).win = r.win
                 /\ Asked(r).current = r.current
      BY <1>0 DEF Reviews
    <2> HIDE DEF Asked
    <2>3. \A x \in reviews' : \E r \in reviews : x = Asked(r)
      BY <2>1
    <2>4. \A r \in reviews : Asked(r) \in reviews'
      BY <2>1
    <2>5. PromiseType'
      BY <1>0, <2>2, <2>3 DEF PInv, PromiseType
    <2>6. ReviewInv'
      <3>1. ASSUME NEW x \in reviews', NEW y \in reviews', x.current, y.current PROVE x = y
        <4>1. PICK r \in reviews : x = Asked(r)
          BY <2>3
        <4>2. PICK q \in reviews : y = Asked(q)
          BY <2>3
        <4>3. r = q
          BY <2>2, <3>1, <4>1, <4>2 DEF PInv, ReviewInv
        <4> QED BY <4>1, <4>2, <4>3
      <3>2. ASSUME NEW x \in reviews', x.current
            PROVE  (heard' => x.win = hash') /\ x.step = "asked"
        <4>1. PICK r \in reviews : x = Asked(r)
          BY <2>3
        <4> QED BY <1>0, <2>2, <3>2, <4>1 DEF PInv, ReviewInv
      <3> QED BY <3>1, <3>2 DEF ReviewInv
    <2>7. RuntimeInv'
      BY <2>1, <2>2, <2>3 DEF RuntimeInv
    <2>8. ButtonInv'
      <3>1. ASSUME NEW x \in reviews', button.current PROVE ~x.current
        <4>1. PICK r \in reviews : x = Asked(r)
          BY <2>3
        <4> QED BY <1>0, <2>2, <3>1, <4>1 DEF PInv, ButtonInv
      <3> QED BY <1>0, <3>1 DEF PInv, ButtonInv
    <2>9. NoDeadControl'
      <3>1. ASSUME NEW r \in reviews, r.current, r.win = hash
            PROVE  \E x \in reviews' : x.current /\ x.win = hash /\ x.step = "asked"
        BY <2>2, <2>4, <3>1
      <3> QED BY <1>0, <3>1 DEF PInv, NoDeadControl, NeverBegan
    <2> QED BY <1>1, <2>5, <2>6, <2>7, <2>8, <2>9 DEF PInv
  <1> QED BY <1>2, <1>3

LEMMA FetchStep ==
    ASSUME PInv, NEW r \in reviews, Fetch(r)
    PROVE  PInv'
  <1>0. /\ reviews \subseteq Reviews /\ r \in Reviews /\ SurfaceType
        /\ acks \subseteq [win : Windows, seen : BOOLEAN] /\ ConfirmedWasSeen
    BY DEF PInv, PromiseType
  <1>00. /\ r.win \in Windows /\ r.current \in BOOLEAN /\ r.delivery \in BOOLEAN
    BY <1>0 DEF Reviews
  <1>1. CASE DetailServed(r)
    <2>1. PICK d \in BOOLEAN :
            /\ r.step = "asked" /\ reviews' = Moved(r, [r EXCEPT !.step = "fetched", !.delivery = d])
            /\ UNCHANGED <<window, surface, painted, button, vetoes, acks>>
      BY <1>1 DEF DetailServed, Ackable
    <2> DEFINE s == [r EXCEPT !.step = "fetched", !.delivery = d]
    <2>2. s \in Reviews /\ s.win = r.win /\ s.current = r.current /\ s.step = "fetched"
      BY <1>0 DEF Reviews
    <2> HIDE DEF s
    <2>3. ConfirmedWasSeen'
      BY <1>0, <2>1 DEF ConfirmedWasSeen
    <2> QED BY <1>0, <2>1, <2>2, <2>3, MoveStep DEF s
  <1>2. CASE Drop(r) \/ (DetailFailed(r) /\ ~r.current)
    <2>1. /\ ~r.current /\ reviews' = reviews \ {r} /\ r.step /= "loading"
          /\ UNCHANGED <<window, surface, painted, button, vetoes, acks>>
      BY <1>2 DEF Drop, DetailFailed, Superseded
    <2>2. ConfirmedWasSeen'
      BY <1>0, <2>1 DEF ConfirmedWasSeen
    <2> QED BY <1>0, <2>1, <2>2, MoveStep
  <1>3. CASE DetailFailed(r) /\ r.current
    <2>1. /\ r.step = "asked" /\ painted' = [painted EXCEPT !.as = "error"]
          /\ reviews' = Unseen(reviews \ {r})
          /\ UNCHANGED <<window, surface, button, vetoes, acks>>
      BY <1>3 DEF DetailFailed, Superseded
    <2>2. painted'.win = painted.win /\ painted'.as = "error"
          /\ painted' \in [win : Places, as : {"blank", "envelope", "display", "error"}]
      BY <1>0, <2>1 DEF SurfaceType
    <2>3. reviews' \subseteq Reviews /\ \A x \in reviews' : ~x.current
      BY <1>0, <1>3, <2>1, UnseenReviews DEF PInv, ReviewInv
    <2>4. WindowType' /\ SurfaceType' /\ PromiseType' /\ ConfirmedWasSeen'
      BY <2>1, <2>2, <2>3 DEF PInv, WindowType, SurfaceType, PromiseType, ConfirmedWasSeen, surface
    <2>5. ReviewInv' /\ ButtonInv'
      BY <2>1, <2>2, <2>3 DEF PInv, ReviewInv, ButtonInv
    <2>6. RuntimeInv'
      <3>1. runtime = "loaded" /\ runtime' = "loaded"
        BY <1>0, <2>1 DEF PInv, RuntimeInv, SurfaceType, surface
      <3>2. \A x \in reviews' : \E y \in reviews : x.step = y.step
        BY <1>0, <2>1, UnseenReviews
      <3> QED BY <3>1, <3>2 DEF PInv, RuntimeInv
    <2>7. StoppedMeansVetoed' /\ NoDeadControl'
      BY <2>1, <2>2 DEF PInv, StoppedMeansVetoed, NoDeadControl
    <2> QED BY <2>4, <2>5, <2>6, <2>7 DEF PInv
  <1>4. CASE Render(r)
    <2> DEFINE s == [r EXCEPT !.step = "frames"]
    <2>1. /\ r.step = "fetched" /\ r.current
          /\ painted' = [win |-> r.win, as |-> Display(r.delivery)] /\ button' = Armed(r.win)
          /\ reviews' = Unseen(IF r.delivery THEN Moved(r, s) ELSE reviews \ {r})
          /\ UNCHANGED <<window, surface, vetoes, acks>>
      BY <1>4 DEF Render, Superseded
    <2>2. s \in Reviews /\ s.step = "frames" /\ s.win = r.win /\ s.current = r.current
      BY <1>0 DEF Reviews
    <2> DEFINE S == IF r.delivery THEN Moved(r, s) ELSE reviews \ {r}
    <2>3. \A x \in S : x = s \/ (x \in reviews /\ x /= r)
      BY MovedShape
    <2> HIDE DEF s
    <2>4. S \subseteq Reviews
      BY <1>0, <2>2, <2>3
    <2>5. \A x \in S : x.current => x = s
      BY <2>1, <2>3 DEF PInv, ReviewInv
    <2> HIDE DEF S
    <2>6. reviews' = Unseen(S)
      BY <2>1 DEF S
    <2>7. /\ reviews' \subseteq Reviews
          /\ \A x \in reviews' : x.current => x = [s EXCEPT !.seen = FALSE]
                                              /\ x.win = r.win /\ x.step = "frames"
      BY <2>2, <2>4, <2>5, <2>6, UnseenReviews
    <2>8. painted'.win = r.win /\ painted' \in [win : Places, as : {"blank", "envelope", "display", "error"}]
      BY <1>00, <2>1 DEF Display, Places
    <2>9. /\ button' \in Buttons /\ button'.label = "VETO" /\ button'.enabled /\ button'.win = r.win
          /\ button'.current
      BY <1>00, <2>1, ButtonShape
    <2>10. WindowType' /\ SurfaceType' /\ PromiseType' /\ ConfirmedWasSeen'
      BY <1>0, <2>1, <2>7, <2>8, <2>9 DEF PInv, WindowType, SurfaceType, PromiseType, ConfirmedWasSeen, surface
    <2>11. heard => r.win = hash
      BY <2>1 DEF PInv, ReviewInv
    <2>12. ReviewInv' /\ RuntimeInv'
      <3>1. runtime = "loaded" /\ runtime' = "loaded"
        BY <1>0, <2>1 DEF PInv, RuntimeInv, SurfaceType, surface
      <3>2. \A x \in reviews' : x.step /= "loading"
        <4>1. \A x \in S : x.step /= "loading"
          BY <2>2, <2>3, <3>1 DEF PInv, RuntimeInv
        <4> QED BY <2>4, <2>6, <4>1, UnseenReviews
      <3>3. RuntimeInv'
        BY <3>1, <3>2 DEF RuntimeInv
      <3> QED BY <2>1, <2>7, <2>11, <3>3 DEF ReviewInv, surface
    <2>13. ButtonInv'
      <3>1. \A v \in vetoes' : ~v.current /\ (v.step = "vetoed" => window'[v.win] = "vetoed")
        BY <2>1 DEF PInv, ButtonInv
      <3> QED BY <1>00, <2>7, <2>8, <2>9, <3>1 DEF ButtonInv
    <2>14. StoppedMeansVetoed' /\ NoDeadControl'
      BY <2>1, <2>8, <2>9, <2>11 DEF StoppedMeansVetoed, NoDeadControl, surface
    <2> QED BY <2>10, <2>12, <2>13, <2>14 DEF PInv
  <1> QED BY <1>00, <1>1, <1>2, <1>3, <1>4 DEF Fetch

LEMMA ReviewingStep ==
    ASSUME PInv, Reviewing
    PROVE  PInv'
  <1>0. /\ reviews \subseteq Reviews /\ SurfaceType
        /\ acks \subseteq [win : Windows, seen : BOOLEAN] /\ ConfirmedWasSeen
    BY DEF PInv, PromiseType
  <1>1. ASSUME NEW r \in reviews, Advance(r) PROVE PInv'
    <2> DEFINE s == [r EXCEPT !.step = Following[@],
                              !.seen = @ \/ (r.step = "frames" /\ InView(r.win))]
    <2>1. /\ r.step \in {"frames", "digest"} /\ r \in Reviews
          /\ (Evidence(r) /\ reviews' = Moved(r, s)) \/ (~Evidence(r) /\ reviews' = reviews \ {r})
          /\ UNCHANGED <<window, surface, painted, button, vetoes, acks>>
      BY <1>0, <1>1 DEF Advance, Following
    <2>2. ConfirmedWasSeen'
      BY <1>0, <2>1 DEF ConfirmedWasSeen
    <2>3. CASE Evidence(r)
      <3>1. InView(r.win) \in BOOLEAN /\ InView(r.win)
        BY <2>3 DEF Evidence, InView, SurfaceType
      <3>2. /\ s \in Reviews /\ s.win = r.win /\ s.current = r.current
            /\ s.step \in {"digest", "sign"} /\ s.seen = (r.seen \/ r.step = "frames")
        <4>1. r \in Reviews /\ r.seen \in BOOLEAN /\ DOMAIN r = {"win", "current", "delivery", "seen", "step"}
          BY <2>1 DEF Reviews
        <4>2. CASE r.step = "frames"
          <5>1. Following[r.step] = "digest" /\ (r.seen \/ (r.step = "frames" /\ InView(r.win))) = TRUE
            BY <3>1, <4>1, <4>2 DEF Following
          <5>2. s = [r EXCEPT !.step = "digest", !.seen = TRUE]
            BY <5>1
          <5> QED BY <4>1, <4>2, <5>2 DEF Reviews
        <4>3. CASE r.step = "digest"
          <5>1. Following[r.step] = "sign" /\ (r.seen \/ (r.step = "frames" /\ InView(r.win))) = r.seen
            BY <4>1, <4>3 DEF Following
          <5>2. s = [r EXCEPT !.step = "sign", !.seen = r.seen]
            BY <5>1
          <5> QED BY <4>1, <4>3, <5>2 DEF Reviews
        <4> QED BY <2>1, <4>2, <4>3
      <3> HIDE DEF s
      <3>3. s.current => s.seen
        BY <2>1, <3>2 DEF PInv, ReviewInv
      <3> QED BY <1>0, <2>1, <2>2, <2>3, <3>2, <3>3, MoveStep
    <2>4. CASE ~Evidence(r)
      <3> HIDE DEF s
      <3> QED BY <1>0, <2>1, <2>2, <2>4, MoveStep DEF PInv, ReviewInv
    <2> QED BY <2>3, <2>4
  <1>2. ASSUME NEW r \in reviews, SendSeenAck(r) PROVE PInv'
    <2>1. /\ r.step = "sign" /\ r \in Reviews /\ reviews' = reviews \ {r}
          /\ acks' = IF Evidence(r) THEN acks \union {[win |-> r.win, seen |-> r.seen]} ELSE acks
          /\ UNCHANGED <<window, surface, painted, button, vetoes>>
      BY <1>0, <1>2 DEF SendSeenAck
    <2>2. [win |-> r.win, seen |-> r.seen] \in [win : Windows, seen : BOOLEAN]
      BY <2>1 DEF Reviews
    <2>3. Evidence(r) => r.seen
      BY <2>1 DEF Evidence, PInv, ReviewInv
    <2>4. acks' \subseteq [win : Windows, seen : BOOLEAN] /\ ConfirmedWasSeen'
      BY <1>0, <2>1, <2>2, <2>3 DEF ConfirmedWasSeen
    <2>5. r.current /\ r.step \in {"digest", "sign"} => r.seen
      BY DEF PInv, ReviewInv
    <2> QED BY <2>1, <2>4, <2>5, MoveStep
  <1>3. ASSUME NEW a \in acks, AckServed(a) PROVE PInv'
    <2>1. acks' = acks \ {a} /\ UNCHANGED <<window, hash, heard, visible, focused, runtime, painted, button, reviews, vetoes>>
      BY <1>3 DEF AckServed, surface, promises
    <2>2. WindowType' /\ SurfaceType' /\ PromiseType' /\ ConfirmedWasSeen'
      BY <2>1 DEF PInv, WindowType, SurfaceType, PromiseType, ConfirmedWasSeen
    <2>3. ReviewInv' /\ RuntimeInv' /\ ButtonInv' /\ StoppedMeansVetoed' /\ NoDeadControl'
      BY <2>1 DEF PInv, ReviewInv, RuntimeInv, ButtonInv, StoppedMeansVetoed, NoDeadControl, NeverBegan
    <2> QED BY <2>2, <2>3 DEF PInv
  <1> QED BY <1>1, <1>2, <1>3, RuntimeStep, FetchStep DEF Reviewing

LEMMA VetoingStep ==
    ASSUME PInv, Vetoing
    PROVE  PInv'
  <1>0. /\ reviews \subseteq Reviews /\ vetoes \subseteq Vetoes /\ SurfaceType /\ button \in Buttons
        /\ button.win \in Places
    BY DEF PInv, PromiseType, SurfaceType, Buttons
  <1>1. CASE Click /\ ~button.current
    <2>1. UNCHANGED vars
      BY <1>1 DEF Click, vars, promises
    <2>2. WindowType' /\ SurfaceType' /\ PromiseType' /\ ConfirmedWasSeen'
      BY <2>1 DEF PInv, WindowType, SurfaceType, PromiseType, ConfirmedWasSeen, vars, surface, promises
    <2>3. ReviewInv' /\ RuntimeInv' /\ ButtonInv' /\ StoppedMeansVetoed' /\ NoDeadControl'
      BY <2>1 DEF PInv, ReviewInv, RuntimeInv, ButtonInv, StoppedMeansVetoed, NoDeadControl, NeverBegan, vars, surface, promises
    <2> QED BY <2>2, <2>3 DEF PInv
  <1>2. CASE Click /\ button.current
    <2> DEFINE v == [win |-> button.win, current |-> TRUE, step |-> "sent"]
    <2>1. /\ button.enabled /\ button.current /\ button' = [button EXCEPT !.enabled = FALSE]
          /\ vetoes' = vetoes \union {v}
          /\ UNCHANGED <<window, hash, heard, visible, focused, runtime, painted, reviews, acks>>
      BY <1>2 DEF Click, surface
    <2>2. button.win \in Windows /\ painted.win = button.win
      BY <2>1 DEF PInv, ButtonInv
    <2>3. v \in Vetoes /\ v.win = button.win /\ v.current /\ v.step = "sent"
      BY <2>2 DEF Vetoes
    <2> HIDE DEF v
    <2>4. /\ button' \in Buttons /\ button'.label = button.label /\ button'.win = button.win
          /\ button'.current = button.current /\ ~button'.enabled
      BY <1>0, <2>1 DEF Buttons
    <2>5. WindowType' /\ SurfaceType' /\ PromiseType' /\ ConfirmedWasSeen'
      BY <1>0, <2>1, <2>3, <2>4 DEF PInv, WindowType, SurfaceType, PromiseType, ConfirmedWasSeen
    <2>6. ReviewInv' /\ RuntimeInv' /\ StoppedMeansVetoed'
      BY <2>1, <2>4 DEF PInv, ReviewInv, RuntimeInv, StoppedMeansVetoed
    <2>7. ButtonInv'
      BY <2>1, <2>2, <2>3, <2>4 DEF PInv, ButtonInv
    <2>8. NoDeadControl'
      <3>1. v \in vetoes'
        BY <2>1
      <3> QED BY <2>1, <2>2, <2>3, <2>4, <3>1 DEF PInv, NoDeadControl, NeverBegan
    <2> QED BY <2>5, <2>6, <2>7, <2>8 DEF PInv
  <1>3. ASSUME NEW v \in vetoes, NEW how \in {"vetoed", "failed"}, Answered(v, how),
               \/ window' = window
               \/ window' = [window EXCEPT ![v.win] = "vetoed"],
               how = "vetoed" => window'[v.win] = "vetoed",
               UNCHANGED <<surface, painted, button, reviews, acks>>
        PROVE  PInv'
    <2> DEFINE u == [v EXCEPT !.step = how]
    <2>1. v \in Vetoes /\ v.win \in Windows
      BY <1>0 DEF Vetoes
    <2>2. u \in Vetoes /\ u.win = v.win /\ u.current = v.current /\ u.step = how
      BY <1>3, <2>1 DEF Vetoes
    <2>3. vetoes' = (vetoes \ {v}) \union {u}
      BY <1>3 DEF Answered
    <2> HIDE DEF u
    <2>4. WindowType' /\ \A w \in Windows : window[w] = "vetoed" => window'[w] = "vetoed"
      BY <1>3, <2>1 DEF PInv, WindowType
    <2>5. SurfaceType' /\ PromiseType' /\ ConfirmedWasSeen'
      BY <1>0, <1>3, <2>2, <2>3 DEF PInv, SurfaceType, PromiseType, ConfirmedWasSeen, surface
    <2>6. ReviewInv' /\ RuntimeInv'
      BY <1>3 DEF PInv, ReviewInv, RuntimeInv, surface
    <2>7. StoppedMeansVetoed'
      BY <1>3, <2>4 DEF PInv, StoppedMeansVetoed, ButtonInv
    <2>8. ButtonInv'
      <3>1. \A x \in vetoes : x.win \in Windows
        BY <1>0 DEF Vetoes
      <3>2. \A x \in vetoes' : x.current => button'.current /\ x.win = button'.win
        BY <1>3, <2>2, <2>3 DEF PInv, ButtonInv
      <3>3. \A x \in vetoes' : x.step = "vetoed" => window'[x.win] = "vetoed"
        BY <1>3, <2>2, <2>3, <2>4, <3>1 DEF PInv, ButtonInv
      <3> QED BY <1>3, <3>2, <3>3 DEF PInv, ButtonInv
    <2>9. NoDeadControl'
      <3>1. (\E x \in vetoes : x.current /\ x.win = hash) => \E x \in vetoes' : x.current /\ x.win = hash
        BY <2>2, <2>3
      <3> QED BY <1>3, <3>1 DEF PInv, NoDeadControl, NeverBegan, surface
    <2> QED BY <2>4, <2>5, <2>6, <2>7, <2>8, <2>9 DEF PInv
  <1>4. ASSUME NEW v \in vetoes, VetoServed(v) PROVE PInv'
    <2>0. v.win \in Windows
      BY <1>0 DEF Vetoes
    <2>1. CASE window[v.win] /= "ended"
      <3>1. /\ window' = [window EXCEPT ![v.win] = "vetoed"] /\ Answered(v, "vetoed")
            /\ UNCHANGED <<surface, painted, button, reviews, acks>>
        BY <1>4, <2>1 DEF VetoServed
      <3>2. window'[v.win] = "vetoed"
        BY <2>0, <3>1 DEF PInv, WindowType
      <3> QED BY <1>3, <3>1, <3>2
    <2>2. CASE window[v.win] = "ended"
      <3>1. /\ window' = window /\ Answered(v, "failed")
            /\ UNCHANGED <<surface, painted, button, reviews, acks>>
        BY <1>4, <2>2 DEF VetoServed
      <3> QED BY <1>3, <3>1
    <2> QED BY <2>1, <2>2
  <1>5. ASSUME NEW v \in vetoes, VetoLost(v) PROVE PInv'
    <2>1. /\ window' = window /\ Answered(v, "failed")
          /\ UNCHANGED <<surface, painted, button, reviews, acks>>
      BY <1>5 DEF VetoLost
    <2> QED BY <1>3, <2>1
  <1>6. ASSUME NEW v \in vetoes, VetoAnswered(v) PROVE PInv'
    <2>1. /\ vetoes' = vetoes \ {v}
          /\ UNCHANGED <<window, hash, heard, visible, focused, runtime, painted, reviews, acks>>
      BY <1>6 DEF VetoAnswered, surface
    <2>2. v \in Vetoes /\ v.win \in Windows /\ v.current \in BOOLEAN
      BY <1>0 DEF Vetoes
    <2> DEFINE stopped == [button EXCEPT !.label = "STOPPED"]
               retry == [button EXCEPT !.label = "VETO - retry", !.enabled = TRUE]
    <2>3. \/ (~v.current \/ hash /= v.win) /\ button' = button
          \/ v.current /\ hash = v.win /\ v.step = "vetoed" /\ button' = stopped
          \/ v.current /\ hash = v.win /\ v.step /= "vetoed" /\ button' = retry
      BY <1>6, <2>2 DEF VetoAnswered, VetoResultAction, Superseded
    <2>4. /\ stopped \in Buttons /\ stopped.label = "STOPPED" /\ stopped.win = button.win
          /\ stopped.current = button.current /\ stopped.enabled = button.enabled
          /\ retry \in Buttons /\ retry.label = "VETO - retry" /\ retry.win = button.win
          /\ retry.current = button.current /\ retry.enabled
      BY <1>0 DEF Buttons
    <2> HIDE DEF stopped, retry
    <2>5. v.current => button.current /\ v.win = button.win /\ painted.win = button.win
      BY DEF PInv, ButtonInv
    <2>6. WindowType' /\ PromiseType' /\ ConfirmedWasSeen'
      BY <1>0, <2>1 DEF PInv, WindowType, PromiseType, ConfirmedWasSeen
    <2>7. SurfaceType'
      BY <1>0, <2>1, <2>3, <2>4 DEF SurfaceType
    <2>8. ReviewInv' /\ RuntimeInv'
      BY <2>1 DEF PInv, ReviewInv, RuntimeInv
    <2>9. ButtonInv'
      <3>1. button'.win = button.win /\ button'.current = button.current
        BY <2>3, <2>4
      <3>2. button'.enabled \/ button'.label = "STOPPED" => button'.win \in Windows
        BY <2>2, <2>3, <2>4, <2>5, <3>1 DEF PInv, ButtonInv
      <3> QED BY <2>1, <3>1, <3>2 DEF PInv, ButtonInv
    <2>10. StoppedMeansVetoed'
      <3>1. v.step = "vetoed" => window[v.win] = "vetoed"
        BY DEF PInv, ButtonInv
      <3> QED BY <2>1, <2>3, <2>4, <2>5, <3>1 DEF PInv, StoppedMeansVetoed
    <2>11. NoDeadControl'
      <3>1. CASE ~v.current \/ hash /= v.win
        <4>1. button' = button
          BY <2>3, <3>1
        <4>2. (\E x \in vetoes : x.current /\ x.win = hash) => \E x \in vetoes' : x.current /\ x.win = hash
          BY <2>1, <3>1
        <4> QED BY <2>1, <4>1, <4>2 DEF PInv, NoDeadControl, NeverBegan
      <3>2. CASE v.current /\ hash = v.win
        <4>1. /\ button'.current /\ button'.win = hash' /\ painted'.win = hash'
              /\ button'.enabled \/ button'.label = "STOPPED"
          BY <2>1, <2>3, <2>4, <2>5, <3>2
        <4> QED BY <4>1 DEF NoDeadControl
      <3> QED BY <2>2, <3>1, <3>2
    <2> QED BY <2>6, <2>7, <2>8, <2>9, <2>10, <2>11 DEF PInv
  <1> QED BY <1>1, <1>2, <1>4, <1>5, <1>6 DEF Vetoing

-----------------------------------------------------------------------------
(* The invariant holds, and what follows from it.                          *)

LEMMA PInvInit == Init => PInv
  <1> SUFFICES ASSUME Init PROVE PInv
    OBVIOUS
  <1>1. WindowType /\ SurfaceType
    BY ButtonShape DEF Init, WindowType, SurfaceType, Places
  <1>2. /\ hash \in Windows \union {Nothing} /\ runtime = "pending"
        /\ reviews = Begun(hash, runtime) /\ painted.as = "blank"
    BY DEF Init
  <1>3. /\ reviews \subseteq Reviews /\ \A x \in reviews : x.win = hash /\ x.step = "loading"
        /\ \A x, y \in reviews : x = y
        /\ hash /= Nothing => \E x \in reviews : x.current
    BY <1>2, BegunShape
  <1>4. PromiseType /\ ReviewInv /\ RuntimeInv
    BY <1>2, <1>3 DEF Init, PromiseType, ReviewInv, RuntimeInv
  <1>5. ButtonInv /\ StoppedMeansVetoed /\ ConfirmedWasSeen
    BY ButtonShape DEF Init, ButtonInv, StoppedMeansVetoed, ConfirmedWasSeen
  <1>6. NoDeadControl
    BY <1>3 DEF NoDeadControl
  <1> QED BY <1>1, <1>4, <1>5, <1>6 DEF PInv

LEMMA PInvStep == PInv /\ [Next]_vars => PInv'
  <1> SUFFICES ASSUME PInv, [Next]_vars PROVE PInv'
    OBVIOUS
  <1>1. CASE UNCHANGED vars
    <2>1. WindowType' /\ SurfaceType' /\ PromiseType' /\ ConfirmedWasSeen'
      BY <1>1 DEF PInv, WindowType, SurfaceType, PromiseType, ConfirmedWasSeen, vars, surface, promises
    <2>2. ReviewInv' /\ RuntimeInv' /\ ButtonInv' /\ StoppedMeansVetoed' /\ NoDeadControl'
      BY <1>1 DEF PInv, ReviewInv, RuntimeInv, ButtonInv, StoppedMeansVetoed, NoDeadControl, NeverBegan, vars, surface, promises
    <2> QED BY <2>1, <2>2 DEF PInv
  <1> QED BY <1>1, TimeStep, BrowserStep, ReviewingStep, VetoingStep DEF Next, ControlPlane

LEMMA PInvHolds == Spec => []PInv
  BY PInvInit, PInvStep, PTL DEF Spec

\* Whatever is confirmed was before the owner's eyes until the request left,
\* through every navigation, blur and late answer (app.js, routeAlert).
THEOREM OnlySeenConfirmed == Spec => []ConfirmedWasSeen
  <1>1. PInv => ConfirmedWasSeen
    BY DEF PInv
  <1> QED BY <1>1, PInvHolds, PTL

\* STOPPED is true, and the page in front of its owner is on its way to the
\* window, shows it with a live control, or says that it failed (app.js,
\* wireVeto, routeAlert; owner-runtime.mjs, vetoResultAction).
THEOREM PageSound == Spec => []Inv
  <1>1. PInv => Inv
    BY DEF PInv, Inv, TypeOK, WindowType, SurfaceType, PromiseType, Reviews, Vetoes, Buttons
  <1> QED BY <1>1, PInvHolds, PTL

-----------------------------------------------------------------------------
(* The phone that becomes a device: the inductive invariant.               *)

Flights == {"none", "absent", "stored", "ready"}

Steps == {"idle", "key", "preflight", "prompts", "proofs", "posted", "adopt"}

Pages ==
    [flight : Flights, key : Keys \union {NoKey}, pc : Steps,
     inv : Invites \union {NoInvite}, told : Told,
     effect : {"none", "burned", "unproven", "admitted"}, dev : {0} \union DeviceIds]

Posts ==
    [ctx : Contexts, inv : Invites, key : Keys, open : BOOLEAN,
     answer : {"none", "created", "kept", "refused"}, dev : {0} \union DeviceIds]

\* A context over a store with key k, its ceremony, and what it told, when the
\* phone has identity id and the registry n devices.
PageKeys(x, k) ==
    /\ x.key \in {NoKey, k}
    /\ x.flight \in {"stored", "ready"} => k \in Keys
    /\ x.flight = "ready" => x.key = k
    /\ x.pc \in {"preflight", "prompts", "proofs", "posted", "adopt"} => x.flight = "ready"

PageCeremony(x, n) ==
    /\ x.pc /= "idle" => x.told = "nothing" /\ x.inv \in Invites
    /\ x.pc \in {"key", "preflight", "prompts", "proofs"} => x.effect = "none"
    /\ x.pc = "adopt" => x.effect = "admitted" /\ x.dev \in 1 .. n

PageTells(x, k, id) ==
    /\ x.told \in {"refused", "kept"} => x.effect /= "admitted"
    /\ x.told = "kept" => x.effect = "none"
    /\ x.told = "enrolled" =>
         x.effect = "admitted" /\ id /= Configured /\ x.key = k /\ k \in Keys
    /\ x.told = "server only" => x.effect = "admitted"

PageOK(x, k, id, n) ==
    x \in Pages /\ PageKeys(x, k) /\ PageCeremony(x, n) /\ PageTells(x, k, id)

PagesInv ==
    /\ ctx \in [Contexts -> Pages]
    /\ \A c \in Contexts : PageOK(ctx[c], disk.key, disk.id, Len(devices))

\* The registry has no device, or the one whose key is the store's; a record
\* that is not proven is of that key, and nothing is served beside it.
DeviceInv ==
    /\ disk \in [key : Keys \union {NoKey}, id : {Configured} \union DeviceIds]
    /\ devices = <<>> \/ (devices = <<disk.key>> /\ disk.key \in Keys)
    /\ unproven = NoKey \/ (unproven = disk.key /\ disk.key \in Keys /\ devices = <<>> /\ ~usable)
    /\ usable \in BOOLEAN /\ vouched \in BOOLEAN
    /\ disk.id \in {Configured} \union 1 .. Len(devices)
    /\ exported \in 0 .. Len(devices)
    /\ prov \in {NoKey, disk.key}
    /\ invite \in [Invites -> {"live", "gone"}]

\* A request carries the store's key, and an admission its device.
PostOK(p, k, n) == p \in Posts /\ p.key = k /\ (p.answer = "created" => p.dev \in 1 .. n)

PostsInv == \A p \in posts : PostOK(p, disk.key, Len(devices))

\* The answer that is on its way says what the request did.
Agrees(answer, effect) ==
    /\ answer \in {"none", "kept"} => effect = "none"
    /\ answer = "refused" => effect /= "admitted"
    /\ answer = "created" => effect = "admitted"

\* A request that is waited for is the only one of its context.
WaitInv ==
    /\ \A p \in posts : p.open =>
         ctx[p.ctx].pc = "posted" /\ Agrees(p.answer, ctx[p.ctx].effect)
    /\ \A p, q \in posts : p.open /\ q.open /\ p.ctx = q.ctx => p = q

\* Push enrolments are signed with the store's key under a name it has had;
\* once the escalation service keeps an exported name, it uses one.
PushInv ==
    /\ \A q \in pushes : /\ q \in [id : {Configured} \union DeviceIds, key : Keys]
                         /\ q.key = disk.key
                         /\ q.id \in {Configured} \union 1 .. Len(devices)
    /\ {sub, kept} \subseteq {Configured, Nobody} \union 1 .. exported
    /\ kept \in 1 .. exported => sub \in 1 .. exported

PhoneIInv == DeviceInv /\ PagesInv /\ PostsInv /\ WaitInv /\ PushInv

-----------------------------------------------------------------------------
(* Operators of the model.                                                 *)

LEMMA DeviceCount == Cardinality(Keys) \in Nat /\ \A k \in Keys : Cardinality(Keys) >= 1
  <1>1. Cardinality(Keys) \in Nat
    BY KeyAssumption, FS_CardinalityType
  <1>2. ASSUME NEW k \in Keys PROVE Cardinality(Keys) /= 0
    BY KeyAssumption, FS_EmptySet
  <1> QED BY <1>1, <1>2, SMT

\* There is a first device id wherever there is a key, and Nobody is none.
LEMMA Ids ==
    /\ \A k \in Keys : 1 \in DeviceIds
    /\ Nobody \in Nat /\ Nobody /= Configured /\ Nobody \notin DeviceIds
  BY DeviceCount DEF DeviceIds, Nobody, Configured

LEMMA AtShape ==
    ASSUME NEW x \in Pages, NEW pc \in Steps
    PROVE  /\ At(x, pc) \in Pages
           /\ At(x, pc).pc = pc /\ At(x, pc).flight = x.flight /\ At(x, pc).key = x.key
           /\ At(x, pc).inv = x.inv /\ At(x, pc).told = x.told
           /\ At(x, pc).effect = x.effect /\ At(x, pc).dev = x.dev
  BY DEF At, Pages, Steps

LEMMA EndedShape ==
    ASSUME NEW x \in Pages, NEW claim \in Told
    PROVE  /\ Ended(x, claim) \in Pages
           /\ Ended(x, claim).pc = "idle" /\ Ended(x, claim).flight = x.flight
           /\ Ended(x, claim).key = x.key /\ Ended(x, claim).told = claim
           /\ Ended(x, claim).effect = x.effect
  BY DEF Ended, Pages, Steps

\* What a context's record may become when its ceremony ends.
LEMMA EndedOK ==
    ASSUME NEW x, NEW k, NEW id, NEW n, PageOK(x, k, id, n), NEW claim \in Told,
           claim \in {"refused", "kept"} => x.effect /= "admitted",
           claim = "kept" => x.effect = "none",
           claim = "enrolled" =>
             x.effect = "admitted" /\ id /= Configured /\ x.key = k /\ k \in Keys,
           claim = "server only" => x.effect = "admitted"
    PROVE  PageOK(Ended(x, claim), k, id, n)
  <1>1. x \in Pages
    BY DEF PageOK
  <1>2. PageKeys(Ended(x, claim), k)
    BY <1>1, EndedShape DEF PageOK, PageKeys
  <1>3. PageCeremony(Ended(x, claim), n)
    BY <1>1, EndedShape DEF PageCeremony
  <1>4. PageTells(Ended(x, claim), k, id)
    <2> DEFINE y == Ended(x, claim)
    <2>1. y.told = claim /\ y.effect = x.effect /\ y.key = x.key
      BY <1>1, EndedShape
    <2>2. PageTells(y, k, id)
      <3> HIDE DEF y
      <3> QED BY <2>1 DEF PageTells
    <2> QED BY <2>2
  <1> QED BY <1>1, <1>2, <1>3, <1>4, EndedShape DEF PageOK

\* What it may become when its ceremony goes on.
LEMMA AtOK ==
    ASSUME NEW x, NEW k, NEW id, NEW n, PageOK(x, k, id, n), x.flight = "ready",
           x.pc \in {"key", "preflight", "prompts", "proofs"},
           NEW pc \in {"preflight", "prompts", "proofs", "posted"}
    PROVE  PageOK(At(x, pc), k, id, n)
  <1>1. x \in Pages /\ pc \in Steps
    BY DEF PageOK, Steps
  <1>2. PageKeys(At(x, pc), k)
    BY <1>1, AtShape DEF PageOK, PageKeys
  <1>3. PageCeremony(At(x, pc), n)
    BY <1>1, AtShape DEF PageOK, PageCeremony
  <1>4. PageTells(At(x, pc), k, id)
    BY <1>1, AtShape DEF PageOK, PageTells
  <1> QED BY <1>1, <1>2, <1>3, <1>4, AtShape DEF PageOK

\* A closed context claims nothing.
LEMMA ClosedOK == \A k, id, n : PageOK(Closed, k, id, n)
  <1>1. Closed \in Pages
    BY DEF Closed, Pages, Flights, Steps, Told
  <1> QED BY <1>1 DEF PageOK, PageKeys, PageCeremony, PageTells, Closed

\* The first key in the store, an enrolled identity and a new device disturb
\* no context.
LEMMA PageGrows ==
    ASSUME NEW x, NEW k, NEW id, NEW n \in Nat, PageOK(x, k, id, n),
           NEW l, NEW jd, NEW m \in Nat, k \in Keys => l = k, m >= n,
           id /= Configured => jd /= Configured
    PROVE  PageOK(x, l, jd, m)
  <1>0. x \in Pages
    BY DEF PageOK
  <1>1. PageKeys(x, l)
    <2>1. x.key \in Keys \union {NoKey}
      BY <1>0 DEF Pages
    <2> QED BY <1>0, <2>1, KeyAssumption DEF PageOK, PageKeys
  <1>2. PageCeremony(x, m)
    <2>1. \A d \in 1 .. n : d \in 1 .. m
      OBVIOUS
    <2> QED BY <2>1 DEF PageOK, PageCeremony
  <1>3. PageTells(x, l, jd)
    BY DEF PageOK, PageTells
  <1> QED BY <1>0, <1>1, <1>2, <1>3 DEF PageOK

LEMMA PostGrows ==
    ASSUME NEW p, NEW k, NEW n \in Nat, PostOK(p, k, n),
           NEW l, NEW m \in Nat, k \in Keys => l = k, m >= n
    PROVE  PostOK(p, l, m)
  <1>1. p.key \in Keys
    BY DEF PostOK, Posts
  <1>2. \A d \in 1 .. n : d \in 1 .. m
    OBVIOUS
  <1> QED BY <1>1, <1>2 DEF PostOK

\* Where the registry has a device, it is of the store's key.
LEMMA DeviceFacts ==
    ASSUME DeviceInv
    PROVE  /\ Len(devices) \in {0, 1} /\ \A d \in 1 .. Len(devices) : d = 1
           /\ DOMAIN devices = 1 .. Len(devices)
           /\ \A d \in DOMAIN devices : devices[d] = disk.key /\ disk.key \in Keys
           /\ 1 .. Len(devices) \subseteq DeviceIds
           /\ exported \in Nat /\ exported <= Len(devices)
  <1>1. CASE devices = <<>>
    <2>1. Len(devices) = 0 /\ DOMAIN devices = {} /\ 1 .. 0 = {}
      BY <1>1
    <2> QED BY <2>1 DEF DeviceInv
  <1>2. CASE devices = <<disk.key>> /\ disk.key \in Keys
    <2>1. Len(devices) = 1 /\ DOMAIN devices = {1} /\ devices[1] = disk.key /\ 1 .. 1 = {1}
      BY <1>2
    <2>2. 1 \in DeviceIds
      BY <1>2, Ids
    <2> QED BY <1>2, <2>1, <2>2 DEF DeviceInv
  <1> QED BY <1>1, <1>2 DEF DeviceInv

-----------------------------------------------------------------------------
(* Steps of one context.                                                   *)

\* A context that waits for no answer may move to any record that is right.
LEMMA PageMoves ==
    ASSUME PhoneIInv, NEW c \in Contexts, NEW x, Moves(c, x),
           PageOK(x, disk.key, disk.id, Len(devices)), ctx[c].pc /= "posted",
           UNCHANGED <<disk, posts, server, prov, push>>
    PROVE  PhoneIInv'
  <1>1. \A d \in Contexts : ctx'[d] = IF d = c THEN x ELSE ctx[d]
    BY DEF Moves, PhoneIInv, PagesInv
  <1>2. ctx' \in [Contexts -> Pages]
    BY DEF Moves, PhoneIInv, PagesInv, PageOK
  <1>3. PagesInv'
    BY <1>1, <1>2 DEF PhoneIInv, PagesInv, server, registry, standing
  <1>4. DeviceInv' /\ PostsInv'
    BY DEF PhoneIInv, DeviceInv, PostsInv, server, registry, standing
  <1>5. WaitInv'
    <2>1. \A p \in posts : p.open => p.ctx \in Contexts /\ p.ctx /= c
      BY DEF PhoneIInv, PostsInv, PostOK, Posts, WaitInv
    <2> QED BY <1>1, <2>1 DEF PhoneIInv, WaitInv
  <1>6. PushInv'
    BY DEF PhoneIInv, PushInv, server, registry, standing, push
  <1> QED BY <1>3, <1>4, <1>5, <1>6 DEF PhoneIInv

LEMMA CustodyStep == PhoneIInv /\ Custody => PhoneIInv'
  <1> SUFFICES ASSUME PhoneIInv, Custody PROVE PhoneIInv'
    OBVIOUS
  <1> USE DEF PhoneIInv
  <1>1. ASSUME NEW c \in Contexts, EnsureReads(c) PROVE PhoneIInv'
    <2> DEFINE x == [ctx[c] EXCEPT !.flight = IF disk.key = NoKey THEN "absent" ELSE "stored"]
    <2>1. PageOK(ctx[c], disk.key, disk.id, Len(devices)) /\ ctx[c] \in Pages
      BY DEF PagesInv, PageOK
    <2>2. /\ x \in Pages /\ x.flight \in {"absent", "stored"}
          /\ x.flight = "stored" => disk.key \in Keys
          /\ x.key = ctx[c].key /\ x.pc = ctx[c].pc /\ x.inv = ctx[c].inv /\ x.told = ctx[c].told
          /\ x.effect = ctx[c].effect /\ x.dev = ctx[c].dev
      BY <2>1 DEF Pages, Flights, DeviceInv
    <2>3. Moves(c, x) /\ ctx[c].flight = "none"
      BY <1>1 DEF EnsureReads
    <2> HIDE DEF x
    <2>4. PageOK(x, disk.key, disk.id, Len(devices)) /\ ctx[c].pc /= "posted"
      BY <2>1, <2>2, <2>3 DEF PageOK, PageKeys, PageCeremony, PageTells
    <2> QED BY <1>1, <2>3, <2>4, PageMoves DEF EnsureReads
  <1>2. ASSUME NEW c \in Contexts, EnsureReadsBack(c) PROVE PhoneIInv'
    <2> DEFINE x == [ctx[c] EXCEPT !.flight = "ready", !.key = disk.key]
    <2>1. PageOK(ctx[c], disk.key, disk.id, Len(devices)) /\ ctx[c] \in Pages
      BY DEF PagesInv, PageOK
    <2>2. /\ x \in Pages /\ x.flight = "ready" /\ x.key = disk.key
          /\ x.pc = ctx[c].pc /\ x.inv = ctx[c].inv /\ x.told = ctx[c].told
          /\ x.effect = ctx[c].effect /\ x.dev = ctx[c].dev
      BY <2>1 DEF Pages, Flights, DeviceInv
    <2>3. Moves(c, x) /\ ctx[c].flight = "stored"
      BY <1>2 DEF EnsureReadsBack
    <2> HIDE DEF x
    <2>4. PageOK(x, disk.key, disk.id, Len(devices)) /\ ctx[c].pc /= "posted"
      BY <2>1, <2>2, <2>3 DEF PageOK, PageKeys, PageCeremony, PageTells
    <2> QED BY <1>2, <2>3, <2>4, PageMoves DEF EnsureReadsBack
  <1>3. ASSUME NEW c \in Contexts, EnsureFails(c) PROVE PhoneIInv'
    <2> DEFINE x == [ctx[c] EXCEPT !.flight = "none"]
               y == IF x.pc = "key" THEN Ended(x, "refused") ELSE x
    <2>1. PageOK(ctx[c], disk.key, disk.id, Len(devices)) /\ ctx[c] \in Pages
      BY DEF PagesInv, PageOK
    <2>2. /\ x \in Pages /\ x.flight = "none" /\ x.key = ctx[c].key
          /\ x.pc = ctx[c].pc /\ x.inv = ctx[c].inv /\ x.told = ctx[c].told
          /\ x.effect = ctx[c].effect /\ x.dev = ctx[c].dev
      BY <2>1 DEF Pages, Flights
    <2>3. Moves(c, y) /\ ctx[c].flight \in {"absent", "stored"}
      BY <1>3 DEF EnsureFails
    <2> HIDE DEF x
    <2>4. PageOK(x, disk.key, disk.id, Len(devices)) /\ ctx[c].pc /= "posted"
      BY <2>1, <2>2, <2>3 DEF PageOK, PageKeys, PageCeremony, PageTells
    <2>5. x.pc = "key" => PageOK(Ended(x, "refused"), disk.key, disk.id, Len(devices))
      BY <2>4, EndedOK DEF PageOK, PageCeremony, Told
    <2>6. PageOK(y, disk.key, disk.id, Len(devices))
      BY <2>4, <2>5
    <2> HIDE DEF y
    <2> QED BY <1>3, <2>3, <2>4, <2>6, PageMoves DEF EnsureFails
  <1>4. ASSUME NEW c \in Contexts, NEW k \in Keys, EnsureAdds(c, k) PROVE PhoneIInv'
    <2> DEFINE x == [ctx[c] EXCEPT !.flight = "stored"]
    <2>1. PageOK(ctx[c], disk.key, disk.id, Len(devices)) /\ ctx[c] \in Pages
      BY DEF PagesInv, PageOK
    <2>2. /\ x \in Pages /\ x.flight = "stored" /\ x.key = ctx[c].key
          /\ x.pc = ctx[c].pc /\ x.inv = ctx[c].inv /\ x.told = ctx[c].told
          /\ x.effect = ctx[c].effect /\ x.dev = ctx[c].dev
      BY <2>1 DEF Pages, Flights
    <2>3. Moves(c, x) /\ ctx[c].flight = "absent"
      BY <1>4 DEF EnsureAdds
    <2> HIDE DEF x
    <2>4. /\ disk' \in [key : Keys \union {NoKey}, id : {Configured} \union DeviceIds]
          /\ disk'.id = disk.id /\ disk'.key \in Keys
          /\ disk.key \in Keys => disk'.key = disk.key
          /\ disk.key = NoKey \/ disk.key \in Keys
      BY <1>4, KeyAssumption DEF EnsureAdds, AddKey, DeviceInv
    <2>5. UNCHANGED <<posts, invite, devices, unproven, usable, exported, vouched, prov, pushes, sub, kept>>
      BY <1>4 DEF EnsureAdds, server, registry, standing, push
    <2>6. Len(devices) \in Nat
      BY DeviceFacts
    <2>7. \A d \in Contexts : PageOK(ctx[d], disk'.key, disk.id, Len(devices))
      BY <2>4, <2>6, PageGrows DEF PagesInv
    <2>8. PageOK(x, disk'.key, disk.id, Len(devices)) /\ x.pc = ctx[c].pc /\ x.effect = ctx[c].effect
      BY <2>2, <2>3, <2>4, <2>7 DEF PageOK, PageKeys, PageCeremony, PageTells
    <2>9. \A d \in Contexts : ctx'[d] = IF d = c THEN x ELSE ctx[d]
      BY <2>3 DEF Moves, PagesInv
    <2>10. PagesInv'
      <3>1. ctx' \in [Contexts -> Pages]
        BY <2>2, <2>3 DEF Moves, PagesInv
      <3> QED BY <2>4, <2>5, <2>7, <2>8, <2>9, <3>1 DEF PagesInv
    <2>11. DeviceInv'
      <3>1. devices = <<>> \/ (devices = <<disk'.key>> /\ disk'.key \in Keys)
        BY <2>4 DEF DeviceInv
      <3>2. prov \in {NoKey, disk'.key}
        BY <2>4 DEF DeviceInv
      <3> QED BY <2>4, <2>5, <3>1, <3>2 DEF DeviceInv
    <2>12. PostsInv'
      BY <2>4, <2>5, <2>6, PostGrows DEF PostsInv
    <2>13. WaitInv'
      <3>1. \A p \in posts : p.ctx \in Contexts
        BY DEF PostsInv, PostOK, Posts
      <3>2. \A d \in Contexts : ctx'[d].pc = ctx[d].pc /\ ctx'[d].effect = ctx[d].effect
        BY <2>8, <2>9
      <3> QED BY <2>5, <3>1, <3>2 DEF WaitInv
    <2>14. PushInv'
      <3>1. \A q \in pushes : q.key \in Keys
        BY DEF PushInv
      <3> QED BY <2>4, <2>5, <3>1 DEF PushInv
    <2> QED BY <2>10, <2>11, <2>12, <2>13, <2>14
  <1> QED BY <1>1, <1>2, <1>3, <1>4 DEF Custody

LEMMA CeremonyStep == PhoneIInv /\ Ceremony => PhoneIInv'
  <1> SUFFICES ASSUME PhoneIInv, NEW c \in Contexts,
                      \/ \E i \in Invites : EnrollClick(c, i)
                      \/ KeyReady(c) \/ NotAnInvite(c) \/ NotVouched(c) \/ Mismatched(c)
                      \/ Vouched(c) \/ Created(c) \/ Dismissed(c) \/ PostEnroll(c)
                      \/ Adopt(c) \/ AdoptFails(c)
               PROVE  PhoneIInv'
    BY DEF Ceremony
  <1> DEFINE OK(x) == PageOK(x, disk.key, disk.id, Len(devices))
  <1>1. OK(ctx[c]) /\ ctx[c] \in Pages
    BY DEF PhoneIInv, PagesInv, PageOK
  <1>2. ASSUME NEW i \in Invites, EnrollClick(c, i) PROVE PhoneIInv'
    <2> DEFINE x == [ctx[c] EXCEPT !.pc = "key", !.inv = i, !.told = "nothing", !.effect = "none"]
    <2>1. /\ x \in Pages /\ x.pc = "key" /\ x.inv = i /\ x.told = "nothing" /\ x.effect = "none"
          /\ x.flight = ctx[c].flight /\ x.key = ctx[c].key
      BY <1>1 DEF Pages, Steps, Told
    <2>2. Moves(c, x) /\ ctx[c].pc = "idle"
      BY <1>2 DEF EnrollClick
    <2> HIDE DEF x
    <2>3. OK(x)
      BY <1>1, <2>1 DEF PageOK, PageKeys, PageCeremony, PageTells
    <2> HIDE DEF OK
    <2> QED BY <1>2, <2>2, <2>3, PageMoves DEF EnrollClick, OK
  <1>3. ASSUME NEW from \in {"key", "preflight", "prompts"}, NEW to \in {"preflight", "prompts", "proofs"},
               ctx[c].pc = from, ctx[c].flight = "ready", Moves(c, At(ctx[c], to)),
               UNCHANGED <<disk, posts, server, prov, push>>
        PROVE  PhoneIInv'
    <2>1. OK(At(ctx[c], to))
      BY <1>1, <1>3, AtOK
    <2> QED BY <1>3, <2>1, PageMoves
  <1>4. ASSUME NEW claim \in {"refused", "kept"}, ctx[c].pc \in {"preflight", "prompts", "proofs"},
               Moves(c, Ended(ctx[c], claim)), UNCHANGED <<disk, posts, server, prov, push>>
        PROVE  PhoneIInv'
    <2>1. claim \in Told /\ ctx[c].effect = "none"
      BY <1>1, <1>4 DEF Told, PageOK, PageCeremony
    <2>2. OK(Ended(ctx[c], claim))
      BY <1>1, <2>1, EndedOK
    <2> QED BY <1>4, <2>2, PageMoves
  <1>5. ctx[c].pc \in {"preflight", "prompts", "proofs", "posted", "adopt"} => ctx[c].flight = "ready"
    BY <1>1 DEF PageOK, PageKeys
  <1>6. CASE KeyReady(c)
    BY <1>3, <1>6 DEF KeyReady
  <1>7. CASE Vouched(c)
    BY <1>3, <1>5, <1>7 DEF Vouched
  <1>8. CASE Created(c)
    BY <1>3, <1>5, <1>8 DEF Created
  <1>9. CASE NotAnInvite(c) \/ NotVouched(c) \/ Mismatched(c) \/ Dismissed(c)
    <2>1. PICK claim \in {"refused", "kept"} : Moves(c, Ended(ctx[c], claim))
      BY <1>9 DEF NotAnInvite, NotVouched, Mismatched, Dismissed
    <2>2. /\ ctx[c].pc \in {"preflight", "prompts", "proofs"}
          /\ UNCHANGED <<disk, posts, server, prov, push>>
      BY <1>9 DEF NotAnInvite, NotVouched, Mismatched, Dismissed
    <2> QED BY <1>4, <2>1, <2>2
  <1>10. CASE AdoptFails(c)
    <2>1. OK(Ended(ctx[c], "server only")) /\ ctx[c].pc = "adopt"
      <3>1. ctx[c].effect = "admitted" /\ "server only" \in Told
        BY <1>1, <1>10 DEF AdoptFails, PageOK, PageCeremony, Told
      <3> QED BY <1>1, <1>10, <3>1, EndedOK DEF AdoptFails
    <2> QED BY <1>10, <2>1, PageMoves DEF AdoptFails
  <1>11. CASE PostEnroll(c)
    <2> DEFINE p == [ctx |-> c, inv |-> ctx[c].inv, key |-> ctx[c].key, open |-> TRUE,
                     answer |-> "none", dev |-> 0]
               x == At(ctx[c], "posted")
    <2>1. ctx[c].flight = "ready" /\ ctx[c].pc = "proofs" /\ ctx[c].effect = "none"
      BY <1>1, <1>5, <1>11 DEF PostEnroll, PageOK, PageCeremony
    <2>2. OK(x) /\ x.pc = "posted" /\ x.effect = "none"
      BY <1>1, <2>1, AtOK, AtShape DEF Steps
    <2>3. /\ ctx[c].inv \in Invites /\ ctx[c].key = disk.key /\ disk.key \in Keys
      BY <1>1, <2>1 DEF PageOK, PageKeys, PageCeremony
    <2>4. PostOK(p, disk.key, Len(devices)) /\ p.open /\ p.ctx = c /\ p.answer = "none"
      BY <2>3 DEF PostOK, Posts
    <2>5. posts' = posts \union {p} /\ Moves(c, x)
      BY <1>11 DEF PostEnroll
    <2> HIDE DEF x, p
    <2>6. UNCHANGED <<disk, invite, devices, unproven, usable, exported, vouched, prov, pushes, sub, kept>>
      BY <1>11 DEF PostEnroll, server, registry, standing, push
    <2>7. \A d \in Contexts : ctx'[d] = IF d = c THEN x ELSE ctx[d]
      BY <2>5 DEF Moves, PhoneIInv, PagesInv
    <2>8. PagesInv'
      <3>1. ctx' \in [Contexts -> Pages]
        BY <2>2, <2>5 DEF Moves, PhoneIInv, PagesInv, PageOK
      <3> QED BY <2>2, <2>6, <2>7, <3>1 DEF PhoneIInv, PagesInv
    <2>9. DeviceInv' /\ PushInv'
      BY <2>6 DEF PhoneIInv, DeviceInv, PushInv
    <2>10. PostsInv'
      BY <2>4, <2>5, <2>6 DEF PhoneIInv, PostsInv
    <2>11. WaitInv'
      <3>1. \A q \in posts : q.open => q.ctx \in Contexts /\ q.ctx /= c
        BY <2>1 DEF PhoneIInv, PostsInv, PostOK, Posts, WaitInv
      <3>2. Agrees(p.answer, x.effect)
        BY <2>2, <2>4 DEF Agrees
      <3> QED BY <2>2, <2>4, <2>5, <2>7, <3>1, <3>2 DEF PhoneIInv, WaitInv
    <2> QED BY <2>8, <2>9, <2>10, <2>11 DEF PhoneIInv
  <1>12. CASE Adopt(c)
    <2> DEFINE x == Ended(ctx[c], "enrolled")
    <2>1. /\ ctx[c].effect = "admitted" /\ ctx[c].dev \in 1 .. Len(devices)
          /\ ctx[c].key = disk.key /\ disk.key \in Keys /\ ctx[c].pc = "adopt"
      BY <1>1, <1>12 DEF Adopt, PageOK, PageKeys, PageCeremony
    <2>2. /\ Len(devices) \in Nat /\ 1 .. Len(devices) \subseteq DeviceIds
          /\ 0 \notin 1 .. Len(devices)
      BY DeviceFacts DEF PhoneIInv
    <2>3. /\ disk' \in [key : Keys \union {NoKey}, id : {Configured} \union DeviceIds]
          /\ disk'.key = disk.key /\ disk'.id = ctx[c].dev /\ disk'.id /= Configured
      BY <1>12, <2>1, <2>2 DEF Adopt, PhoneIInv, DeviceInv, Configured
    <2>4. \A d \in Contexts : PageOK(ctx[d], disk'.key, disk'.id, Len(devices))
      BY <2>2, <2>3, PageGrows DEF PhoneIInv, PagesInv
    <2>5. PageOK(x, disk'.key, disk'.id, Len(devices))
      BY <2>1, <2>3, <2>4, EndedOK DEF Told
    <2>6. Moves(c, x) /\ UNCHANGED <<posts, invite, devices, unproven, usable, exported, vouched, prov, pushes, sub, kept>>
      BY <1>12 DEF Adopt, server, registry, standing, push
    <2> HIDE DEF x
    <2>7. \A d \in Contexts : ctx'[d] = IF d = c THEN x ELSE ctx[d]
      BY <2>6 DEF Moves, PhoneIInv, PagesInv
    <2>8. PagesInv'
      <3>1. ctx' \in [Contexts -> Pages]
        BY <2>5, <2>6 DEF Moves, PhoneIInv, PagesInv, PageOK
      <3> QED BY <2>4, <2>5, <2>6, <2>7, <3>1 DEF PagesInv
    <2>9. DeviceInv'
      BY <2>1, <2>3, <2>6 DEF PhoneIInv, DeviceInv
    <2>10. PostsInv' /\ PushInv'
      BY <2>3, <2>6 DEF PhoneIInv, PostsInv, PushInv
    <2>11. WaitInv'
      <3>1. \A q \in posts : q.open => q.ctx \in Contexts /\ q.ctx /= c
        BY <2>1 DEF PhoneIInv, PostsInv, PostOK, Posts, WaitInv
      <3> QED BY <2>6, <2>7, <3>1 DEF PhoneIInv, WaitInv
    <2> QED BY <2>8, <2>9, <2>10, <2>11 DEF PhoneIInv
  <1> QED BY <1>2, <1>6, <1>7, <1>8, <1>9, <1>10, <1>11, <1>12

-----------------------------------------------------------------------------
(* Requests and their answers.                                             *)

\* A request that nobody waits for, or that is gone, disturbs nothing.
LEMMA PostGoes ==
    ASSUME PhoneIInv, NEW p \in posts, NEW rest, rest \subseteq {[p EXCEPT !.open = FALSE]},
           posts' = (posts \ {p}) \union rest, UNCHANGED <<disk, server, prov, push>>,
           \/ UNCHANGED ctx
           \/ p.open /\ \E x : Moves(p.ctx, x) /\ PageOK(x, disk.key, disk.id, Len(devices))
    PROVE  PhoneIInv'
  <1>1. \A q \in posts' : (q \in posts /\ q /= p) \/ (PostOK(q, disk.key, Len(devices)) /\ ~q.open)
    BY DEF PhoneIInv, PostsInv, PostOK, Posts
  <1>2. DeviceInv' /\ PushInv'
    BY DEF PhoneIInv, DeviceInv, PushInv, server, registry, standing, push
  <1>3. PostsInv'
    BY <1>1 DEF PhoneIInv, PostsInv, server, registry, standing
  <1>4. CASE UNCHANGED ctx
    <2>1. PagesInv'
      BY <1>4 DEF PhoneIInv, PagesInv, server, registry, standing
    <2>2. WaitInv'
      BY <1>1, <1>4 DEF PhoneIInv, WaitInv
    <2> QED BY <1>2, <1>3, <2>1, <2>2 DEF PhoneIInv
  <1>5. ASSUME p.open, NEW x, Moves(p.ctx, x), PageOK(x, disk.key, disk.id, Len(devices))
        PROVE  PhoneIInv'
    <2>1. p.ctx \in Contexts
      BY DEF PhoneIInv, PostsInv, PostOK, Posts
    <2>2. \A d \in Contexts : ctx'[d] = IF d = p.ctx THEN x ELSE ctx[d]
      BY <1>5, <2>1 DEF Moves, PhoneIInv, PagesInv
    <2>3. ctx' \in [Contexts -> Pages]
      BY <1>5, <2>1 DEF Moves, PhoneIInv, PagesInv, PageOK
    <2>4. PagesInv'
      BY <1>5, <2>2, <2>3 DEF PhoneIInv, PagesInv, server, registry, standing
    <2>5. WaitInv'
      <3>1. \A q \in posts' : q.open => q \in posts /\ q.ctx \in Contexts /\ q.ctx /= p.ctx
        BY <1>1, <1>5 DEF PhoneIInv, WaitInv, PostsInv, PostOK, Posts
      <3> QED BY <2>2, <3>1 DEF PhoneIInv, WaitInv
    <2> QED BY <1>2, <1>3, <2>4, <2>5 DEF PhoneIInv
  <1> QED BY <1>4, <1>5

\* A request is served: its context, if it waits, waits for the answer now.
LEMMA ServedKeeps ==
    ASSUME PhoneIInv, NEW p \in posts, NEW d \in {0} \union DeviceIds,
           NEW effect \in {"none", "burned", "unproven", "admitted"},
           NEW answer \in {"created", "kept", "refused"},
           Served(p, effect, answer, d), Agrees(answer, effect), UNCHANGED disk,
           Len(devices') \in Nat, Len(devices') >= Len(devices),
           answer = "created" => d \in 1 .. Len(devices')
    PROVE  PagesInv' /\ PostsInv' /\ WaitInv'
  <1> DEFINE m == Len(devices')
             q == [p EXCEPT !.answer = answer, !.dev = d]
             x == [ctx[p.ctx] EXCEPT !.effect = effect]
  <1>1. Len(devices) \in Nat
    BY DeviceFacts DEF PhoneIInv
  <1>2. \A c \in Contexts : PageOK(ctx[c], disk.key, disk.id, m)
    BY <1>1, PageGrows DEF PhoneIInv, PagesInv
  <1>3. \A r \in posts : PostOK(r, disk.key, m)
    BY <1>1, PostGrows DEF PhoneIInv, PostsInv
  <1>4. p.ctx \in Contexts /\ p \in Posts
    BY <1>3 DEF PostOK, Posts
  <1>5. PostOK(q, disk.key, m) /\ q.open = p.open /\ q.ctx = p.ctx /\ q.answer = answer
    BY <1>3, <1>4 DEF PostOK, Posts
  <1>6. CASE ~p.open
    <2>1. posts' = posts \ {p} /\ UNCHANGED ctx
      BY <1>6 DEF Served
    <2>2. PagesInv'
      BY <1>2, <2>1 DEF PhoneIInv, PagesInv
    <2>3. PostsInv' /\ WaitInv'
      BY <1>3, <2>1 DEF PhoneIInv, PostsInv, WaitInv
    <2> QED BY <2>2, <2>3
  <1>7. CASE p.open
    <2>1. posts' = (posts \ {p}) \union {q} /\ Moves(p.ctx, x)
      BY <1>7 DEF Served
    <2>2. ctx[p.ctx].pc = "posted" /\ ctx[p.ctx] \in Pages
      BY <1>4, <1>7 DEF PhoneIInv, WaitInv, PagesInv
    <2>3. /\ x \in Pages /\ x.effect = effect /\ x.pc = "posted" /\ x.told = ctx[p.ctx].told
          /\ x.inv = ctx[p.ctx].inv /\ x.key = ctx[p.ctx].key /\ x.flight = ctx[p.ctx].flight
      BY <2>2 DEF Pages
    <2> HIDE DEF q, x
    <2>4. PageOK(x, disk.key, disk.id, m)
      BY <1>2, <1>4, <2>2, <2>3 DEF PageOK, PageKeys, PageCeremony, PageTells
    <2>5. \A c \in Contexts : ctx'[c] = IF c = p.ctx THEN x ELSE ctx[c]
      BY <1>4, <2>1 DEF Moves, PhoneIInv, PagesInv
    <2>6. ctx' \in [Contexts -> Pages]
      BY <1>4, <2>1, <2>3 DEF Moves, PhoneIInv, PagesInv
    <2>7. PagesInv'
      BY <1>2, <2>4, <2>5, <2>6 DEF PagesInv
    <2>8. PostsInv'
      BY <1>3, <1>5, <2>1 DEF PostsInv
    <2>9. WaitInv'
      <3>1. \A r \in posts \ {p} : r.open => r.ctx \in Contexts /\ r.ctx /= p.ctx
        BY <1>3, <1>7 DEF PhoneIInv, WaitInv, PostOK, Posts
      <3> QED BY <1>4, <1>5, <2>1, <2>3, <2>5, <3>1 DEF PhoneIInv, WaitInv
    <2> QED BY <2>7, <2>8, <2>9
  <1> QED BY <1>6, <1>7

\* The key of a request is the store's, so that it is admitted to an empty
\* registry or not at all.
LEMMA AdmissibleIsFirst ==
    ASSUME PhoneIInv, NEW p \in posts, Admissible(p)
    PROVE  devices = <<>>
  <1>1. p.key = disk.key
    BY DEF PhoneIInv, PostsInv, PostOK
  <1>2. CASE devices = <<disk.key>>
    <2>1. 1 \in DOMAIN devices /\ devices[1] = disk.key
      BY <1>2
    <2> QED BY <1>1, <2>1 DEF Admissible
  <1> QED BY <1>2 DEF PhoneIInv, DeviceInv

LEMMA AdmittedStep == ASSUME PhoneIInv, NEW p \in posts, ServeAdmitted(p) PROVE PhoneIInv'
  <1>1. p.key = disk.key /\ p.key \in Keys /\ p.inv \in Invites
    BY DEF PhoneIInv, PostsInv, PostOK, Posts
  <1>2. devices = <<>>
    BY AdmissibleIsFirst DEF ServeAdmitted
  <1>3. devices' = <<disk.key>> /\ Len(devices') = 1 /\ Len(devices) = 0 /\ 1 .. 1 = {1} /\ 1 .. 0 = {}
    <2>1. devices' = Append(<<>>, disk.key)
      BY <1>1, <1>2 DEF ServeAdmitted
    <2> QED BY <1>2, <2>1
  <1>4. 1 \in DeviceIds
    BY <1>1, Ids
  <1>5. /\ UNCHANGED <<disk, unproven, usable, vouched, prov, pushes, sub, kept>>
        /\ exported' \in {exported, 1} /\ exported = 0 /\ usable
    BY <1>3 DEF Admissible, ServeAdmitted, push, PhoneIInv, DeviceInv
  <1>6. DeviceInv'
    <2>1. invite' \in [Invites -> {"live", "gone"}]
      BY <1>1 DEF ServeAdmitted, Burn, PhoneIInv, DeviceInv
    <2>2. disk.id = Configured
      BY <1>3 DEF PhoneIInv, DeviceInv
    <2>3. exported' \in 0 .. 1 /\ Configured \in {Configured} \union 1 .. 1
      BY <1>5
    <2>4. disk' \in [key : Keys \union {NoKey}, id : {Configured} \union DeviceIds]
      BY <1>5 DEF PhoneIInv, DeviceInv
    <2>5. prov' \in {NoKey, disk'.key}
      BY <1>5 DEF PhoneIInv, DeviceInv
    <2>6. unproven' = NoKey /\ usable' \in BOOLEAN /\ vouched' \in BOOLEAN
      BY <1>5 DEF PhoneIInv, DeviceInv
    <2> QED BY <1>1, <1>3, <1>5, <2>1, <2>2, <2>3, <2>4, <2>5, <2>6 DEF DeviceInv
  <1>7. PushInv'
    <2>1. {sub, kept} \subseteq {Configured, Nobody}
      BY <1>3, <1>5 DEF PhoneIInv, PushInv
    <2>2. kept \notin 1 .. exported'
      <3>1. 1 .. exported' \subseteq {1}
        BY <1>5
      <3>2. Configured \notin {1} /\ Nobody \notin {1}
        BY <1>4, Ids DEF Configured
      <3> QED BY <2>1, <3>1, <3>2
    <2>3. \A q \in pushes : /\ q \in [id : {Configured} \union DeviceIds, key : Keys]
                            /\ q.key = disk.key
                            /\ q.id \in {Configured} \union 1 .. 1
      BY <1>3 DEF PhoneIInv, PushInv
    <2> QED BY <1>3, <1>5, <2>1, <2>2, <2>3 DEF PushInv
  <1>8. PagesInv' /\ PostsInv' /\ WaitInv'
    <2>1. Served(p, "admitted", "created", 1)
      BY <1>3 DEF ServeAdmitted
    <2> QED BY <1>3, <1>4, <1>5, <2>1, ServedKeeps DEF Agrees
  <1> QED BY <1>6, <1>7, <1>8 DEF PhoneIInv

LEMMA RequestStep == PhoneIInv /\ Requests => PhoneIInv'
  <1> SUFFICES ASSUME PhoneIInv, NEW p \in posts,
                      \/ ServeAdmitted(p) \/ ServeUnproven(p) \/ ServeKept(p) \/ ServeGone(p)
                      \/ ServeUnusable(p)
                      \/ PostFails(p) \/ PostForgotten(p) \/ EnrollRefused(p) \/ EnrollCreated(p)
               PROVE  PhoneIInv'
    BY DEF Requests
  <1> DEFINE OK(x) == PageOK(x, disk.key, disk.id, Len(devices))
  <1>1. PostOK(p, disk.key, Len(devices)) /\ p \in Posts /\ p.ctx \in Contexts /\ p.inv \in Invites
    BY DEF PhoneIInv, PostsInv, PostOK, Posts
  <1>2. OK(ctx[p.ctx]) /\ ctx[p.ctx] \in Pages
    BY <1>1 DEF PhoneIInv, PagesInv, PageOK
  <1>3. p.open => ctx[p.ctx].pc = "posted" /\ Agrees(p.answer, ctx[p.ctx].effect)
    BY DEF PhoneIInv, WaitInv
  <1>4. Len(devices) \in Nat
    BY DeviceFacts DEF PhoneIInv
  <1>5. CASE ServeKept(p) \/ ServeUnusable(p)
    <2>1. UNCHANGED <<disk, invite, devices, unproven, usable, exported, vouched, prov, pushes, sub, kept>>
      BY <1>5 DEF ServeKept, ServeUnusable, server, registry, standing, push
    <2>2. DeviceInv' /\ PushInv'
      BY <2>1 DEF PhoneIInv, DeviceInv, PushInv
    <2>3. PagesInv' /\ PostsInv' /\ WaitInv'
      BY <1>4, <1>5, <2>1, ServedKeeps DEF ServeKept, ServeUnusable, Agrees
    <2> QED BY <2>2, <2>3 DEF PhoneIInv
  <1>6. CASE ServeGone(p) \/ ServeUnproven(p)
    <2>1. UNCHANGED <<disk, devices, exported, vouched, prov, pushes, sub, kept>>
      BY <1>6 DEF ServeGone, ServeUnproven, registry, standing, push
    <2>2. invite' \in [Invites -> {"live", "gone"}]
      BY <1>1, <1>6 DEF ServeGone, ServeUnproven, Burn, PhoneIInv, DeviceInv
    <2>3. \/ UNCHANGED <<unproven, usable>>
          \/ unproven' = disk.key /\ disk.key \in Keys /\ devices = <<>> /\ usable' = FALSE
      <3>1. CASE ServeGone(p)
        BY <3>1 DEF ServeGone, registry
      <3>2. CASE ServeUnproven(p)
        BY <1>1, <3>2, AdmissibleIsFirst DEF ServeUnproven, PostOK, Posts
      <3> QED BY <1>6, <3>1, <3>2
    <2>4. DeviceInv'
      <3>1. CASE UNCHANGED <<unproven, usable>>
        BY <2>1, <2>2, <3>1 DEF PhoneIInv, DeviceInv
      <3>2. CASE unproven' = disk.key /\ disk.key \in Keys /\ devices = <<>> /\ usable' = FALSE
        <4>1. /\ disk' \in [key : Keys \union {NoKey}, id : {Configured} \union DeviceIds]
              /\ devices' = <<>> \/ (devices' = <<disk'.key>> /\ disk'.key \in Keys)
          BY <2>1 DEF PhoneIInv, DeviceInv
        <4>2. unproven' = disk'.key /\ disk'.key \in Keys /\ devices' = <<>> /\ ~usable'
          BY <2>1, <3>2
        <4>3. usable' \in BOOLEAN /\ vouched' \in BOOLEAN
          BY <2>1, <3>2 DEF PhoneIInv, DeviceInv
        <4>4. Len(devices') = Len(devices)
          BY <2>1
        <4>5. disk'.id \in {Configured} \union 1 .. Len(devices')
          BY <2>1, <4>4 DEF PhoneIInv, DeviceInv
        <4>6. exported' \in 0 .. Len(devices') /\ prov' \in {NoKey, disk'.key}
          BY <2>1, <4>4 DEF PhoneIInv, DeviceInv
        <4> QED BY <2>2, <4>1, <4>2, <4>3, <4>5, <4>6 DEF DeviceInv
      <3> QED BY <2>3, <3>1, <3>2
    <2>5. PushInv'
      BY <2>1 DEF PhoneIInv, PushInv
    <2>6. PICK effect \in {"none", "burned", "unproven"} : Served(p, effect, "refused", 0)
      BY <1>6 DEF ServeGone, ServeUnproven
    <2>7. Agrees("refused", effect)
      BY DEF Agrees
    <2>8. PagesInv' /\ PostsInv' /\ WaitInv'
      BY <1>4, <2>1, <2>6, <2>7, ServedKeeps
    <2> QED BY <2>4, <2>5, <2>8 DEF PhoneIInv
  <1>7. CASE PostFails(p)
    <2>1. OK(Ended(ctx[p.ctx], "nothing"))
      BY <1>2, EndedOK DEF Told
    <2>2. Abandoned({p}) \subseteq {[p EXCEPT !.open = FALSE]}
      BY DEF Abandoned
    <2>3. Moves(p.ctx, Ended(ctx[p.ctx], "nothing")) /\ p.open
      BY <1>7 DEF PostFails, LostAnswer
    <2> QED BY <1>7, <2>1, <2>2, <2>3, PostGoes DEF PostFails
  <1>8. CASE PostForgotten(p)
    <2>1. posts' = (posts \ {p}) \union {} /\ UNCHANGED ctx /\ UNCHANGED <<disk, server, prov, push>>
      BY <1>8 DEF PostForgotten
    <2> QED BY <2>1, PostGoes
  <1>9. CASE EnrollRefused(p)
    <2> DEFINE claim == p.answer
    <2>1. claim \in {"kept", "refused"} /\ claim \in Told
      BY <1>9 DEF EnrollRefused, Told
    <2>2. /\ ctx[p.ctx].effect /= "admitted"
          /\ claim = "kept" => ctx[p.ctx].effect = "none"
      BY <1>3, <1>9 DEF EnrollRefused, Agrees
    <2>3. p.open /\ Moves(p.ctx, Ended(ctx[p.ctx], claim))
      BY <1>9 DEF EnrollRefused
    <2> HIDE DEF claim
    <2>4. OK(Ended(ctx[p.ctx], claim))
      BY <1>2, <2>1, <2>2, EndedOK
    <2>5. posts' = (posts \ {p}) \union {} /\ UNCHANGED <<disk, server, prov, push>>
      BY <1>9 DEF EnrollRefused
    <2> QED BY <2>3, <2>4, <2>5, PostGoes
  <1>10. CASE EnrollCreated(p)
    <2> DEFINE x == [ctx[p.ctx] EXCEPT !.pc = "adopt", !.dev = p.dev]
    <2>1. p.open /\ p.answer = "created" /\ Moves(p.ctx, x)
      BY <1>10 DEF EnrollCreated
    <2>2. p.dev \in 1 .. Len(devices) /\ p.dev \in {0} \union DeviceIds
      BY <1>1, <2>1 DEF PostOK, Posts
    <2>3. /\ x \in Pages /\ x.pc = "adopt" /\ x.dev = p.dev
          /\ x.effect = ctx[p.ctx].effect /\ x.told = ctx[p.ctx].told /\ x.inv = ctx[p.ctx].inv
          /\ x.key = ctx[p.ctx].key /\ x.flight = ctx[p.ctx].flight
      BY <1>2, <2>2 DEF Pages, Steps
    <2>4. ctx[p.ctx].pc = "posted" /\ ctx[p.ctx].effect = "admitted"
      BY <1>3, <2>1 DEF Agrees
    <2> HIDE DEF x
    <2>5. OK(x)
      BY <1>2, <2>2, <2>3, <2>4 DEF PageOK, PageKeys, PageCeremony, PageTells
    <2>6. posts' = (posts \ {p}) \union {} /\ UNCHANGED <<disk, server, prov, push>>
      BY <1>10 DEF EnrollCreated
    <2> QED BY <2>1, <2>5, <2>6, PostGoes
  <1> QED BY <1>5, <1>6, <1>7, <1>8, <1>9, <1>10, AdmittedStep

-----------------------------------------------------------------------------
(* Push enrolments, and everything else that happens.                      *)

\* A request that the escalation service accepts under the configured id is
\* from before the phone's device was exported.
LEMMA ConfiguredIsEarly ==
    ASSUME PhoneIInv, NEW q \in pushes, Enrollable(q), q.id = Configured
    PROVE  1 .. exported = {}
  <1>1. q.key = prov /\ q.key = disk.key
    BY DEF Enrollable, Verifies, KeyOf, PhoneIInv, PushInv
  <1>2. \A d \in 1 .. exported : devices[d] /= prov
    BY DEF Enrollable, GoodStanding
  <1>3. \A d \in 1 .. exported : d \in 1 .. Len(devices)
    BY DeviceFacts DEF PhoneIInv
  <1> QED BY <1>1, <1>2, <1>3, DeviceFacts DEF PhoneIInv

LEMMA AcceptedName ==
    ASSUME PhoneIInv, NEW q \in pushes, Enrollable(q)
    PROVE  q.id \in {Configured} \union 1 .. exported
  BY DEF Enrollable, GoodStanding

\* The standing file comes to name the phone: no subscription is of that name
\* yet.
LEMMA PushGrows ==
    ASSUME PhoneIInv, exported' \in {exported, Len(devices)},
           UNCHANGED <<disk, devices, pushes, sub, kept>>
    PROVE  PushInv'
  <1>1. CASE exported' = exported
    BY <1>1 DEF PhoneIInv, PushInv
  <1>2. CASE exported' /= exported
    <2>1. exported' = 1 /\ exported = 0 /\ 1 .. 1 = {1} /\ 1 .. 0 = {} /\ 1 \in DeviceIds
      <3>1. exported' = Len(devices) /\ exported = 0 /\ Len(devices) = 1
        BY <1>2, DeviceFacts DEF PhoneIInv
      <3> QED BY <3>1, DeviceFacts DEF PhoneIInv
    <2>2. {sub, kept} \subseteq {Configured, Nobody}
      BY <2>1 DEF PhoneIInv, PushInv
    <2>3. kept \notin 1 .. 1
      BY <2>1, <2>2, Ids DEF Configured
    <2> QED BY <2>1, <2>2, <2>3 DEF PhoneIInv, PushInv
  <1> QED BY <1>1, <1>2

LEMMA PushingStep == PhoneIInv /\ Pushing => PhoneIInv'
  <1> SUFFICES ASSUME PhoneIInv, Pushing PROVE PhoneIInv'
    OBVIOUS
  <1>1. UNCHANGED <<disk, ctx, posts, invite, devices, unproven, usable, exported, vouched, prov>>
    BY DEF Pushing, SubscribeAndEnroll, PushServed, PushLost, EscalationRestart, server, registry, standing
  <1>2. DeviceInv' /\ PagesInv' /\ PostsInv' /\ WaitInv'
    BY <1>1 DEF PhoneIInv, DeviceInv, PagesInv, PostsInv, WaitInv
  <1>3. ASSUME NEW c \in Contexts, SubscribeAndEnroll(c) PROVE PushInv'
    <2>1. ctx[c].key = disk.key /\ disk.key \in Keys
      BY <1>3 DEF SubscribeAndEnroll, PhoneIInv, PagesInv, PageOK, PageKeys
    <2>2. disk.id \in {Configured} \union DeviceIds /\ disk.id \in {Configured} \union 1 .. Len(devices)
      BY DEF PhoneIInv, DeviceInv
    <2>3. /\ Signed(c) \in [id : {Configured} \union DeviceIds, key : Keys]
          /\ Signed(c).key = disk.key /\ Signed(c).id \in {Configured} \union 1 .. Len(devices)
      BY <2>1, <2>2 DEF Signed
    <2> QED BY <1>1, <1>3, <2>3 DEF SubscribeAndEnroll, PhoneIInv, PushInv
  <1>4. ASSUME NEW q \in pushes, PushServed(q) PROVE PushInv'
    <2>1. \A r \in pushes' : r \in pushes
      BY <1>4 DEF PushServed
    <2>2. CASE ~Enrollable(q)
      BY <1>1, <1>4, <2>1, <2>2 DEF PushServed, PhoneIInv, PushInv
    <2>3. CASE Enrollable(q)
      <3>1. sub' = q.id /\ kept' \in {q.id, kept}
        BY <1>4, <2>3 DEF PushServed, Persist
      <3>2. q.id \in 1 .. exported \/ 1 .. exported = {}
        BY <2>3, ConfiguredIsEarly, AcceptedName
      <3> QED BY <1>1, <2>1, <2>3, <3>1, <3>2, AcceptedName DEF PhoneIInv, PushInv
    <2> QED BY <2>2, <2>3
  <1>5. ASSUME NEW q \in pushes, PushLost(q) PROVE PushInv'
    BY <1>1, <1>5 DEF PushLost, PhoneIInv, PushInv
  <1>6. ASSUME EscalationRestart PROVE PushInv'
    BY <1>1, <1>6 DEF EscalationRestart, PhoneIInv, PushInv
  <1> QED BY <1>2, <1>3, <1>4, <1>5, <1>6 DEF Pushing, PhoneIInv

LEMMA CloseStep == ASSUME PhoneIInv, NEW c \in Contexts, Close(c) PROVE PhoneIInv'
  <1> DEFINE mine == {p \in posts : p.open /\ p.ctx = c}
  <1>1. UNCHANGED <<disk, invite, devices, unproven, usable, exported, vouched, prov, pushes, sub, kept>>
    BY DEF Close, server, registry, standing, push
  <1>2. DeviceInv' /\ PushInv'
    BY <1>1 DEF PhoneIInv, DeviceInv, PushInv
  <1>3. posts' = (posts \ mine) \union Abandoned(mine)
    BY DEF Close
  <1>4. \A r \in posts' : (r \in posts /\ ~(r.open /\ r.ctx = c)) \/ (PostOK(r, disk.key, Len(devices)) /\ ~r.open)
    <2>1. ASSUME NEW r \in Abandoned(mine) PROVE PostOK(r, disk.key, Len(devices)) /\ ~r.open
      <3>1. PICK p \in mine : r = [p EXCEPT !.open = FALSE]
        BY <2>1 DEF Abandoned
      <3>2. PostOK(p, disk.key, Len(devices))
        BY <3>1 DEF PhoneIInv, PostsInv
      <3> QED BY <3>1, <3>2 DEF PostOK, Posts
    <2> QED BY <1>3, <2>1
  <1>5. PostsInv'
    BY <1>1, <1>4 DEF PhoneIInv, PostsInv
  <1>6. \A d \in Contexts : ctx'[d] = IF d = c THEN Closed ELSE ctx[d]
    BY DEF Close, PhoneIInv, PagesInv
  <1>7. PagesInv'
    <2>1. Closed \in Pages
      BY ClosedOK DEF PageOK
    <2>2. ctx' \in [Contexts -> Pages]
      BY <2>1 DEF Close, PhoneIInv, PagesInv
    <2> QED BY <1>1, <1>6, <2>2, ClosedOK DEF PhoneIInv, PagesInv
  <1>8. WaitInv'
    <2>1. \A r \in posts' : r.open => r \in posts /\ r.ctx \in Contexts /\ r.ctx /= c
      BY <1>4 DEF PhoneIInv, PostsInv, PostOK, Posts
    <2> QED BY <1>6, <2>1 DEF PhoneIInv, WaitInv
  <1> QED BY <1>2, <1>5, <1>7, <1>8 DEF PhoneIInv

\* The registry serves the record of the store's key, or what it served.
LEMMA RestartShape ==
    ASSUME PhoneIInv, ControlPlaneRestart
    PROVE  /\ UNCHANGED <<disk, ctx, posts, prov, pushes, sub, kept>>
           /\ invite' \in [Invites -> {"live", "gone"}]
           /\ usable' \in BOOLEAN /\ vouched' \in BOOLEAN
           /\ exported' \in {exported, Len(devices')}
           /\ \/ devices' = devices /\ (unproven' = NoKey \/ (unproven' = unproven /\ ~usable'))
              \/ /\ devices = <<>> /\ devices' = <<disk.key>> /\ disk.key \in Keys
                 /\ unproven' = NoKey
  <1>1. PICK found \in {unproven, NoKey}, proven \in BOOLEAN :
          /\ devices' = IF proven /\ found /= NoKey THEN Append(devices, found) ELSE devices
          /\ unproven' = IF proven THEN NoKey ELSE found
          /\ usable' = proven /\ vouched' = proven
          /\ exported' = IF proven THEN Len(devices') ELSE exported
    BY DEF ControlPlaneRestart
  <1>2. CASE proven /\ found /= NoKey
    <2>1. found = disk.key /\ disk.key \in Keys /\ devices = <<>>
      BY <1>1, <1>2 DEF PhoneIInv, DeviceInv
    <2>2. Append(<<>>, disk.key) = <<disk.key>>
      BY <2>1
    <2> QED BY <1>1, <1>2, <2>1, <2>2 DEF ControlPlaneRestart, push
  <1>3. CASE ~(proven /\ found /= NoKey)
    BY <1>1, <1>3 DEF ControlPlaneRestart, push
  <1> QED BY <1>2, <1>3

LEMMA RestartStep == ASSUME PhoneIInv, ControlPlaneRestart PROVE PhoneIInv'
  <1>1. /\ UNCHANGED <<disk, ctx, posts, prov, pushes, sub, kept>>
        /\ invite' \in [Invites -> {"live", "gone"}]
        /\ usable' \in BOOLEAN /\ vouched' \in BOOLEAN
        /\ exported' \in {exported, Len(devices')}
    BY RestartShape
  <1>2. CASE devices' = devices /\ (unproven' = NoKey \/ (unproven' = unproven /\ ~usable'))
    <2>1. DeviceInv'
      BY <1>1, <1>2, DeviceFacts DEF PhoneIInv, DeviceInv
    <2>2. PagesInv' /\ PostsInv' /\ WaitInv'
      BY <1>1, <1>2 DEF PhoneIInv, PagesInv, PostsInv, WaitInv
    <2>3. PushInv'
      BY <1>1, <1>2, PushGrows
    <2> QED BY <2>1, <2>2, <2>3 DEF PhoneIInv
  <1>3. CASE /\ devices = <<>> /\ devices' = <<disk.key>> /\ disk.key \in Keys
             /\ unproven' = NoKey
    <2>1. Len(devices) = 0 /\ Len(devices') = 1 /\ exported = 0 /\ 1 .. 0 = {} /\ 1 .. 1 = {1}
      BY <1>3, DeviceFacts DEF PhoneIInv
    <2>2. DeviceInv'
      <3>1. disk.id = Configured
        BY <2>1 DEF PhoneIInv, DeviceInv
      <3>2. exported' \in 0 .. 1
        BY <1>1, <2>1
      <3> QED BY <1>1, <1>3, <2>1, <3>1, <3>2 DEF PhoneIInv, DeviceInv
    <2>3. \A c \in Contexts : PageOK(ctx[c], disk.key, disk.id, 1)
      BY <2>1, PageGrows DEF PhoneIInv, PagesInv
    <2>4. \A p \in posts : PostOK(p, disk.key, 1)
      BY <2>1, PostGrows DEF PhoneIInv, PostsInv
    <2>5. PagesInv' /\ PostsInv' /\ WaitInv'
      BY <1>1, <2>1, <2>3, <2>4 DEF PhoneIInv, PagesInv, PostsInv, WaitInv
    <2>6. PushInv'
      <3>1. {sub, kept} \subseteq {Configured, Nobody} /\ 1 .. exported' \subseteq {1}
        BY <1>1, <2>1 DEF PhoneIInv, PushInv
      <3>2. 1 \in DeviceIds
        BY <1>3, Ids
      <3>3. kept \notin 1 .. exported'
        BY <3>1, <3>2, Ids DEF Configured
      <3>4. \A q \in pushes : /\ q \in [id : {Configured} \union DeviceIds, key : Keys]
                              /\ q.key = disk.key /\ q.id \in {Configured} \union 1 .. 1
        BY <2>1 DEF PhoneIInv, PushInv
      <3> QED BY <1>1, <2>1, <3>1, <3>3, <3>4 DEF PushInv
    <2> QED BY <2>2, <2>5, <2>6 DEF PhoneIInv
  <1> QED BY <1>2, <1>3, RestartShape

LEMMA EnvironmentStep == PhoneIInv /\ Environment => PhoneIInv'
  <1> SUFFICES ASSUME PhoneIInv, Environment PROVE PhoneIInv'
    OBVIOUS
  <1>1. ASSUME NEW i \in Invites, Expire(i) PROVE PhoneIInv'
    <2>1. DeviceInv'
      BY <1>1 DEF Expire, registry, standing, PhoneIInv, DeviceInv
    <2>2. PagesInv' /\ PostsInv' /\ WaitInv' /\ PushInv'
      BY <1>1 DEF Expire, registry, standing, push, PhoneIInv, PagesInv, PostsInv, WaitInv, PushInv
    <2> QED BY <2>1, <2>2 DEF PhoneIInv
  <1>2. ASSUME NEW k \in Keys, Provision(k) PROVE PhoneIInv'
    <2>1. DeviceInv'
      BY <1>2 DEF Provision, server, registry, standing, PhoneIInv, DeviceInv
    <2>2. PagesInv' /\ PostsInv' /\ WaitInv' /\ PushInv'
      BY <1>2 DEF Provision, server, registry, standing, push, PhoneIInv, PagesInv, PostsInv, WaitInv, PushInv
    <2> QED BY <2>1, <2>2 DEF PhoneIInv
  <1>3. CASE Export
    <2>1. UNCHANGED <<disk, ctx, posts, invite, devices, unproven, usable, prov, pushes, sub, kept>>
      BY <1>3 DEF Export, registry, push
    <2>2. exported' \in {exported, Len(devices)} /\ vouched' \in BOOLEAN
      BY <1>3 DEF Export, PhoneIInv, DeviceInv
    <2>3. DeviceInv'
      BY <2>1, <2>2, DeviceFacts DEF PhoneIInv, DeviceInv
    <2>4. PagesInv' /\ PostsInv' /\ WaitInv'
      BY <2>1 DEF PhoneIInv, PagesInv, PostsInv, WaitInv
    <2>5. PushInv'
      BY <2>1, <2>2, PushGrows
    <2> QED BY <2>3, <2>4, <2>5 DEF PhoneIInv
  <1> QED BY <1>1, <1>2, <1>3, CloseStep, RestartStep DEF Environment

-----------------------------------------------------------------------------
(* The invariant holds, and what follows from it.                          *)

LEMMA PhoneStarts == PhoneInit => PhoneIInv
  <1> SUFFICES ASSUME PhoneInit PROVE PhoneIInv
    OBVIOUS
  <1>1. DeviceInv
    BY DEF PhoneInit, DeviceInv
  <1>2. PagesInv
    <2>1. Closed \in Pages
      BY ClosedOK DEF PageOK
    <2> QED BY <2>1, ClosedOK DEF PhoneInit, PagesInv
  <1>3. PostsInv /\ WaitInv
    BY DEF PhoneInit, PostsInv, WaitInv
  <1>4. PushInv
    <2>1. Nobody \notin 1 .. 0
      OBVIOUS
    <2> QED BY <2>1 DEF PhoneInit, PushInv
  <1> QED BY <1>1, <1>2, <1>3, <1>4 DEF PhoneIInv

LEMMA PhoneStep == PhoneIInv /\ [PhoneNext]_phoneVars => PhoneIInv'
  <1>1. PhoneIInv /\ UNCHANGED phoneVars => PhoneIInv'
    BY DEF phoneVars, server, registry, standing, push, PhoneIInv, DeviceInv, PagesInv, PostsInv, WaitInv, PushInv
  <1> QED BY <1>1, CustodyStep, CeremonyStep, RequestStep, PushingStep, EnvironmentStep DEF PhoneNext

LEMMA PhoneInvHolds == PhoneSpec => []PhoneIInv
  BY PhoneStarts, PhoneStep, PTL DEF PhoneSpec

\* The identity a phone signs under is the registry's name for the key it signs
\* with, however first runs race, pages close and answers are lost; with the
\* types (ensureDeviceKey, adoptEnrolledIdentity).
THEOREM IdentityTrue == PhoneSpec => []PhoneInv
  <1>1. PhoneIInv => PhoneInv
    <2> SUFFICES ASSUME PhoneIInv PROVE PhoneInv
      OBVIOUS
    <2>1. IdentityNamesKey
      BY DeviceFacts DEF PhoneIInv, DeviceInv, IdentityNamesKey
    <2>2. devices \in UNION {[1 .. n -> Keys] : n \in {0} \union DeviceIds}
      <3>1. devices \in [1 .. Len(devices) -> Keys]
        <4>1. <<>> \in Seq(Keys) /\ \A k \in Keys : <<k>> \in Seq(Keys)
          OBVIOUS
        <4>2. devices \in Seq(Keys)
          <5>1. CASE devices = <<>>
            BY <4>1, <5>1
          <5>2. CASE devices = <<disk.key>> /\ disk.key \in Keys
            BY <4>1, <5>2
          <5> QED BY <5>1, <5>2 DEF PhoneIInv, DeviceInv
        <4> QED BY <4>2
      <3>2. Len(devices) \in {0} \union DeviceIds
        BY DeviceFacts DEF PhoneIInv
      <3> QED BY <3>1, <3>2
    <2>3. {sub, kept} \subseteq {Configured, Nobody} \union DeviceIds
      <3>1. \A d \in 1 .. exported : d \in DeviceIds
        BY DeviceFacts DEF PhoneIInv
      <3> QED BY <3>1 DEF PhoneIInv, PushInv
    <2>4. prov \in Keys \union {NoKey}
      BY DEF PhoneIInv, DeviceInv
    <2>5. PhoneTypeOK
      BY <2>2, <2>3, <2>4 DEF PhoneTypeOK, PhoneIInv, DeviceInv, PagesInv, PostsInv, PostOK, PushInv,
         Pages, Posts, Flights, Steps
    <2> QED BY <2>1, <2>5 DEF PhoneInv
  <1> QED BY <1>1, PhoneInvHolds, PTL

\* What the owner is told of an enrolment is what happened, whatever is lost on
\* the way and whenever the control plane restarts; only a record that was not
\* proven durable may yet be served after its refusal
\* (completeEnrollmentCeremony, the click handler, commitEnrollment).
THEOREM OwnerToldTruth == PhoneSpec => []AnswerIsTrue
  <1>1. PhoneIInv => AnswerIsTrue
    <2> SUFFICES ASSUME PhoneIInv, NEW c \in Contexts
                 PROVE  LET x == ctx[c] IN
                        /\ x.told = "refused" => x.effect \in {"none", "burned", "unproven"}
                        /\ x.told = "kept" => x.effect = "none"
                        /\ x.told = "enrolled" =>
                             /\ x.effect = "admitted"
                             /\ disk.id /= Configured /\ devices[disk.id] = x.key
                        /\ x.told = "server only" => x.effect = "admitted"
      BY DEF AnswerIsTrue
    <2>1. PageTells(ctx[c], disk.key, disk.id)
      BY DEF PhoneIInv, PagesInv, PageOK
    <2>2. disk.id /= Configured => devices[disk.id] = disk.key
      BY DeviceFacts DEF PhoneIInv, DeviceInv
    <2>3. ctx[c].effect \in {"none", "burned", "unproven", "admitted"}
      BY DEF PhoneIInv, PagesInv, Pages
    <2> QED BY <2>1, <2>2, <2>3 DEF PageTells
  <1> QED BY <1>1, PhoneInvHolds, PTL

LEMMA ExportedGrows ==
    ASSUME PhoneIInv, PhoneNext
    PROVE  exported' \in {exported, exported + 1}
  <1>1. exported \in Nat /\ exported <= Len(devices) /\ Len(devices) \in {0, 1}
    BY DeviceFacts DEF PhoneIInv
  <1>2. ASSUME NEW p \in posts, ServeAdmitted(p) PROVE exported' \in {exported, exported + 1}
    <2>1. devices = <<>>
      BY <1>2, AdmissibleIsFirst DEF ServeAdmitted
    <2>2. Len(devices) = 0
      BY <2>1
    <2>3. devices' = Append(<<>>, p.key)
      BY <1>2, <2>1 DEF ServeAdmitted
    <2>4. Len(devices') = 1
      BY <2>3
    <2> QED BY <1>1, <1>2, <2>2, <2>4 DEF ServeAdmitted
  <1>3. CASE Export \/ ControlPlaneRestart
    <2>0. Len(devices) = exported \/ (exported = 0 /\ Len(devices) = 1)
      BY <1>1
    <2>1. CASE Export
      <3>1. exported' = exported \/ exported' = Len(devices)
        BY <2>1 DEF Export
      <3>2. CASE exported = 0 /\ Len(devices) = 1
        <4>1. 0 + 1 = 1
          OBVIOUS
        <4> QED BY <3>1, <3>2, <4>1
      <3>3. CASE Len(devices) = exported
        BY <3>1, <3>3
      <3> QED BY <2>0, <3>2, <3>3
    <2>2. CASE ControlPlaneRestart
      <3>1. exported' \in {exported, Len(devices')}
        BY <2>2, RestartShape
      <3>2. CASE devices' = devices
        <4>1. Len(devices') = Len(devices)
          BY <3>2
        <4> QED BY <2>0, <3>1, <4>1
      <3>3. CASE devices = <<>> /\ devices' = <<disk.key>>
        <4>1. Len(devices) = 0 /\ Len(devices') = 1
          BY <3>3
        <4> QED BY <1>1, <3>1, <4>1
      <3> QED BY <2>2, <3>2, <3>3, RestartShape
    <2> QED BY <1>3, <2>1, <2>2
  <1>4. CASE Custody \/ Ceremony \/ Pushing
    BY <1>4 DEF Custody, Ceremony, Pushing, EnsureReads, EnsureReadsBack, EnsureFails, EnsureAdds, EnrollClick,
       KeyReady, NotAnInvite, NotVouched, Mismatched, Vouched, Created, Dismissed, PostEnroll, Adopt, AdoptFails,
       SubscribeAndEnroll, PushServed, PushLost, EscalationRestart, server, registry, standing
  <1>5. CASE \E p \in posts : \/ ServeUnproven(p) \/ ServeUnusable(p)
                              \/ ServeKept(p) \/ ServeGone(p) \/ PostFails(p) \/ PostForgotten(p)
                              \/ EnrollRefused(p) \/ EnrollCreated(p)
    BY <1>5 DEF ServeUnproven, ServeUnusable, ServeKept, ServeGone, PostFails, PostForgotten, EnrollRefused, EnrollCreated, server, registry, standing
  <1>6. CASE \/ \E i \in Invites : Expire(i)
             \/ \E k \in Keys : Provision(k)
             \/ \E c \in Contexts : Close(c)
    BY <1>6 DEF Expire, Provision, Close, server, registry, standing
  <1> QED BY <1>2, <1>3, <1>4, <1>5, <1>6 DEF PhoneNext, Requests, Environment

LEMMA KeptStays ==
    ASSUME PhoneIInv, PhoneNext, kept \in 1 .. exported
    PROVE  kept' \in 1 .. exported'
  <1>1. kept' = kept \/ \E q \in pushes : Enrollable(q) /\ kept' = q.id
    <2>1. CASE Pushing
      BY <2>1 DEF Pushing, SubscribeAndEnroll, PushServed, PushLost, EscalationRestart, Persist
    <2>2. CASE Custody \/ Ceremony \/ Requests \/ Environment
      BY <2>2 DEF Custody, Ceremony, Requests, Environment, EnsureReads, EnsureReadsBack, EnsureFails,
         EnsureAdds, EnrollClick, KeyReady, NotAnInvite, NotVouched, Mismatched, Vouched, Created, Dismissed,
         PostEnroll, Adopt, AdoptFails, ServeAdmitted, ServeUnproven, ServeUnusable, ServeKept, ServeGone, PostFails, PostForgotten,
         EnrollRefused, EnrollCreated, Expire, Provision, Export, ControlPlaneRestart, Close, push
    <2> QED BY <2>1, <2>2 DEF PhoneNext
  <1>2. kept' \in 1 .. exported
    <2>1. ASSUME NEW q \in pushes, Enrollable(q) PROVE q.id \in 1 .. exported
      BY <2>1, ConfiguredIsEarly, AcceptedName
    <2> QED BY <1>1, <2>1
  <1>3. exported \in Nat
    BY DeviceFacts DEF PhoneIInv
  <1> QED BY <1>2, <1>3, ExportedGrows

LEMMA ExportedIds == DeviceInv => 1 .. exported \subseteq DeviceIds
  <1>1. DeviceInv => \A d \in 1 .. exported : d \in 1 .. Len(devices)
    BY DeviceFacts
  <1> QED BY <1>1, DeviceFacts

\* Alerts kept under the enrolled name stay there while the standing file
\* vouches for it, whatever an older request, a failed write or a restart does
\* (routeWebhook, persistSubscription).
THEOREM AlertsStayBound == PhoneSpec => PushStaysBound
  <1>1. ASSUME PhoneIInv, PhoneIInv', PhoneNext, kept \in 1 .. exported, vouched'
        PROVE  Reachable'
    <2>1. sub' \in 1 .. exported'
      BY <1>1, KeptStays DEF PhoneIInv, PushInv
    <2>2. 1 .. exported' \subseteq DeviceIds
      <3>1. DeviceInv' => (1 .. exported \subseteq DeviceIds)'
        BY ExportedIds, PTL
      <3> QED BY <1>1, <3>1 DEF PhoneIInv
    <2>3. sub' /= Nobody /\ sub' /= Configured
      BY <2>1, <2>2, Ids DEF Configured
    <2>4. (GoodStanding(sub))'
      BY <1>1, <2>1, <2>3 DEF GoodStanding
    <2> QED BY <2>3, <2>4 DEF Reachable
  <1>2. PhoneIInv /\ PhoneIInv' /\ [PhoneNext]_phoneVars => [(kept \in 1 .. exported) /\ vouched' => Reachable']_phoneVars
    BY <1>1
  <1> QED BY <1>2, PhoneInvHolds, PTL DEF PhoneSpec, PushStaysBound
=============================================================================
