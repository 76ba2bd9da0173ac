-------------------------- MODULE ProgressHud_proofs --------------------------
(***************************************************************************)
(* What the operations of the progress indicator do to it, for any views.  *)
(***************************************************************************)
EXTENDS ProgressHud, TLAPS

\* Every operation of the indicator yields an indicator of the same views.
LEMMA IndicatorType ==
  ASSUME NEW V, NEW h \in Indicator(V), NEW v \in V
  PROVE  /\ Show(h, v) \in Indicator(V)
         /\ Dismiss(h) \in Indicator(V)
         /\ Settled(h) \in Indicator(V)
         /\ Released(h, v) \in Indicator(V)
<1> USE DEF Indicator, Phase
<1>1. Show(h, v) \in Indicator(V)
  BY DEF Show
<1>2. Dismiss(h) \in Indicator(V)
  BY DEF Dismiss, Moving
<1>3. Settled(h) \in Indicator(V)
  BY DEF Settled, Hidden
<1>4. Released(h, v) \in Indicator(V)
  BY DEF Released, Hidden
<1> QED  BY <1>1, <1>2, <1>3, <1>4

\* Will the indicator cover the view v, or does it?
Lasting(h, v) ==
  /\ h.view = v /\ v # NoView
  /\ \/ h.phase = "shown"
     \/ h.phase = "appearing" /\ ~ h.again

\* A show makes the indicator last over its own view at most.
LEMMA ShowFacts ==
  ASSUME NEW V, NEW h \in Indicator(V), NEW v \in V,
         h.view = NoView => h.phase # "shown"
  PROVE  /\ Show(h, v) \in Indicator(V)
         /\ Show(h, v).view \in {h.view, v}
         /\ Show(h, v).view = NoView => Show(h, v).phase # "shown"
         /\ \A w : Lasting(Show(h, v), w) => Lasting(h, w) \/ w = v
BY DEF Show, Indicator, Moving, Phase, Lasting

\* A dismissal is never lost.
LEMMA DismissFacts ==
  ASSUME NEW V, NEW h \in Indicator(V)
  PROVE  /\ Dismiss(h) \in Indicator(V)
         /\ Dismiss(h).view = h.view
         /\ Dismiss(h).phase = "shown" => h.phase = "shown"
         /\ \A w : ~ Lasting(Dismiss(h), w)
<1>1. CASE Moving(h)
  <2>1. Dismiss(h) = [h EXCEPT !.again = TRUE]
    BY <1>1 DEF Dismiss, Moving
  <2> QED  BY <1>1, <2>1 DEF Indicator, Moving, Phase, Lasting
<1>2. CASE h.phase = "shown"
  <2>1. Dismiss(h) = [h EXCEPT !.phase = "leaving"]
    BY <1>2 DEF Dismiss, Moving
  <2> QED  BY <1>2, <2>1 DEF Indicator, Phase, Lasting
<1>3. CASE h.phase = "hidden"
  <2>1. Dismiss(h) = h
    BY <1>3 DEF Dismiss, Moving
  <2> QED  BY <1>3, <2>1 DEF Indicator, Phase, Lasting
<1> QED  BY <1>1, <1>2, <1>3 DEF Indicator, Phase, Moving

\* The end of an animation makes it last over nothing else.
LEMMA SettledFacts ==
  ASSUME NEW V, NEW h \in Indicator(V), Moving(h)
  PROVE  /\ Settled(h) \in Indicator(V)
         /\ Settled(h).view \in {h.view, NoView}
         /\ Settled(h).view = NoView => Settled(h).phase # "shown"
         /\ \A w : Lasting(Settled(h), w) => Lasting(h, w)
BY DEF Settled, Hidden, Indicator, Moving, Phase, Lasting

\* The indicator does not outlast the view it covers.
LEMMA ReleasedFacts ==
  ASSUME NEW V, NEW h \in Indicator(V), NEW v,
         h.view = NoView => h.phase # "shown"
  PROVE  /\ Released(h, v) \in Indicator(V)
         /\ \/ Released(h, v).view = NoView
            \/ Released(h, v).view = h.view /\ h.view # v
         /\ Released(h, v).view = NoView => Released(h, v).phase # "shown"
         /\ \A w : Lasting(Released(h, v), w) => Lasting(h, w)
<1>1. CASE h.view # v
  <2>1. Released(h, v) = h
    BY <1>1 DEF Released
  <2> QED  BY <1>1, <2>1
<1>2. CASE h.view = v /\ h.phase = "shown"
  <2>1. Released(h, v) = Hidden
    BY <1>2 DEF Released
  <2> QED  BY <2>1 DEF Hidden, Indicator, Phase, Lasting
<1>3. CASE h.view = v /\ h.phase # "shown"
  <2>1. Released(h, v) = [h EXCEPT !.view = NoView]
    BY <1>3 DEF Released
  <2> QED  BY <1>3, <2>1 DEF Indicator, Phase, Lasting
<1> QED  BY <1>1, <1>2, <1>3
=============================================================================
