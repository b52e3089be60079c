----------------------------- MODULE SpanProofs -----------------------------
(* Proof that a client span is finished once at most and written by one       *)
(* goroutine only, for every number of goroutines that use the stream.        *)
(*                                                                            *)
(* The inductive invariant says what is done of finishFunc at each point of   *)
(* the one goroutine that may be in it.                                       *)
EXTENDS ClientSpan, TLAPS

Points == {"idle", "claim", "close", "log", "finish", "done"}
Inside == {"close", "log", "finish"}

SpanTypeOK ==
    /\ at \in [Goroutines -> Points]
    /\ isFinished \in {0, 1}
    /\ closes \in {0, 1}
    /\ finishes \in {0, 1}
    /\ finishes <= closes
    /\ logged \subseteq Goroutines

(* Before the swap nothing is done.                                           *)
Untouched ==
    isFinished = 0 =>
        /\ closes = 0 /\ finishes = 0 /\ logged = {}
        /\ \A g \in Goroutines : at[g] \notin Inside

OneInside == \A g, h \in Goroutines : at[g] \in Inside /\ at[h] \in Inside => g = h

Progress ==
    \A g \in Goroutines :
        /\ at[g] = "close" => closes = 0 /\ finishes = 0 /\ logged = {}
        /\ at[g] = "log" => closes = 1 /\ finishes = 0 /\ logged = {}
        /\ at[g] = "finish" => closes = 1 /\ finishes = 0

OneWriter == \A g, h \in logged : g = h

SpanInv == SpanTypeOK /\ Untouched /\ OneInside /\ Progress /\ OneWriter

LEMMA SpanInvInit == SpanInit => SpanInv
BY DEF SpanInit, SpanInv, SpanTypeOK, Points, Inside, Untouched, OneInside, Progress, OneWriter

(* A goroutine that comes to finishFunc, or leaves it without a trace, is not *)
(* inside.                                                                    *)
LEMMA GotoOutside ==
    ASSUME SpanInv, NEW g \in Goroutines, NEW point \in {"claim", "done"},
           at[g] \notin Inside, Goto(g, point),
           UNCHANGED <<isFinished, closes, logged, finishes>>
    PROVE  SpanInv'
BY DEF SpanInv, SpanTypeOK, Points, Inside, Untouched, OneInside, Progress, OneWriter, Goto

LEMMA ClaimKeepsSpanInv ==
    ASSUME SpanInv, NEW g \in Goroutines, Claim(g) PROVE SpanInv'
<1>1. CASE isFinished = 0
  BY <1>1 DEF Claim, SpanInv, SpanTypeOK, Points, Inside, Untouched, OneInside, Progress,
              OneWriter, Goto
<1>2. CASE isFinished # 0
  BY <1>2, GotoOutside DEF Claim, Inside
<1> QED
  BY <1>1, <1>2

LEMMA CloseKeepsSpanInv ==
    ASSUME SpanInv, NEW g \in Goroutines, Close(g) PROVE SpanInv'
<1>1. closes = 0 /\ finishes = 0 /\ logged = {} /\ isFinished = 1
  BY DEF Close, SpanInv, SpanTypeOK, Inside, Untouched, Progress
<1> QED
  BY <1>1 DEF Close, SpanInv, SpanTypeOK, Points, Inside, Untouched, OneInside, Progress,
              OneWriter, Goto

LEMMA LogErrorKeepsSpanInv ==
    ASSUME SpanInv, NEW g \in Goroutines, LogError(g) PROVE SpanInv'
<1>1. closes = 1 /\ finishes = 0 /\ logged = {} /\ isFinished = 1
  BY DEF LogError, SpanInv, SpanTypeOK, Inside, Untouched, Progress
<1>2. logged' \subseteq {g}
  BY <1>1 DEF LogError
<1> QED
  BY <1>1, <1>2 DEF LogError, SpanInv, SpanTypeOK, Points, Inside, Untouched, OneInside,
                    Progress, OneWriter, Goto

LEMMA FinishKeepsSpanInv ==
    ASSUME SpanInv, NEW g \in Goroutines, Finish(g) PROVE SpanInv'
<1>1. closes = 1 /\ finishes = 0 /\ isFinished = 1
  BY DEF Finish, SpanInv, SpanTypeOK, Inside, Untouched, Progress
<1> QED
  BY <1>1 DEF Finish, SpanInv, SpanTypeOK, Points, Inside, Untouched, OneInside, Progress,
              OneWriter, Goto

LEMMA SpanInvNext == SpanInv /\ [SpanNext]_spanVars => SpanInv'
<1> SUFFICES ASSUME SpanInv, [SpanNext]_spanVars PROVE SpanInv'
  OBVIOUS
<1> USE DEF Goroutines
<1>1. ASSUME NEW u \in Users, EndsWell(u) PROVE SpanInv'
  BY <1>1, GotoOutside DEF EndsWell, Inside
<1>2. ASSUME NEW u \in Users, EndsBadly(u) PROVE SpanInv'
  BY <1>2, GotoOutside DEF EndsBadly, Inside
<1>3. CASE UNCHANGED <<at, isFinished, closes, logged, finishes>>
  BY <1>3 DEF SpanInv, SpanTypeOK, Untouched, OneInside, Progress, OneWriter
<1>4. CASE WatcherWakes
  BY <1>4, GotoOutside DEF WatcherWakes, Inside
<1>5. CASE Finalize
  BY <1>5, GotoOutside DEF Finalize, Inside
<1> QED
  BY <1>1, <1>2, <1>3, <1>4, <1>5, ClaimKeepsSpanInv, CloseKeepsSpanInv,
     LogErrorKeepsSpanInv, FinishKeepsSpanInv DEF SpanNext, Cancel, Release, spanVars

LEMMA SpanInvGivesFinishedOnce == SpanInv => FinishedOnce
BY DEF SpanInv, SpanTypeOK, Inside, OneInside, Progress, OneWriter, FinishedOnce

(* finishFunc, which the methods of the stream, the watcher of its context    *)
(* and the finalizer call from goroutines of their own, closes the channel    *)
(* once and finishes the span once, and whoever does is alone with it.        *)
THEOREM OneFinish == SpanSpec => []FinishedOnce
<1>1. SpanInit => SpanInv
  BY SpanInvInit
<1>2. SpanInv /\ [SpanNext]_spanVars => SpanInv'
  BY SpanInvNext
<1>3. SpanInv => FinishedOnce
  BY SpanInvGivesFinishedOnce
<1> QED
  BY <1>1, <1>2, <1>3, PTL DEF SpanSpec
=============================================================================
