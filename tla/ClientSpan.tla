----------------------------- MODULE ClientSpan -----------------------------
(* The span of a client stream in order_srv/utils/otgrpc/client.go: it starts *)
(* with the stream and is finished by whoever learns first that the stream is *)
(* over.  That may be RecvMsg, SendMsg, Header or CloseSend, called by the    *)
(* goroutines of the user, the goroutine that watches the context, or the     *)
(* finalizer of the stream; all of them call finishFunc.                      *)
EXTENDS Naturals

CONSTANTS
    Users,          \* goroutines that use the stream
    Watcher,        \* the goroutine that waits for the context
    Finalizer       \* the garbage collector's goroutine

ASSUME SpanAssumption ==
    /\ Watcher \notin Users
    /\ Finalizer \notin Users
    /\ Watcher # Finalizer

VARIABLES
    stream,         \* the gRPC stream: "open", "over", or "released" by its users
    cancelled,      \* its context is done
    at,             \* where each goroutine is
    failed,         \* goroutines that call finishFunc with an error
    isFinished,     \* the flag of the compare-and-swap
    closes,         \* how often finishChan was closed
    logged,         \* goroutines that have written to the span
    finishes        \* how often the span was finished

spanVars == <<stream, cancelled, at, failed, isFinished, closes, logged, finishes>>

Goroutines == Users \cup {Watcher, Finalizer}

SpanInit ==
    /\ stream = "open"
    /\ cancelled = FALSE
    /\ at = [g \in Goroutines |-> "idle"]
    /\ failed = {}
    /\ isFinished = 0
    /\ closes = 0
    /\ logged = {}
    /\ finishes = 0

Goto(g, point) == at' = [at EXCEPT ![g] = point]

-----------------------------------------------------------------------------
(* The stream.                                                                *)

(* A method of the stream returns io.EOF, or the one answer of a stream that  *)
(* has no more: finishFunc(nil).  gRPC cancels the context of a stream that   *)
(* is over before its methods return.                                         *)
EndsWell(u) ==
    /\ at[u] \in {"idle", "done"}
    /\ stream # "released"
    /\ stream' = "over"
    /\ cancelled' = TRUE
    /\ Goto(u, "claim")
    /\ failed' = failed \ {u}
    /\ UNCHANGED <<isFinished, closes, logged, finishes>>

(* A method returns an error: finishFunc(err).  SendMsg may return io.EOF on  *)
(* a stream whose context is not cancelled yet.                               *)
EndsBadly(u) ==
    /\ at[u] \in {"idle", "done"}
    /\ stream # "released"
    /\ stream' = "over"
    /\ cancelled' \in {cancelled, TRUE}
    /\ Goto(u, "claim")
    /\ failed' = failed \cup {u}
    /\ UNCHANGED <<isFinished, closes, logged, finishes>>

(* The caller cancels the context, or its deadline passes.                    *)
Cancel ==
    /\ ~cancelled
    /\ cancelled' = TRUE
    /\ UNCHANGED <<stream, at, failed, isFinished, closes, logged, finishes>>

(* The users let go of the stream, having read all they expect or not.        *)
Release ==
    /\ stream # "released"
    /\ \A u \in Users : at[u] \in {"idle", "done"}
    /\ stream' = "released"
    /\ UNCHANGED <<cancelled, at, failed, isFinished, closes, logged, finishes>>

(* The watcher's select: the context is done, or the span is being finished.  *)
WatcherWakes ==
    /\ at[Watcher] = "idle"
    /\ \/ cancelled /\ Goto(Watcher, "claim") /\ failed' = failed \cup {Watcher}
       \/ closes > 0 /\ Goto(Watcher, "done") /\ UNCHANGED failed
    /\ UNCHANGED <<stream, cancelled, isFinished, closes, logged, finishes>>

(* The garbage collector finds the stream and calls finishFunc(nil).          *)
Finalize ==
    /\ stream = "released"
    /\ at[Finalizer] = "idle"
    /\ Goto(Finalizer, "claim")
    /\ UNCHANGED <<stream, cancelled, failed, isFinished, closes, logged, finishes>>

-----------------------------------------------------------------------------
(* finishFunc.                                                                *)

(* Mutant: the flag is loaded and stored instead of swapped; two goroutines   *)
(* may both load 0.                                                           *)
ClaimByLoad(g) ==
    /\ at[g] = "claim"
    /\ IF isFinished = 0 \/ closes = 0
       THEN Goto(g, "close") /\ isFinished' = 1
       ELSE Goto(g, "done") /\ UNCHANGED isFinished
    /\ UNCHANGED <<stream, cancelled, failed, closes, logged, finishes>>

(* The compare-and-swap: the first goes on, the others return.                *)
Claim(g) ==
    /\ at[g] = "claim"
    /\ IF isFinished = 0
       THEN Goto(g, "close") /\ isFinished' = 1
       ELSE Goto(g, "done") /\ UNCHANGED isFinished
    /\ UNCHANGED <<stream, cancelled, failed, closes, logged, finishes>>

(* close(finishChan): a second one would panic.                               *)
Close(g) ==
    /\ at[g] = "close"
    /\ closes' = closes + 1
    /\ Goto(g, "log")
    /\ UNCHANGED <<stream, cancelled, failed, isFinished, logged, finishes>>

(* Mutant: without an error the function returns before the defer.            *)
LogErrorOrReturn(g) ==
    /\ at[g] = "log"
    /\ IF g \in failed THEN Goto(g, "finish") /\ logged' = logged \cup {g}
                       ELSE Goto(g, "done") /\ UNCHANGED logged
    /\ UNCHANGED <<stream, cancelled, failed, isFinished, closes, finishes>>

(* An error is logged in the span and its tags are set.                       *)
LogError(g) ==
    /\ at[g] = "log"
    /\ logged' = IF g \in failed THEN logged \cup {g} ELSE logged
    /\ Goto(g, "finish")
    /\ UNCHANGED <<stream, cancelled, failed, isFinished, closes, finishes>>

(* The deferred clientSpan.Finish.                                            *)
Finish(g) ==
    /\ at[g] = "finish"
    /\ finishes' = finishes + 1
    /\ Goto(g, "done")
    /\ UNCHANGED <<stream, cancelled, failed, isFinished, closes, logged>>

FinishFunc(g) == Claim(g) \/ Close(g) \/ LogError(g) \/ Finish(g)

SpanNext ==
    \/ \E u \in Users : EndsWell(u)
    \/ \E u \in Users : EndsBadly(u)
    \/ Cancel
    \/ Release
    \/ WatcherWakes
    \/ Finalize
    \/ \E g \in Goroutines : Claim(g)
    \/ \E g \in Goroutines : Close(g)
    \/ \E g \in Goroutines : LogError(g)
    \/ \E g \in Goroutines : Finish(g)

(* Goroutines that can go on do.  Nothing is asked of the garbage collector,  *)
(* which need not run a finalizer.                                            *)
SpanFairness ==
    /\ WF_spanVars(WatcherWakes)
    /\ \A g \in Goroutines : WF_spanVars(FinishFunc(g))

SpanSpec == SpanInit /\ [][SpanNext]_spanVars /\ SpanFairness

-----------------------------------------------------------------------------
(* Properties.                                                                *)

(* The span is finished once at most and its channel is closed once at most,  *)
(* and only one goroutine writes to it, before it is finished.  The comment   *)
(* in finishFunc gives the reason: OpenTracing forbids a second Finish.       *)
FinishedOnce ==
    /\ closes <= 1
    /\ finishes <= closes
    /\ \A g, h \in Goroutines :
          at[g] \in {"close", "log", "finish"} =>
             /\ finishes = 0
             /\ at[h] \in {"close", "log", "finish"} => g = h
    /\ \A g, h \in logged : g = h

(* The span is finished once the stream is over or its context is done, and   *)
(* then the watcher goes too.                                                 *)
SpanFinishes == (cancelled \/ stream = "over") ~> (finishes = 1 /\ at[Watcher] = "done")
=============================================================================
