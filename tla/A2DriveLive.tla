----------------------------- MODULE A2DriveLive -----------------------------
(***************************************************************************)
(* A2Drive in a world that is difficult only MaxTrouble times, and then     *)
(* kind: what the loop of Track A-2 still gets done.  A setback is anything *)
(* that puts the loop off: an API call that fails, an order that expires in *)
(* the guard, is refused, or is ended by the exchange without a request, a  *)
(* poll that is skipped, a feed without a bid, a balance that lags, and a   *)
(* strategy that takes a good protection away again.                        *)
(***************************************************************************)
EXTENDS A2Drive

CONSTANT MaxTrouble     \* bound: setbacks

VARIABLE trouble        \* setbacks left

liveVars == <<vars, trouble>>

Covered == \E c \in Ids : Confirmed(c, stop)

\* UNSELLABLE_RESIDUAL: the exchange takes no order for so little, neither a sale nor
\* a stop.  The book is halted with it, and drive() passes it over in every turn.
Residual == held \in 1..Dust /\ exit /\ halted

News(c) == Oms!IsActive(c) /\ Oms!Known(c)
           /\ (ord[c].st # Oms!Status(c) \/ ord[c].filled # ex[c].done)

\* drive() waits for nothing that is under way, or undoes what was done.
Lags ==
    /\ pc = "turn" /\ pc' # "turn"
    /\ \/ pc' = "failed"
       \/ \E c \in Ids : News(c)
       \/ /\ held > 0 /\ (exit \/ ~Covered) /\ Trims \cup Exits = {}
          /\ todo' = {} /\ call' = call /\ exit' = exit /\ ~Residual'
       \/ ~exit' /\ ~stopping /\ \E c \in todo' :
            ord[c].asked = 0 /\ (ord[c].role = "trim" \/ (ord[c].role = "protect" /\ ord[c].qty = held))

Setback ==
    \/ Lags
    \/ \E c \in Ids :
         \/ call = [at |-> "guard", id |-> c] /\ ord'[c].st = "REJECTED"
         \/ call = [at |-> "sent", id |-> c] /\ ord'[c].st = "UNKNOWN"
         \/ ex[c].st = "unseen" /\ ex'[c].st = "refused"
         \/ ex[c].st \in {"armed", "live"} /\ ex'[c].st = "over"
            /\ ord[c].asked = 0 /\ ex[c].done < ord[c].qty
         \/ call.at = "cancel" /\ call' = Oms!Idle /\ News(c) /\ ord' = ord

Fine(A) == A /\ ~Setback /\ UNCHANGED trouble

Loop ==
    \/ \E c \in Ids : Runtime(c)
    \/ Drive \/ EndTurn

\* The exchange gets on with an order: takes it, sells it, or ends it.
Served(c) ==
    \/ c \in wire /\ Exchange(c) /\ c \notin wire'
    \/ ord[c].role \in {"trim", "exit"} /\ ex[c].st = "live" /\ Exchange(c) /\ coins' < coins
    \/ ex[c].st \in {"armed", "live"} /\ Exchange(c) /\ ex'[c].st = "over"

LiveInit == Init /\ trouble = MaxTrouble

LiveNext == /\ Next
            /\ IF Setback THEN trouble > 0 /\ trouble' = trouble - 1 ELSE UNCHANGED trouble

\* The loop goes on turning while it is not hindered; the exchange takes what
\* is on its way, fills market orders, and ends what is filled or was asked to.
LiveSpec ==
    /\ LiveInit
    /\ [][LiveNext]_liveVars
    /\ WF_liveVars(Fine(Loop))
    /\ \A c \in Ids : WF_liveVars(Fine(Served(c)))

----------------------------------------------------------------------------
(* Properties. *)

\* Whatever becomes of a stop, a sale or a cancel, what is held is protected
\* again or sold, but for a remainder that nobody takes: its book is halted.
Reprotected == held > 0 ~> (held = 0 \/ Covered \/ Residual)

\* A runtime that is asked to stop does stop, but for the book halted with such a
\* remainder: shutdown_ready() wants all that is held behind a stop.
ShutsDown == stopping ~> (pc = "stopped" \/ Residual)

----------------------------------------------------------------------------
(* What the documentation says and the code does not keep. *)

\* "Unconfirmed protection ... after a time limit is cancelled, reconciled and
\* turned into a recovery exit."
RecoveryExit == exit /\ held > 0 /\ Protects # {} ~> (Exits # {} \/ held = 0)
=============================================================================
