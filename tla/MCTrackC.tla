------------------------------- MODULE MCTrackC -------------------------------
\* One coin's orders of Track C and the money its coins share; the basket of Track A-2
\* and the outbox of its notices; the stops of a book of the A/B engine.
\* They share no state: part says which one runs, so the state space is the sum of theirs.
EXTENDS TrackC, TrackCPortfolio, A2Basket, NoticeRelay, CycleStops, TLC

CONSTANTS a, b

VARIABLE part

Parts == {"orders", "money", "basket", "notices", "stops"}

MCInit ==
  /\ part \in Parts
  /\ TrackCInit /\ PortfolioInit /\ BasketInit
  /\ RelayInit /\ StopsInit

Still(p) ==
  CASE p = "orders"  -> UNCHANGED trackCVars
    [] p = "money"   -> UNCHANGED portfolioVars
    [] p = "basket"  -> UNCHANGED basketVars
    [] p = "notices" -> UNCHANGED relayVars
    [] OTHER         -> UNCHANGED stopVars

MCNext ==
  /\ \A p \in Parts \ {part} : Still(p)
  /\ part' = part
  /\ \/ part = "orders" /\ TrackCNext
     \/ part = "money" /\ PortfolioNext
     \/ part = "basket" /\ BasketNext
     \/ part = "notices" /\ RelayNext
     \/ part = "stops" /\ StopsNext

MCSpec == MCInit /\ [][MCNext]_<<part, trackCVars, portfolioVars, basketVars, relayVars,
                                 stopVars>>

\* Two coins are interchangeable.
Pair == Permutations(Coins)
=============================================================================
