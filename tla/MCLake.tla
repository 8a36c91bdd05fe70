------------------------------- MODULE MCLake -------------------------------
(* Model checking Lake on small instances. *)
EXTENDS Lake, TLC

CONSTANTS Card, Promo, Box, Tin, Normal, Foil

Entry(p, s, market, mid) ==
    [product |-> p, sub |-> s, quotes |-> [t \in PriceTypes |-> IF t = "market" THEN market ELSE mid]]

\* A night that quotes the box twice, first without a market price, and the card twice; a
\* later one that does not list the box, has only a mid for the tin and takes the promo for sealed.
MCBodies ==
    { [sealed |-> {Box, Tin},
       entries |-> << Entry(Box, Normal, NoPrice, 1), Entry(Box, Foil, 2, 2), Entry(Card, Normal, 1, NoPrice),
                      Entry(Card, Normal, 2, 2), Entry(Tin, Normal, 1, 2), Entry(Promo, Foil, 1, 1) >>],
      [sealed |-> {Tin, Promo},
       entries |-> << Entry(Card, Normal, 2, 1), Entry(Box, Normal, 3, NoPrice), Entry(Tin, Normal, NoPrice, 3),
                      Entry(Promo, Foil, 2, 2) >>] }

Symmetry == Permutations(Builders)
=============================================================================
