------------------------------- MODULE MCTags -------------------------------
(* Tags: two requests on two stickers, at two addresses, two variants.     *)
EXTENDS Tags, TLC

CONSTANTS r1, r2, t1, t2, home, office, sugar, salt, tata, fortune

MCBrandOf == [s \in Spins |-> s]
MCBrandSets == {{}, {fortune}}

Found(spin, buyable) == [spin |-> spin, buyable |-> buyable]

(* At home both are to be had, at the office tata is out of stock. *)
MCOffers ==
    [p \in Keys \X Texts |->
       IF p[1] = home THEN {<<Found(tata, TRUE), Found(fortune, TRUE)>>}
       ELSE {<<Found(tata, FALSE), Found(fortune, TRUE)>>}]

Tap(tag, text) == [tag |-> tag, text |-> text]
One(at, tap) == [kind |-> "one", at |-> at, taps |-> <<tap>>]
BatchAsk(at, taps) == [kind |-> "batch", at |-> at, taps |-> taps]

MCAsks ==
    {One(home, Tap(t1, sugar)), One(office, Tap(t1, sugar)), One(home, Tap(t1, salt)),
     BatchAsk(home, <<Tap(t1, sugar), Tap(t2, sugar)>>),
     BatchAsk(office, <<Tap(t2, sugar), Tap(t1, sugar)>>),
     [kind |-> "rebind", at |-> home, tag |-> t1, spin |-> tata],
     [kind |-> "unbind", tag |-> t1]}

Bound(text, spin, at) == [id |-> "first", text |-> text, spin |-> spin, at |-> at]

MCInitialRows ==
    {[t \in TagUids |-> IF t = t1 THEN row ELSE NoRow] :
       row \in {NoRow, Bound(sugar, fortune, home)}}
=============================================================================
