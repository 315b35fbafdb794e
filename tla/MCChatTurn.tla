----------------------------- MODULE MCChatTurn -----------------------------
(* Small instances of ChatTurn: two recipe dishes over four names.         *)
EXTENDS ChatTurn

CONSTANTS onion, tomato, rice, paste

MCIngredients == {onion, tomato, rice, paste}
MCHomemade == {onion, tomato}
MCMenu == {{onion, tomato}, {rice}}
OneName == {onion}
OneDish == {OneName}
MCStocked == {rice, onion}

Ask(kinds) == {[kind |-> k, have |-> {}] : k \in kinds}
Tick(sets) == {[kind |-> "have", have |-> h] : h \in sets}

AllPosts == Ask({"text", "cooking", "photo", "scratch", "ready", "note"})
              \cup Tick({{}, {onion, rice}})
CorePosts == Ask({"text", "ready"}) \cup Tick({{}, {onion}})
RacePosts == Ask({"text"}) \cup Tick({{}, OneName})

(* Bound: of photos, cooking questions and bare notes, one per session. *)
Asides == {t \in Turns : /\ pc[t] # "unposted"
                         /\ posted[t].kind \in {"photo", "cooking", "note"}}
OneAside == Cardinality(Asides) <= 1
=============================================================================
