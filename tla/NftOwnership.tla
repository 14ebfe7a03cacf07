---------------------------- MODULE NftOwnership ----------------------------
(***************************************************************************)
(* What the NFT market promises: a token has one owner, the owner may put  *)
(* it on offer once, withdraw the offer, and a token changes hands only by *)
(* somebody else taking the one open offer its present owner made.         *)
(* NftMarketplace, with its numbered listings, implements this.            *)
(***************************************************************************)
CONSTANTS Users, Tokens, NoOffer

VARIABLES owner,  \* owner[t]: who holds token t
          offer   \* offer[t]: the user who offers t, or NoOffer

vars == <<owner, offer>>

Init == /\ owner = << >>
        /\ offer = << >>

\* A token nobody held before appears, without an offer.
Create(u, t) ==
    /\ t \notin DOMAIN owner
    /\ owner' = [x \in DOMAIN owner \cup {t} |-> IF x = t THEN u ELSE owner[x]]
    /\ offer' = [x \in DOMAIN owner \cup {t} |-> IF x = t THEN NoOffer ELSE offer[x]]

\* Only the owner offers a token, and only one offer is open at a time.
Offer(t) ==
    /\ offer[t] = NoOffer
    /\ offer' = [offer EXCEPT ![t] = owner[t]]
    /\ UNCHANGED owner

Withdraw(t) ==
    /\ offer[t] # NoOffer
    /\ offer' = [offer EXCEPT ![t] = NoOffer]
    /\ UNCHANGED owner

\* Taking the offer moves the token away from the user who offered it.
Take(u, t) ==
    /\ offer[t] # NoOffer
    /\ offer[t] = owner[t]
    /\ u # owner[t]
    /\ owner' = [owner EXCEPT ![t] = u]
    /\ offer' = [offer EXCEPT ![t] = NoOffer]

Next ==
    \/ \E u \in Users, t \in Tokens : Create(u, t)
    \/ \E t \in DOMAIN owner :
        Offer(t) \/ Withdraw(t) \/ \E u \in Users : Take(u, t)

Spec == Init /\ [][Next]_vars
=============================================================================
