----------------------- MODULE NftMarketplaceProofs ------------------------
(***************************************************************************)
(* For every set of users and every bound: a token is on sale at most      *)
(* once, every open listing is the present owner's, and the market         *)
(* implements NftOwnership.                                                *)
(***************************************************************************)
EXTENDS NftMarketplace, TLAPS

\* The two safety invariants need each other: buying keeps SellerOwnsToken
\* only because no second active listing names the token sold.
MarketInv == TypeOK /\ OneActiveListing /\ SellerOwnsToken

\* An empty market satisfies the invariant.
LEMMA InitInv == Init => MarketInv
  BY DEF Init, MarketInv, TypeOK, OneActiveListing, SellerOwnsToken, ActiveListings, TokensOf

\* A new token is on no listing.
LEMMA MintInv ==
    ASSUME MarketInv, NEW u \in Users, Mint(u)
    PROVE  MarketInv'
  <1>1. PICK t \in 1..MaxTokens :
          Unused(tokens, t) /\ tokens' = With(tokens, t, u) /\ listings' = listings
    BY DEF Mint
  <1>2. t \notin DOMAIN tokens
    BY <1>1 DEF Unused
  <1>3. TypeOK'
    BY <1>1, <1>2 DEF MarketInv, TypeOK, With
  <1>4. OneActiveListing'
    BY <1>1 DEF MarketInv, OneActiveListing, Active, ActiveListings
  <1>5. SellerOwnsToken'
    BY <1>1, <1>2 DEF MarketInv, SellerOwnsToken, Active, With, ActiveListings, TokensOf
  <1>6. QED
    BY <1>3, <1>4, <1>5 DEF MarketInv

\* A new listing names its owner's token, which no active listing named.
LEMMA ListInv ==
    ASSUME MarketInv, NEW u \in Users, NEW t \in DOMAIN tokens, List(u, t)
    PROVE  MarketInv'
  <1> DEFINE new == [token |-> t, seller |-> u, status |-> "Active"]
  <1>1. PICK l \in 1..MaxListings :
          Unused(listings, l) /\ listings' = With(listings, l, new) /\ tokens' = tokens
    BY DEF List, NewListing
  <1>2. l \notin DOMAIN listings /\ tokens[t] = u
    BY <1>1 DEF Unused, List
  <1>3. \A k \in DOMAIN listings : listings[k].token = t => ~Active(k)
    BY DEF List
  <1>4. /\ DOMAIN listings' = DOMAIN listings \cup {l}
        /\ listings'[l] = new
        /\ \A k \in DOMAIN listings : listings'[k] = listings[k]
    BY <1>1, <1>2 DEF With
  <1>5. TypeOK'
    <2>1. new \in Listing
      BY DEF Listing, MarketInv, TypeOK
    <2>2. listings' \in [DOMAIN listings' -> Listing]
      BY <1>1, <1>2, <2>1 DEF With, MarketInv, TypeOK
    <2>3. QED
      BY <1>1, <1>4, <2>2 DEF MarketInv, TypeOK
  <1>6. OneActiveListing'
    BY <1>3, <1>4 DEF MarketInv, OneActiveListing, Active, ActiveListings
  <1>7. SellerOwnsToken'
    BY <1>1, <1>2, <1>4 DEF MarketInv, SellerOwnsToken, Active, ActiveListings, TokensOf
  <1>8. QED
    BY <1>5, <1>6, <1>7 DEF MarketInv

\* Closing a listing leaves fewer active ones.
LEMMA CancelInv ==
    ASSUME MarketInv, NEW u \in Users, NEW l \in DOMAIN listings, CancelListing(u, l)
    PROVE  MarketInv'
  <1>1. /\ DOMAIN listings' = DOMAIN listings
        /\ listings'[l] = [listings[l] EXCEPT !.status = "Cancelled"]
        /\ \A k \in DOMAIN listings : k # l => listings'[k] = listings[k]
        /\ tokens' = tokens
    BY DEF CancelListing, MarketInv, TypeOK
  <1>2. listings[l] \in Listing
    BY DEF MarketInv, TypeOK
  <1>3. TypeOK'
    <2>1. listings'[l] \in Listing
      BY <1>1, <1>2 DEF Listing
    <2>2. listings' \in [DOMAIN listings -> Listing]
      BY <1>1, <2>1 DEF CancelListing, MarketInv, TypeOK
    <2>3. QED
      BY <1>1, <2>2 DEF MarketInv, TypeOK
  <1>4. listings'[l].status = "Cancelled"
    BY <1>1, <1>2 DEF Listing
  <1>5. OneActiveListing'
    BY <1>1, <1>4 DEF MarketInv, OneActiveListing, Active, ActiveListings
  <1>6. SellerOwnsToken'
    BY <1>1, <1>4 DEF MarketInv, SellerOwnsToken, Active, ActiveListings, TokensOf
  <1>7. QED
    BY <1>3, <1>5, <1>6 DEF MarketInv

\* The token sold is on no other active listing, so its new owner upsets none.
LEMMA BuyInv ==
    ASSUME MarketInv, NEW u \in Users, NEW l \in DOMAIN listings, Buy(u, l)
    PROVE  MarketInv'
  <1> DEFINE sold == [listings[l] EXCEPT !.status = "Sold"]
  <1>1. listings[l] \in Listing
    BY DEF MarketInv, TypeOK
  <1>2. sold \in Listing /\ sold.status = "Sold"
    BY <1>1 DEF Listing
  <1>3. /\ listings[l].token \in DOMAIN tokens
        /\ tokens' = [tokens EXCEPT ![listings[l].token] = u]
        /\ listings' = [listings EXCEPT ![l] = sold]
    BY DEF Buy, Transfer
  <1> HIDE DEF sold
  <1>4. /\ DOMAIN listings' = DOMAIN listings
        /\ listings'[l] = sold
        /\ \A k \in DOMAIN listings : k # l => listings'[k] = listings[k]
    BY <1>3 DEF MarketInv, TypeOK
  <1>5. TypeOK'
    <2>1. listings' \in [DOMAIN listings -> Listing]
      BY <1>2, <1>3 DEF MarketInv, TypeOK
    <2>2. tokens' \in [DOMAIN tokens -> Users] /\ DOMAIN tokens' = DOMAIN tokens
      BY <1>3 DEF MarketInv, TypeOK
    <2>3. QED
      BY <1>4, <2>1, <2>2 DEF MarketInv, TypeOK
  <1>6. OneActiveListing'
    BY <1>2, <1>4 DEF MarketInv, OneActiveListing, Active, ActiveListings
  <1>7. SellerOwnsToken'
    <2> SUFFICES ASSUME NEW k \in DOMAIN listings, listings'[k].status = "Active"
                 PROVE  /\ listings'[k].token \in DOMAIN tokens'
                        /\ listings'[k].seller = tokens'[listings'[k].token]
      BY <1>4 DEF SellerOwnsToken, Active, ActiveListings, TokensOf
    <2>1. k # l /\ listings'[k] = listings[k]
      BY <1>2, <1>4
    <2>2. /\ listings[k].token # listings[l].token
          /\ listings[k].token \in DOMAIN tokens
          /\ listings[k].seller = tokens[listings[k].token]
      BY <2>1 DEF MarketInv, OneActiveListing, SellerOwnsToken, Active, Buy, ActiveListings, TokensOf
    <2>3. QED
      BY <1>3, <2>1, <2>2 DEF MarketInv, TypeOK
  <1>8. QED
    BY <1>5, <1>6, <1>7 DEF MarketInv

\* Every step keeps the invariant.
LEMMA NextInv == MarketInv /\ [Next]_vars => MarketInv'
  <1> SUFFICES ASSUME MarketInv, [Next]_vars
               PROVE  MarketInv'
    OBVIOUS
  <1>1. ASSUME NEW u \in Users, Mint(u) PROVE MarketInv'
    BY <1>1, MintInv
  <1>2. ASSUME NEW u \in Users, NEW t \in DOMAIN tokens, List(u, t) PROVE MarketInv'
    BY <1>2, ListInv
  <1>3. ASSUME NEW u \in Users, NEW l \in DOMAIN listings, CancelListing(u, l)
        PROVE  MarketInv'
    BY <1>3, CancelInv
  <1>4. ASSUME NEW u \in Users, NEW l \in DOMAIN listings, Buy(u, l) PROVE MarketInv'
    BY <1>4, BuyInv
  <1>5. CASE UNCHANGED vars
    BY <1>5 DEF vars, MarketInv, TypeOK, OneActiveListing, SellerOwnsToken, Active, ActiveListings, TokensOf
  <1>6. QED
    BY <1>1, <1>2, <1>3, <1>4, <1>5 DEF Next

\* The invariant holds always.
LEMMA MarketInvariant == Spec => []MarketInv
  <1>1. QED
    BY InitInv, NextInv, PTL DEF Spec

\* Every token has an owner among the users and every listing names a token and
\* a seller that exist, whatever entries HashMap::insert has added (nft.rs:89-137).
THEOREM MarketTypes == Spec => []TypeOK
  <1>1. MarketInv => TypeOK
    BY DEF MarketInv
  <1>2. QED
    BY <1>1, MarketInvariant, PTL

\* A token is never on sale twice: the search over all listings in list(),
\* nft.rs:165-171, is enough, for any number of users, tokens and listings.
THEOREM NeverOnSaleTwice == Spec => []OneActiveListing
  <1>1. MarketInv => OneActiveListing
    BY DEF MarketInv
  <1>2. QED
    BY <1>1, MarketInvariant, PTL

\* buy() needs no owner check of its own: whoever listed the token holds it.
THEOREM SellersOwnTheirTokens == Spec => []SellerOwnsToken
  <1>1. MarketInv => SellerOwnsToken
    BY DEF MarketInv
  <1>2. QED
    BY <1>1, MarketInvariant, PTL
-----------------------------------------------------------------------------
(* Refinement.  By the invariant, the open offer of a token, if there is    *)
(* one, is its owner's: OfferOf needs no listing number to say whose it is. *)

OnOffer(t) == \E l \in DOMAIN listings : Active(l) /\ listings[l].token = t

offer == [t \in DOMAIN tokens |-> OfferOf(t)]

OwnersOffer ==
    \A t \in DOMAIN tokens :
        /\ OnOffer(t) => offer[t] = tokens[t]
        /\ ~OnOffer(t) => offer[t] = NoOffer
        /\ tokens[t] # NoOffer

\* The seller CHOOSE finds is the token's owner.
LEMMA OfferIsOwners == MarketInv => OwnersOffer
  <1> SUFFICES ASSUME MarketInv, NEW t \in DOMAIN tokens
               PROVE  /\ OnOffer(t) => OfferOf(t) = tokens[t]
                      /\ ~OnOffer(t) => OfferOf(t) = NoOffer
                      /\ tokens[t] # NoOffer
    BY DEF offer, OwnersOffer
  <1> DEFINE c == CHOOSE l \in DOMAIN listings : Active(l) /\ listings[l].token = t
  <1>1. ASSUME OnOffer(t)
        PROVE  OfferOf(t) = tokens[t]
    <2>1. c \in DOMAIN listings /\ Active(c) /\ listings[c].token = t
      BY <1>1 DEF OnOffer
    <2>2. OfferOf(t) = listings[c].seller
      BY <1>1 DEF OnOffer, OfferOf
    <2> HIDE DEF c
    <2>3. QED
      BY <2>1, <2>2 DEF MarketInv, SellerOwnsToken, ActiveListings, TokensOf
  <1>2. ~OnOffer(t) => OfferOf(t) = NoOffer
    BY DEF OnOffer, OfferOf
  <1>3. tokens[t] # NoOffer
    BY MarketAssumption DEF MarketInv, TypeOK
  <1>4. QED
    BY <1>1, <1>2, <1>3

\* The same after a step.
LEMMA OfferIsOwnersNext == MarketInv' => OwnersOffer'
  BY OfferIsOwners, PTL

\* The empty market has no owners and no offers.
LEMMA InitRefines == Init => Ownership!Init
  BY DEF Init, Ownership!Init

\* Minting creates a token without an offer.
LEMMA MintRefines ==
    ASSUME MarketInv, MarketInv', NEW u \in Users, Mint(u)
    PROVE  Ownership!Next
  <1>1. PICK t \in 1..MaxTokens :
          Unused(tokens, t) /\ tokens' = With(tokens, t, u) /\ listings' = listings
    BY DEF Mint
  <1>2. /\ t \notin DOMAIN tokens
        /\ DOMAIN tokens' = DOMAIN tokens \cup {t}
    BY <1>1 DEF Unused, With
  <1>3. \A x \in DOMAIN tokens : tokens'[x] = tokens[x] /\ (OnOffer(x)' <=> OnOffer(x))
    BY <1>1, <1>2 DEF With, OnOffer, Active
  <1>4. ~OnOffer(t)'
    BY <1>1, <1>2 DEF OnOffer, Active, MarketInv, SellerOwnsToken, ActiveListings, TokensOf
  <1>5. OwnersOffer /\ OwnersOffer'
    BY OfferIsOwners, OfferIsOwnersNext
  <1>6. offer' = [x \in DOMAIN tokens \cup {t} |-> IF x = t THEN NoOffer ELSE offer[x]]
    <2>1. \A x \in DOMAIN tokens' : offer'[x] = IF x = t THEN NoOffer ELSE offer[x]
      BY <1>2, <1>3, <1>4, <1>5 DEF OwnersOffer
    <2>2. offer' = [x \in DOMAIN tokens' |-> offer'[x]]
      BY DEF offer
    <2>3. QED
      BY <1>2, <2>1, <2>2
  <1>7. tokens' = [x \in DOMAIN tokens \cup {t} |-> IF x = t THEN u ELSE tokens[x]]
    BY <1>1 DEF With
  <1>8. Ownership!Create(u, t)
    BY <1>2, <1>6, <1>7 DEF Ownership!Create, offer
  <1>9. QED
    BY <1>8 DEF Ownership!Next

\* The three operations on a token that exists change offer at one token.
LEMMA OfferExcept ==
    ASSUME NEW t \in DOMAIN tokens, NEW v, DOMAIN tokens' = DOMAIN tokens,
           \A x \in DOMAIN tokens : offer'[x] = IF x = t THEN v ELSE offer[x]
    PROVE  offer' = [offer EXCEPT ![t] = v]
  <1>1. offer' = [x \in DOMAIN tokens |-> offer'[x]]
    BY DEF offer
  <1>2. [offer EXCEPT ![t] = v] = [x \in DOMAIN tokens |-> IF x = t THEN v ELSE offer[x]]
    BY DEF offer
  <1>3. QED
    BY <1>1, <1>2

\* Listing opens the owner's offer.
LEMMA ListRefines ==
    ASSUME MarketInv, MarketInv', NEW u \in Users, NEW t \in DOMAIN tokens, List(u, t)
    PROVE  Ownership!Next
  <1>1. PICK l \in 1..MaxListings :
          /\ Unused(listings, l)
          /\ listings' = With(listings, l, [token |-> t, seller |-> u, status |-> "Active"])
          /\ tokens' = tokens
    BY DEF List, NewListing
  <1>2. ~OnOffer(t)
    BY DEF List, OnOffer
  <1>3. /\ DOMAIN listings' = DOMAIN listings \cup {l}
        /\ listings'[l].token = t /\ listings'[l].status = "Active"
        /\ \A k \in DOMAIN listings : listings'[k] = listings[k]
    BY <1>1 DEF Unused, With
  <1>4. OnOffer(t)'
    BY <1>3 DEF OnOffer, Active
  <1>5. \A x \in DOMAIN tokens : x # t => (OnOffer(x)' <=> OnOffer(x))
    BY <1>3 DEF OnOffer, Active
  <1>6. OwnersOffer /\ OwnersOffer'
    BY OfferIsOwners, OfferIsOwnersNext
  <1>7. \A x \in DOMAIN tokens : offer'[x] = IF x = t THEN tokens[t] ELSE offer[x]
    BY <1>1, <1>2, <1>4, <1>5, <1>6 DEF OwnersOffer
  <1>8. offer' = [offer EXCEPT ![t] = tokens[t]] /\ offer[t] = NoOffer
    BY <1>1, <1>2, <1>6, <1>7, OfferExcept DEF OwnersOffer
  <1>9. Ownership!Offer(t)
    BY <1>1, <1>8 DEF Ownership!Offer, offer
  <1>10. QED
    BY <1>9 DEF Ownership!Next

\* Closing listing l, the only active one of its token, withdraws the offer.
LEMMA CloseFacts ==
    ASSUME MarketInv, NEW l \in DOMAIN listings, Active(l),
           DOMAIN listings' = DOMAIN listings, ~Active(l)',
           \A k \in DOMAIN listings : k # l => listings'[k] = listings[k],
           NEW t, listings[l].token = t, listings'[l].token = t
    PROVE  /\ t \in DOMAIN tokens
           /\ OnOffer(t) /\ ~OnOffer(t)'
           /\ \A x \in DOMAIN tokens : x # t => (OnOffer(x)' <=> OnOffer(x))
  BY DEF MarketInv, OneActiveListing, SellerOwnsToken, OnOffer, Active, ActiveListings, TokensOf

\* Cancelling withdraws the offer.
LEMMA CancelRefines ==
    ASSUME MarketInv, MarketInv', NEW u \in Users, NEW l \in DOMAIN listings,
           CancelListing(u, l)
    PROVE  Ownership!Next
  <1>0. PICK t : t = listings[l].token
    OBVIOUS
  <1>1. listings[l] \in Listing
    BY DEF MarketInv, TypeOK
  <1>2. /\ DOMAIN listings' = DOMAIN listings
        /\ Active(l) /\ ~Active(l)' /\ listings'[l].token = t
        /\ \A k \in DOMAIN listings : k # l => listings'[k] = listings[k]
        /\ tokens' = tokens
    BY <1>0, <1>1 DEF CancelListing, MarketInv, TypeOK, Listing, Active
  <1>3. /\ t \in DOMAIN tokens /\ OnOffer(t) /\ ~OnOffer(t)'
        /\ \A x \in DOMAIN tokens : x # t => (OnOffer(x)' <=> OnOffer(x))
    BY <1>0, <1>2, CloseFacts
  <1>4. OwnersOffer /\ OwnersOffer'
    BY OfferIsOwners, OfferIsOwnersNext
  <1>5. \A x \in DOMAIN tokens : offer'[x] = IF x = t THEN NoOffer ELSE offer[x]
    BY <1>2, <1>3, <1>4 DEF OwnersOffer
  <1>6. offer' = [offer EXCEPT ![t] = NoOffer] /\ offer[t] # NoOffer
    BY <1>2, <1>3, <1>4, <1>5, OfferExcept DEF OwnersOffer
  <1>7. Ownership!Withdraw(t)
    BY <1>2, <1>6 DEF Ownership!Withdraw, offer
  <1>8. QED
    BY <1>3, <1>7 DEF Ownership!Next

\* Buying takes the offer.
LEMMA BuyRefines ==
    ASSUME MarketInv, MarketInv', NEW u \in Users, NEW l \in DOMAIN listings, Buy(u, l)
    PROVE  Ownership!Next
  <1>0. PICK t : t = listings[l].token
    OBVIOUS
  <1>1. listings[l] \in Listing
    BY DEF MarketInv, TypeOK
  <1>2. /\ DOMAIN listings' = DOMAIN listings
        /\ Active(l) /\ ~Active(l)' /\ listings'[l].token = t
        /\ \A k \in DOMAIN listings : k # l => listings'[k] = listings[k]
        /\ tokens' = [tokens EXCEPT ![t] = u] /\ listings[l].seller # u
    BY <1>0, <1>1 DEF Buy, Transfer, MarketInv, TypeOK, Listing, Active
  <1>3. /\ t \in DOMAIN tokens /\ OnOffer(t) /\ ~OnOffer(t)'
        /\ \A x \in DOMAIN tokens : x # t => (OnOffer(x)' <=> OnOffer(x))
    BY <1>0, <1>2, CloseFacts
  <1>4. tokens[t] # u /\ tokens[t] # NoOffer
    BY <1>0, <1>2, MarketAssumption DEF MarketInv, SellerOwnsToken, TypeOK, ActiveListings, TokensOf
  <1>5. OwnersOffer /\ OwnersOffer'
    BY OfferIsOwners, OfferIsOwnersNext
  <1>6. /\ DOMAIN tokens' = DOMAIN tokens
        /\ \A x \in DOMAIN tokens : x # t => tokens'[x] = tokens[x]
    BY <1>2, <1>3 DEF MarketInv, TypeOK
  <1>7. \A x \in DOMAIN tokens : offer'[x] = IF x = t THEN NoOffer ELSE offer[x]
    BY <1>3, <1>5, <1>6 DEF OwnersOffer
  <1>8. offer' = [offer EXCEPT ![t] = NoOffer] /\ offer[t] = tokens[t]
    BY <1>3, <1>5, <1>6, <1>7, OfferExcept DEF OwnersOffer
  <1>9. Ownership!Take(u, t)
    BY <1>2, <1>4, <1>8 DEF Ownership!Take, offer
  <1>10. QED
    BY <1>3, <1>9 DEF Ownership!Next

\* Every step of the market is a step of the promise or leaves it alone.
LEMMA NextRefines ==
    MarketInv /\ MarketInv' /\ [Next]_vars => [Ownership!Next]_(Ownership!vars)
  <1> SUFFICES ASSUME MarketInv, MarketInv', [Next]_vars
               PROVE  [Ownership!Next]_(Ownership!vars)
    OBVIOUS
  <1>1. ASSUME NEW u \in Users, Mint(u) PROVE Ownership!Next
    BY <1>1, MintRefines
  <1>2. ASSUME NEW u \in Users, NEW t \in DOMAIN tokens, List(u, t) PROVE Ownership!Next
    BY <1>2, ListRefines
  <1>3. ASSUME NEW u \in Users, NEW l \in DOMAIN listings, CancelListing(u, l)
        PROVE  Ownership!Next
    BY <1>3, CancelRefines
  <1>4. ASSUME NEW u \in Users, NEW l \in DOMAIN listings, Buy(u, l) PROVE Ownership!Next
    BY <1>4, BuyRefines
  <1>5. CASE UNCHANGED vars
    BY <1>5 DEF vars, Ownership!vars, OfferOf, Active
  <1>6. QED
    BY <1>1, <1>2, <1>3, <1>4, <1>5 DEF Next

\* The market implements the ownership promise: however listings are made,
\* cancelled, sold and made again, a token moves only when another user takes
\* the one open offer of its owner (nft.rs:140-259).
THEOREM MarketImplementsOwnership == Spec => MarketKeepsPromise
  <1>1. QED
    BY InitRefines, NextRefines, MarketInvariant, PTL
    DEF Spec, MarketKeepsPromise, Ownership!Spec
=============================================================================
