--------------------------- MODULE NftMarketplace ---------------------------
(***************************************************************************)
(* The in-memory NFT market of crates/apps/src/nft.rs.  The api crate      *)
(* wraps every call in one lock (with_market_mut), so each operation is    *)
(* one step.  A rejected request changes nothing and is not a step.        *)
(* Abstracted: names, descriptions and prices (no payment is made by the   *)
(* market).  token-n and listing-n are the numbers n.                      *)
(***************************************************************************)
EXTENDS Naturals

CONSTANTS
    Users,        \* addresses that mint, sell and buy
    NoOffer,      \* a value that is no user, for the refinement mapping
    MaxTokens,    \* bound: tokens minted
    MaxListings   \* bound: listings made

ASSUME MarketAssumption == /\ NoOffer \notin Users
                           /\ MaxTokens \in Nat /\ MaxListings \in Nat

VARIABLES
    tokens,     \* tokens[t]: owner of token t
    listings    \* listings[l]: [token, seller, status] of listing l

vars == <<tokens, listings>>

\* A map with one more entry: HashMap::insert of a new key.
With(f, k, v) == [x \in DOMAIN f \cup {k} |-> IF x = k THEN v ELSE f[x]]

\* next_token_seq and next_listing_seq count the entries made so far, so the
\* numbers in use are 1..n and the next one is the least number not in use.
Unused(f, n) == n \notin DOMAIN f /\ \A m \in 1..(n - 1) : m \in DOMAIN f

Active(l) == listings[l].status = "Active"

Init == /\ tokens = << >>
        /\ listings = << >>

\* Mutant: mint() leaves the owner unset.
MintUnowned(owner) ==
    \E t \in 1..MaxTokens :
        /\ Unused(tokens, t)
        /\ tokens' = With(tokens, t, NoOffer)
        /\ UNCHANGED listings

Mint(owner) ==
    \E t \in 1..MaxTokens :
        /\ Unused(tokens, t)
        /\ tokens' = With(tokens, t, owner)
        /\ UNCHANGED listings

NewListing(seller, t) ==
    \E l \in 1..MaxListings :
        /\ Unused(listings, l)
        /\ listings' = With(listings, l,
                            [token |-> t, seller |-> seller, status |-> "Active"])
        /\ UNCHANGED tokens

\* Mutant: the "already listed" search of list() is dropped.
ListTwice(seller, t) == tokens[t] = seller /\ NewListing(seller, t)

\* Mutant: the owner check of list() is dropped.
ListForeign(seller, t) ==
    /\ \A l \in DOMAIN listings : ~(listings[l].token = t /\ Active(l))
    /\ NewListing(seller, t)

List(seller, t) ==
    /\ tokens[t] = seller
    /\ \A l \in DOMAIN listings : ~(listings[l].token = t /\ Active(l))
    /\ NewListing(seller, t)

CancelListing(seller, l) ==
    /\ listings[l].seller = seller
    /\ Active(l)
    /\ listings' = [listings EXCEPT ![l].status = "Cancelled"]
    /\ UNCHANGED tokens

Transfer(buyer, l) ==
    /\ listings[l].token \in DOMAIN tokens
    /\ tokens' = [tokens EXCEPT ![listings[l].token] = buyer]
    /\ listings' = [listings EXCEPT ![l].status = "Sold"]

\* Mutant: buy() does not look at the listing's status.
BuyClosed(buyer, l) == listings[l].seller # buyer /\ Transfer(buyer, l)

Buy(buyer, l) ==
    /\ Active(l)
    /\ listings[l].seller # buyer
    /\ Transfer(buyer, l)

Next ==
    \E u \in Users :
        \/ Mint(u)
        \/ \E t \in DOMAIN tokens : List(u, t)
        \/ \E l \in DOMAIN listings : CancelListing(u, l) \/ Buy(u, l)

Spec == Init /\ [][Next]_vars

-----------------------------------------------------------------------------
\* nft_active_listings_handler and nft_owner_tokens_handler.
ActiveListings == {l \in DOMAIN listings : Active(l)}
TokensOf(owner) == {t \in DOMAIN tokens : tokens[t] = owner}

Listing == [token : 1..MaxTokens, seller : Users, status : {"Active", "Sold", "Cancelled"}]

TypeOK ==
    /\ DOMAIN tokens \subseteq 1..MaxTokens /\ tokens \in [DOMAIN tokens -> Users]
    /\ DOMAIN listings \subseteq 1..MaxListings /\ listings \in [DOMAIN listings -> Listing]

\* list() searches all listings for an active one of the token, so the active
\* listings a buyer is shown never have a token twice, whatever was cancelled,
\* sold and listed again before.
OneActiveListing ==
    \A k, l \in ActiveListings : listings[k].token = listings[l].token => k = l

\* buy() does not check who owns the token: it relies on every listing shown as
\* active still being of a token its seller is shown to own, even after the
\* token changed hands.
SellerOwnsToken ==
    \A l \in ActiveListings : listings[l].token \in TokensOf(listings[l].seller)

\* The user who offers token t now, if any.
OfferOf(t) ==
    IF \E l \in DOMAIN listings : Active(l) /\ listings[l].token = t
      THEN listings[CHOOSE l \in DOMAIN listings : Active(l) /\ listings[l].token = t].seller
      ELSE NoOffer

Ownership == INSTANCE NftOwnership
    WITH Tokens <- 1..MaxTokens, owner <- tokens,
         offer <- [t \in DOMAIN tokens |-> OfferOf(t)]

\* The market with its numbered, reusable listings behaves as the promise in
\* NftOwnership: a token moves only through the one open offer of its owner.
MarketKeepsPromise == Ownership!Spec
=============================================================================
