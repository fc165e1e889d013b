----------------------------- MODULE MCOffers -----------------------------
\* Each end sends a re-INVITE without an offer.
EXTENDS OfferAnswer

MCKind(r) == "offerless"
MCFrom(r) == IF r = "oa" THEN "caller" ELSE "callee"
=============================================================================
