----------------------------- MODULE SitePrices -----------------------------
(***************************************************************************)
(* The price of a good on the site: the promotions that apply to it and    *)
(* the discount they give (app/services/site_service.py).  Money counts    *)
(* hundredths, a percentage is whole.                                      *)
(***************************************************************************)
EXTENDS Integers, FiniteSetsExt

CONSTANTS
  Goods,
  RetailPrice,  \* retail_price of each good
  CategoryOf,   \* category_id of each good, or NoOne
  Promo,        \* the promotions that can be created, by id:
                \* [kind, value, good, category, starts, ends]
  NoOne         \* null

PromoIds == DOMAIN Promo

ASSUME PriceAssumption ==
  /\ RetailPrice \in [Goods -> Nat]
  /\ DOMAIN CategoryOf = Goods
  /\ PromoIds \subseteq Nat \ {0}
  /\ \A p \in PromoIds :
       /\ Promo[p].kind \in {"percent", "fixed"}
       /\ Promo[p].value \in Int
       /\ Promo[p].good \in Goods \cup {NoOne}
       /\ {Promo[p].starts, Promo[p].ends} \ {NoOne} \subseteq Nat

\* Decimal.quantize(0.01) of n / 100: to the nearest, ties to even.
Hundredths(n) ==
  LET k == n \div 100
      r == n % 100
  IN  IF r > 50 \/ (r = 50 /\ k % 2 = 1) THEN k + 1 ELSE k

\* The days of a promotion, both ends included.
ActiveOn(p, on) ==
  /\ Promo[p].starts # NoOne => on >= Promo[p].starts
  /\ Promo[p].ends # NoOne => on <= Promo[p].ends

\* The newest active promotion of the good, else of its category, else of
\* everything; 0 if there is none.
FindPromotion(enabled, g, on) ==
  LET active == {p \in enabled : ActiveOn(p, on)}
      byProduct == {p \in active : Promo[p].good = g}
      byCategory == {p \in active : CategoryOf[g] # NoOne /\ Promo[p].category = CategoryOf[g]}
      global == {p \in active : Promo[p].good = NoOne /\ Promo[p].category = NoOne}
  IN  CASE byProduct # {} -> Max(byProduct)
        [] byProduct = {} /\ byCategory # {} -> Max(byCategory)
        [] byProduct = {} /\ byCategory = {} /\ global # {} -> Max(global)
        [] OTHER -> 0

ApplyDiscount(base, p) ==
  LET result == IF Promo[p].kind = "fixed" THEN 100 * (base - Promo[p].value)
                                           ELSE base * (100 - Promo[p].value)
  IN  IF result < 0 THEN 0 ELSE Hundredths(result)

\* Never above the base price.
EffectivePrice(base, p) ==
  IF p # 0 /\ ApplyDiscount(base, p) < base THEN ApplyDiscount(base, p) ELSE base

=============================================================================
