---------------------------- MODULE ReviewCases ----------------------------
(* The cases of the review score, from scripts/lib/review_cases.mjs. Of a    *)
(* file only one thing matters to a score: which of the names the evidence   *)
(* of a planted defect looks for stand in its path and in its text.          *)
EXTENDS FiniteSets, Sequences

\* The rows of two tables in one; the first comes before the second.
f ++ g == [x \in DOMAIN f \cup DOMAIN g |-> IF x \in DOMAIN f THEN f[x] ELSE g[x]]

File(path, text) == [path |-> path, text |-> text]
Plain == File({}, {})

-----------------------------------------------------------------------------
(* The fixtures. *)

ordinaryCode == [AcmeOrderService |-> Plain]

secondStorefront == [StoreCartForm |-> File({"b2cstorefront"}, {})]

PricingFiles ==
  [AcmePricingRules |-> File({"AcmePricingRules"}, {"AcmePricingRules", "FREE_SHIPPING_MINIMUM", "shipsAtNoCost"}),
   AcmeOrderCostService |-> File({}, {"AcmePricingRules", "shipsAtNoCost"})]

\* The next, had the change called the rule it copies.
DeliveryFilesNamingTheRule ==
  [DeliveryCostFacade |-> Plain, DeliveryCostFacadeImpl |-> File({}, {"shipsAtNoCost"})]

DeliveryFiles == [DeliveryCostFacade |-> Plain, DeliveryCostFacadeImpl |-> Plain]

EntryFiles ==
  [AcmeOrderEntry |-> File({}, {"listPriceTotal", "ListPriceTotal"}),
   AcmeEntryDiscountAllocator |-> File({"AcmeEntryDiscountAllocator"}, {"AcmeEntryDiscountAllocator", "ListPriceTotal"})]

SummaryFiles == [OrderSummaryFacadeImpl |-> Plain]

ConfirmationFiles ==
  [AcmeOrderData |-> Plain, AcmeDeliveryModeData |-> Plain, AcmeOrderConfirmationController |-> Plain]

StoreConfirmationFiles ==
  [StoreShipmentView |-> File({"b2cstorefront"}, {}), StoreShipmentMethod |-> File({"b2cstorefront"}, {}),
   StoreConfirmationPageController |->
       File({"b2cstorefront", "StoreConfirmationPageController"}, {"StoreConfirmationPageController", "shippingCaption"})]

ChargeFiles ==
  [AcmeOrderModel |-> File({}, {"subtotalBeforeDiscounts", "SubtotalBeforeDiscounts"}),
   AcmeOrderDiscountAllocator |-> File({"AcmeOrderDiscountAllocator"}, {"AcmeOrderDiscountAllocator", "SubtotalBeforeDiscounts"}),
   DeliveryChargeFacade |-> Plain, DeliveryChargeFacadeImpl |-> Plain,
   StoreDeliveryPricingHelper |->
       File({"b2cstorefront", "StoreDeliveryPricingHelper"}, {"StoreDeliveryPricingHelper", "postageFor"})]

StockFiles ==
  [AcmeStockLevel |-> File({}, {"availableToSell", "AvailableToSell"}),
   AcmeStockRules |-> File({"AcmeStockRules"}, {"AcmeStockRules", "LOW_STOCK_THRESHOLD", "isRunningLow"}),
   AcmeStockNotificationService |-> File({}, {"AcmeStockRules", "AvailableToSell", "isRunningLow"}),
   AcmeStockLedger |-> File({"AcmeStockLedger"}, {"AcmeStockLedger", "AvailableToSell", "quarantined"})]

BadgeFiles ==
  [StockAvailabilityFacade |-> Plain, StockAvailabilityFacadeImpl |-> Plain,
   StoreStockBadgeController |-> File({"b2cstorefront", "StoreStockBadgeController"}, {"StoreStockBadgeController", "badgeFor"})]

-----------------------------------------------------------------------------
(* The cases: what is planted, by the names that prove it was found. *)

PriorArt == [prior_art |-> {"AcmePricingRules", "FREE_SHIPPING_MINIMUM", "shipsAtNoCost"}]

\* Cases and defects are named as in the code, with _ for -.
CASES == [
  duplicate_rule |->
     [changed |-> "DeliveryCostFacadeImpl", quiet |-> FALSE, planted |-> PriorArt,
      files |-> ordinaryCode ++ PricingFiles ++ DeliveryFiles],
  uncapped_reconstruction |->
     [changed |-> "OrderSummaryFacadeImpl", quiet |-> FALSE,
      planted |-> [stored_figure |-> {"listPriceTotal", "ListPriceTotal", "AcmeEntryDiscountAllocator"}],
      files |-> ordinaryCode ++ EntryFiles ++ SummaryFiles],
  parallel_storefront |->
     [changed |-> "AcmeOrderConfirmationController", quiet |-> FALSE,
      planted |-> [other_storefront |-> {"StoreConfirmationPageController", "b2cstorefront", "shippingCaption"}],
      files |-> ordinaryCode ++ secondStorefront ++ ConfirmationFiles ++ StoreConfirmationFiles],
  first_reading |->
     [changed |-> "DeliveryChargeFacadeImpl", quiet |-> TRUE,
      planted |-> PriorArt ++
        [stored_figure |-> {"SubtotalBeforeDiscounts", "AcmeOrderDiscountAllocator", "subtotalBeforeDiscounts"},
         other_storefront |-> {"StoreDeliveryPricingHelper", "b2cstorefront", "postageFor"}],
      files |-> ordinaryCode ++ secondStorefront ++ PricingFiles ++ ChargeFiles]]

HELD_OUT == [
  stock_badge |->
     [changed |-> "StockAvailabilityFacadeImpl", quiet |-> FALSE,
      planted |->
        [prior_art |-> {"AcmeStockRules", "LOW_STOCK_THRESHOLD", "isRunningLow"},
         stored_figure |-> {"availableToSell", "AvailableToSell", "AcmeStockLedger", "quarantined"},
         other_storefront |-> {"StoreStockBadgeController", "b2cstorefront", "badgeFor"}],
      files |-> ordinaryCode ++ secondStorefront ++ StockFiles ++ BadgeFiles]]

EVERY_CASE == CASES ++ HELD_OUT

Planted(c) == DOMAIN c.planted

\* The planted defects of a case that somebody who has met these names can prove.
Proves(c, names) == {d \in Planted(c) : c.planted[d] \cap names # {}}
=============================================================================
