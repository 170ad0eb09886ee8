----------------------------- MODULE SalesPages -----------------------------
(***************************************************************************)
(* The pages of sales, discounts, inventory and deliveries. The pages of   *)
(* the three brands load a month with one Promise.all and a day-by-day     *)
(* table when a month of the trend is picked (`drill`).                    *)
(***************************************************************************)
EXTENDS Endpoints

------------------------------------------------------------------------------
(* u/sales: the figures of three fixed stores; a brand whose request       *)
(* fails is shown without.                                                 *)

SalesKpis     == Clearing(Loads({GelatoOverview, TamkokoOverview, BonjurOverview}, {}))
SalesCards    == Section({"kpis"}, {})
SalesPage     == Screen([kpis |-> SalesKpis], NoOps, {SalesCards})

------------------------------------------------------------------------------
(* u/sales/gelatomiiix                                                     *)

GelatoWatched == {"month", "pure", "store"}

GelatoStores  == Keeping(Loads({StoresRoute}, {}))
GelatoMonthly ==
    Loads({GelatoOverview, GelatoChannel, GelatoProduct, GelatoChannelDaily,
           GelatoProductAnalysis, GelatoHourly}, GelatoWatched)
GelatoTrends  == Asks({GelatoTrend, GelatoChannel}, {"store", "pure"}, GelatoWatched)
GelatoCups    == Asks({GelatoCategoryCup}, {"store", "month"}, GelatoWatched)

(* reloadDaily reads the store and pureMode of its render, its effect      *)
(* watches selectedDrillMonth only.                                        *)
GelatoDrill   ==
    Needing(Asks({GelatoDaily}, {"store", "drill", "pure"}, {"drill"}), {"drill"})

(* Another store and another month close the table of days.                *)
GelatoResets  == {<<"store", "drill">>, <<"month", "drill">>}

GelatoHeader    == Section({"stores"}, {})
GelatoKpis      == Section({"monthly"}, {})
GelatoTrendPart == Section({"trend", "daily"}, {})
GelatoChannels  == Section({"monthly", "trend"}, {})
GelatoProducts  == Section({"monthly"}, {})
GelatoDays      == Section({"monthly"}, {})
GelatoSpecs     == Section({"monthly"}, {})
GelatoCategory  == Section({"cups"}, {})
GelatoCupSizes  == Section({"cups"}, {})
GelatoHours     == Section({"monthly"}, {})

GelatoSalesPage ==
    [Screen([stores |-> GelatoStores, monthly |-> GelatoMonthly, trend |-> GelatoTrends,
             cups |-> GelatoCups, daily |-> GelatoDrill], NoOps,
            {GelatoHeader, GelatoKpis, GelatoTrendPart, GelatoChannels, GelatoProducts,
             GelatoDays, GelatoSpecs, GelatoCategory, GelatoCupSizes, GelatoHours})
     EXCEPT !.resets = GelatoResets]

------------------------------------------------------------------------------
(* u/sales/tamkoko                                                         *)

TamkokoWatched == {"store", "month"}

TamkokoMonthly ==
    Loads({TamkokoOverview, TamkokoChannel, TamkokoDineTakeaway, TamkokoMealPeriod,
           TamkokoCombined}, TamkokoWatched)
TamkokoTrends  == Asks({TamkokoTrend, TamkokoChannel}, {"store"}, TamkokoWatched)
TamkokoStores  == Asks({TamkokoMultiStore}, {"month"}, TamkokoWatched)
TamkokoDrill   == Needing(Loads({TamkokoDaily}, {"store", "drill"}), {"drill"})
TamkokoResets  == {<<"month", "drill">>}

TamkokoKpis      == Section({"monthly", "stores"}, {})
TamkokoChannelTrend == Section({"trend"}, {})
TamkokoTrendPart == Section({"trend", "daily"}, {})
TamkokoChannels  == Section({"monthly"}, {})
TamkokoDine      == Section({"monthly"}, {})
TamkokoMeals     == Section({"monthly"}, {})

TamkokoSalesPage ==
    [Screen([monthly |-> TamkokoMonthly, trend |-> TamkokoTrends, stores |-> TamkokoStores,
             daily |-> TamkokoDrill], NoOps,
            {TamkokoKpis, TamkokoChannelTrend, TamkokoTrendPart, TamkokoChannels,
             TamkokoDine, TamkokoMeals})
     EXCEPT !.resets = TamkokoResets]

------------------------------------------------------------------------------
(* u/sales/bonjur                                                          *)

BonjurWatched == {"month", "store"}

BonjurStores   == Keeping(Loads({StoresRoute}, {}))
BonjurMonthly  ==
    Loads({BonjurOverview, BonjurChannel, BonjurDineTakeaway, BonjurProduct}, BonjurWatched)
BonjurTrends   == Asks({BonjurTrend}, {"store"}, BonjurWatched)
BonjurDrill    == Needing(Asks({BonjurDaily}, {"store", "drill"}, {"drill"}), {"drill"})
BonjurResets   == {<<"store", "drill">>, <<"month", "drill">>}

BonjurHeader    == Section({"stores"}, {})
BonjurKpis      == Section({"monthly"}, {})
BonjurTrendPart == Section({"trend", "daily"}, {})
BonjurChannels  == Section({"monthly"}, {})
BonjurDine      == Section({"monthly"}, {})
BonjurProducts  == Section({"monthly"}, {})

BonjurSalesPage ==
    [Screen([stores |-> BonjurStores, monthly |-> BonjurMonthly, trend |-> BonjurTrends,
             daily |-> BonjurDrill], NoOps,
            {BonjurHeader, BonjurKpis, BonjurTrendPart, BonjurChannels, BonjurDine,
             BonjurProducts})
     EXCEPT !.resets = BonjurResets]

------------------------------------------------------------------------------
(* u/sales/gelatomiiix/discount: the store comes with the address. A store *)
(* without a model keeps the one before, like a failed request; so do the  *)
(* bands over all months, which fall back to those of the month.           *)

(* The name is looked up in the list when it comes in.                     *)
DiscountStore        == Keeping(Loads({NameOfStore}, {"store"}))
DiscountCoefficients == Keeping(Loads({ModelCoefficients}, {"store"}))
DiscountBaseline     == Keeping(Loads({ModelBaseline}, {"store"}))
(* The flag is not lowered when a request fails.                           *)
DiscountMonth_NoFinally == Hanging(Loads({GelatoDiscount}, {"store", "month", "gifts"}))
DiscountMonth        == Loads({GelatoDiscount}, {"store", "month", "gifts"})
DiscountBands        ==
    Clearing(Asks({GelatoDiscount}, {"store", "gifts"}, {"store", "month", "gifts"}))

DiscountHeader    == Section({"store"}, {})
DiscountCards     == Section({"month"}, {})
DiscountMonths    == Section({"month"}, {})
DiscountChannels  == Section({"month"}, {})
DiscountStructure == Section({"month"}, {})
DiscountBandTable == Section({"month", "bands"}, {})
DiscountModel     == Section({"coefficients"}, {})
DiscountBase      == Section({"baseline"}, {})

DiscountPage ==
    Screen([store |-> DiscountStore, coefficients |-> DiscountCoefficients,
            baseline |-> DiscountBaseline, month |-> DiscountMonth, bands |-> DiscountBands],
           NoOps,
           {DiscountHeader, DiscountCards, DiscountMonths, DiscountChannels,
            DiscountStructure, DiscountBandTable, DiscountModel, DiscountBase})

------------------------------------------------------------------------------
(* u/inventory: rows and stores are rendered for the brand of the address; *)
(* the form saves a total and refreshes the rendering.                     *)

InventoryStoreList  == Given({InventoryStores}, {"brand"})
InventoryRowList    == Given({InventoryRows}, {"brand"})
(* The board marks its request when it is taken down.                      *)
DailyCheckBoard     == Dropping(Loads({DailyCheck}, {}))
InventorySubmit     == ByEffect(Does(InventorySave, {"rows", "stores"}))

InventoryEntryForm    == Section({"stores"}, {"save"})
InventoryMonthlyTable == Section({"rows"}, {})
GelatoInventoryTab    == Section({"check"}, {})

InventoryPage ==
    Screen([stores |-> InventoryStoreList, rows |-> InventoryRowList,
            check |-> DailyCheckBoard],
           [save |-> InventorySubmit],
           {InventoryEntryForm, InventoryMonthlyTable, GelatoInventoryTab})

------------------------------------------------------------------------------
(* xintiandi: three sections that know nothing of each other; an upload    *)
(* shows its own result only.                                              *)

DeliveryDashboard == Keeping(Loads({XintiandiDashboard}, {}))
DeliveryBatches   == Keeping(Loads({XintiandiBatches}, {}))
DeliveryUpload    == Does(XintiandiUpload, {})

UploadSection     == Section({}, {"upload"})
DashboardSection  == Section({"dashboard"}, {})
BatchHistory      == Section({"batches"}, {})

XintiandiPage ==
    Screen([dashboard |-> DeliveryDashboard, batches |-> DeliveryBatches],
           [upload |-> DeliveryUpload], {UploadSection, DashboardSection, BatchHistory})

------------------------------------------------------------------------------
SalesScreens ==
    [sales |-> SalesPage, gelatoSales |-> GelatoSalesPage, tamkokoSales |-> TamkokoSalesPage,
     bonjurSales |-> BonjurSalesPage, discount |-> DiscountPage, inventory |-> InventoryPage,
     xintiandi |-> XintiandiPage]
==============================================================================
