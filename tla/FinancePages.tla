---------------------------- MODULE FinancePages ----------------------------
(***************************************************************************)
(* The pages of income, payments, statements, the dashboard and the store  *)
(* report: those under ui/src/app/u take their filter from the address     *)
(* and are rendered on the server, the older ones keep it in useState.     *)
(***************************************************************************)
EXTENDS Endpoints

Detail == Filter \cup {"counterparty"}

------------------------------------------------------------------------------
(* u/income                                                                *)

BankEntryRateSection  == Loads({IncomeBankEntryStats}, Filter \cup {"channel"})
SettlementCycleSection == Loads({CycleRecon}, Filter)
TaobaoReconSection    == Loads({TaobaoRecon}, Filter)
MeituanReconSection   == Loads({MeituanRecon}, Filter)
MeituanTuangouSection == Loads({MeituanTuangouRecon}, Filter)
DouyinReconSection    == Loads({DouyinRecon}, Filter)
GelatoWechatSection   == Loads({GelatoWechatRecon}, Filter)
GelatoAlipaySection   == Loads({GelatoAlipayRecon}, Filter)

(* useState(initialMetrics): the first rendering stays while navigate      *)
(* changes the address.                                                    *)
IncomeMetrics         == Frozen({getIncomeMetricsData}, Filter)
IncomeCounterparties  == Given({getIncomeCounterparties}, Filter)
IncomeStores          == Given({getDashboardBrands, getStoresForBrand}, {"brand"})
IncomeDetail          ==
    Keeping(Needing(Loads({FinancialCounterparty}, Detail \cup {"channel"}), {"counterparty"}))

IncomeHeader  == Section({"stores"}, {})
IncomeTotals  == Section({"metrics"}, {})
IncomeRecon   == Section({"entry", "cycle", "taobao", "meituan", "tuangou", "douyin",
                          "wechat", "alipay"}, {})
IncomeList    == Section({"counterparties"}, {})
IncomeTxns    == Section({"detail"}, {})

(* A new brand resets the store only.                                      *)
incomeNavigate == {<<"brand", "store">>}

IncomePage ==
    [Screen([metrics |-> IncomeMetrics, counterparties |-> IncomeCounterparties,
             stores |-> IncomeStores, detail |-> IncomeDetail, entry |-> BankEntryRateSection,
             cycle |-> SettlementCycleSection, taobao |-> TaobaoReconSection,
             meituan |-> MeituanReconSection, tuangou |-> MeituanTuangouSection,
             douyin |-> DouyinReconSection, wechat |-> GelatoWechatSection,
             alipay |-> GelatoAlipaySection],
            NoOps, {IncomeHeader, IncomeTotals, IncomeRecon, IncomeList, IncomeTxns})
     EXCEPT !.resets = incomeNavigate,
            !.options = {<<"store", "brand">>, <<"period", "span">>, <<"counterparty", "brand">>}]

------------------------------------------------------------------------------
(* u/payment                                                               *)

PaymentStores         == Given({getDashboardBrands, getStoresForBrand}, {"brand"})
PaymentCounterparties == Given({getCounterpartyList}, Filter)
PaymentMetrics        == Given({getPaymentMetrics}, Filter)
PaymentDetail         ==
    Keeping(Needing(Loads({FinancialCounterparty}, Detail), {"counterparty"}))

(* The brand of this page comes with the address only; another span takes  *)
(* its own last period.                                                    *)
paymentNavigate  == {<<"span", "period">>}

PaymentHeader    == Section({"stores"}, {})
PaymentTotals    == Section({"metrics"}, {})
PaymentList      == Section({"counterparties"}, {})
PaymentTxns      == Section({"detail"}, {})

PaymentClientPage ==
    [Screen([stores |-> PaymentStores, counterparties |-> PaymentCounterparties,
             metrics |-> PaymentMetrics, detail |-> PaymentDetail],
            NoOps, {PaymentHeader, PaymentTotals, PaymentList, PaymentTxns})
     EXCEPT !.resets = paymentNavigate, !.options = {<<"period", "span">>}]

------------------------------------------------------------------------------
(* u/dashboard                                                             *)

DashboardStores   == Given({getDashboardBrands, getDashboardStores}, {"brand"})
DashboardOverview == Given({getDashboardOverview}, Filter)
(* The balance of the overview is left at zero when its query fails.       *)
DashboardBalance  == Clearing(Given({getDashboardOverview}, Filter))
DashboardTrend    == Given({getDashboardTrend}, Filter)
DashboardRevenue  == Given({getDashboardQimaiRevenue}, Filter)

dashboardNavigate == {<<"span", "period">>, <<"brand", "store">>}

PeriodSelector    == Section({"stores"}, {})
KpiCards          == Section({"overview", "balance", "revenue"}, {})
DashboardChart    == Section({"trend"}, {})
ExpenseBreakdown  == Section({"trend"}, {})
DataHealth        == Section({"stores"}, {})

DashboardPage ==
    [Screen([stores |-> DashboardStores, overview |-> DashboardOverview,
             balance |-> DashboardBalance, trend |-> DashboardTrend,
             revenue |-> DashboardRevenue],
            NoOps, {PeriodSelector, KpiCards, DashboardChart, ExpenseBreakdown, DataHealth})
     EXCEPT !.resets = dashboardNavigate,
            !.options = {<<"store", "brand">>, <<"period", "span">>}]

------------------------------------------------------------------------------
(* u/financial                                                             *)

StatementStores   == Given({getFinancialOffers}, {"brand"})
ProfitLines       == Given({getProfitStatementData}, Filter)
CashflowLines     == Given({getCashflowStatementData}, Filter)
BalanceLines      == Given({getBalanceSheetData}, Filter)
StatementOverview == Given({getFinancialOverviewData}, Filter)
StatementCash     == Clearing(Given({getFinancialOverviewData}, Filter))

financialNavigate == {<<"span", "period">>, <<"span", "store">>}

OverviewCards     == Section({"overview", "cash"}, {})
StatementTables   == Section({"stores", "profit", "cashflow", "balance"}, {})

FinancialClientPage ==
    [Screen([stores |-> StatementStores, profit |-> ProfitLines, cashflow |-> CashflowLines,
             balance |-> BalanceLines, overview |-> StatementOverview, cash |-> StatementCash],
            NoOps, {OverviewCards, StatementTables})
     EXCEPT !.resets = financialNavigate, !.options = {<<"period", "span">>}]

------------------------------------------------------------------------------
(* financial: the brand is the console's, the rest useState. The effect    *)
(* that moves the period to the new span runs after the statements have    *)
(* asked with the old one.                                                 *)

useStores         == Keeping(Loads({StoresRoute}, {"brand"}))
ProfitTab         == Loads({ProfitRoute}, Filter)
CashflowTab       == Loads({CashflowRoute}, Filter)
BalanceSheetTab   == Loads({BalanceSheetRoute}, Filter)
OverviewPanel     == Clearing(Loads({OverviewRoute}, Filter))
CounterpartyTabList   == Loads({FinancialCounterparty}, {"brand"})
CounterpartyTabDetail ==
    Keeping(Needing(Loads({FinancialCounterparty}, Detail), {"counterparty"}))

spanEffect        == {<<"span", "period">>}

FinancialTabs     == Section({"stores", "overview", "profit", "cashflow", "balance"}, {})
CounterpartyTables == Section({"list", "detail"}, {})

FinancialPage ==
    [Screen([stores |-> useStores, overview |-> OverviewPanel, profit |-> ProfitTab,
             cashflow |-> CashflowTab, balance |-> BalanceSheetTab,
             list |-> CounterpartyTabList, detail |-> CounterpartyTabDetail],
            NoOps, {FinancialTabs, CounterpartyTables})
     EXCEPT !.follows = spanEffect,
            !.options = {<<"store", "brand">>, <<"period", "span">>, <<"counterparty", "brand">>}]

------------------------------------------------------------------------------
(* payment and income, the older pages                                     *)

paymentStores     == Keeping(Loads({StoresRoute}, {"brand"}))
paymentMetrics    == Keeping(Loads({PaymentMetricsRoute}, Filter))
paymentList       == Loads({FinancialCounterparty}, {"brand"})
paymentDetail     == Keeping(Needing(Loads({FinancialCounterparty}, Detail), {"counterparty"}))
paymentFilters    == Section({"stores", "metrics"}, {})
paymentTables     == Section({"list", "detail"}, {})

PaymentPage ==
    [Screen([stores |-> paymentStores, metrics |-> paymentMetrics, list |-> paymentList,
             detail |-> paymentDetail], NoOps, {paymentFilters, paymentTables})
     EXCEPT !.follows = {<<"span", "period">>},
            !.options = {<<"store", "brand">>, <<"period", "span">>, <<"counterparty", "brand">>}]

incomeStores      == Keeping(Loads({StoresRoute}, {"brand"}))
incomeList        == Loads({FinancialCounterparty}, {"brand"})
incomeDetail      == Keeping(Needing(Loads({FinancialCounterparty}, Detail), {"counterparty"}))
incomeTables      == Section({"stores", "list", "detail"}, {})

IncomePageOld ==
    [Screen([stores |-> incomeStores, list |-> incomeList, detail |-> incomeDetail],
            NoOps, {incomeTables})
     EXCEPT !.follows = {<<"span", "period">>},
            !.options = {<<"store", "brand">>, <<"period", "span">>, <<"counterparty", "brand">>}]

------------------------------------------------------------------------------
(* u/store-report                                                          *)

ReportStores      == Given({getDashboardBrands, getStoresForBrand}, {"brand"})
ReportSnapshot    == Given({getSnapshotData}, {"brand", "store", "month"})
ReportTrend       == Given({getTrendData}, {"brand", "store"})
StoreFilter       == Section({"stores"}, {})
ReportKpiCards    == Section({"snapshot"}, {})
ReportTrendCharts == Section({"trend"}, {})

StoreReportPage ==
    [Screen([stores |-> ReportStores, snapshot |-> ReportSnapshot, trend |-> ReportTrend],
            NoOps, {StoreFilter, ReportKpiCards, ReportTrendCharts})
     EXCEPT !.resets = {<<"brand", "store">>}, !.options = {<<"store", "brand">>}]

------------------------------------------------------------------------------
(* u: the overview of files and gaps; a brand whose tables fail is left    *)
(* out or shown empty.                                                     *)

HomeBrandRows     == Given({HomeFiles}, {})
HomeBankRows      == Clearing(Given({HomeBank}, {}))
HomeSourceRows    == Clearing(Given({HomeSources}, {}))
HomeInventoryRows == Clearing(Given({HomeInventory}, {}))
HomeCards         == Section({"brands", "bank"}, {})
HomeTables        == Section({"sources", "inventory"}, {})

HomePage ==
    Screen([brands |-> HomeBrandRows, bank |-> HomeBankRows, sources |-> HomeSourceRows,
            inventory |-> HomeInventoryRows], NoOps, {HomeCards, HomeTables})

------------------------------------------------------------------------------
FinanceScreens ==
    [income |-> IncomePage, payment |-> PaymentClientPage, dashboard |-> DashboardPage,
     statements |-> FinancialClientPage, oldStatements |-> FinancialPage,
     oldPayment |-> PaymentPage, oldIncome |-> IncomePageOld, storeReport |-> StoreReportPage,
     home |-> HomePage]
==============================================================================
