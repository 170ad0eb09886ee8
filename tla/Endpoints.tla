------------------------------ MODULE Endpoints ------------------------------
(***************************************************************************)
(* The routes of ui/src/app/api and the server-side queries of             *)
(* ui/src/lib/queries that the pages draw on: what each takes from its     *)
(* caller and which tables its statements read or write. Views are named   *)
(* by the tables under them: the statements, the monthly indicators and    *)
(* the coverage are views of the classified snapshot.                      *)
(*                                                                         *)
(* A handler that has written when it answers is a Command, in one         *)
(* transaction or in several statements: no pane tells the two apart.      *)
(* What it refuses without writing is a failed command of Screens.         *)
(***************************************************************************)
EXTENDS ScreenParts

Filter == {"brand", "span", "period", "store"}

Books  == {"snapshot", "bank_txn"}
Recon  == {"snapshot", "bank_txn", "income_detail"}

------------------------------------------------------------------------------
(* Income: entry rate, orders and the reconciliations by channel.          *)

IncomeBankEntryStats     == Query(Filter \cup {"channel"}, Recon \cup {"channel_mapping"})
CycleRecon               == Query(Filter, Recon)
TaobaoRecon              == Query(Filter, Recon)
MeituanRecon             == Query(Filter, Recon)
MeituanTuangouRecon      == Query(Filter, Recon)
DouyinRecon              == Query(Filter, Recon)
GelatoWechatRecon        == Query(Filter, Recon)
GelatoAlipayRecon        == Query(Filter, Recon)

(* One route for the list of counterparties and, given one, its            *)
(* transactions; lvl2_code is the channel picked in the entry rates.       *)
FinancialCounterparty    == Query(Filter \cup {"counterparty", "channel", "direction"},
                                  Books \cup {"dict"})

(* Statements and indicators.                                              *)
ProfitRoute              == Query(Filter, Books)
CashflowRoute            == Query(Filter, Books)
BalanceSheetRoute        == Query(Filter, Books \cup {"inventory"})
OverviewRoute            == Query(Filter, Books \cup {"stores"})
PaymentMetricsRoute      == Query(Filter, Books \cup {"dict"})
StoresRoute              == Query({"brand"}, {"stores"})
NameOfStore              == [StoresRoute EXCEPT !.params = {"brand", "store"}]
BrandsRoute              == Query({}, {"brands"})

------------------------------------------------------------------------------
(* Queries of server components.                                           *)

getIncomeMetricsData     == Query(Filter, Books \cup {"dict"})
getIncomeCounterparties  == Query(Filter, Books \cup {"dict"})
getStoresForBrand        == Query({"brand"}, {"stores"})
getCounterpartyList      == Query(Filter, Books \cup {"dict"})
getPaymentMetrics        == Query(Filter, Books \cup {"dict"})
getDashboardOverview     == Query(Filter, Books \cup {"income_detail", "stores"})
getDashboardTrend        == Query(Filter, Books \cup {"dict"})
getDashboardQimaiRevenue == Query(Filter, {"snapshot", "income_detail"})
getDashboardStores       == Query({"brand"}, {"stores"})
getDashboardBrands       == Query({}, {"brands"})
getFinancialOffers       == Query({"brand"}, {"stores"})
getProfitStatementData   == Query(Filter, Books)
getCashflowStatementData == Query(Filter, Books)
getBalanceSheetData      == Query(Filter, Books \cup {"inventory"})
getFinancialOverviewData == Query(Filter, Books \cup {"stores"})
getSnapshotData          == Query({"brand", "store", "month"}, Books \cup {"inventory"})
getTrendData             == Query({"brand", "store"}, Books)
HomeFiles                == Query({}, {"brands", "ingest_file"})
HomeBank                 == Query({}, {"stores", "bank_txn"})
HomeSources              == Query({}, {"stores", "income_detail", "product_sales", "cash_register"})
HomeInventory            == Query({}, {"stores", "inventory"})

------------------------------------------------------------------------------
(* Sales: views of the orders of each brand. The switch exclude_other of   *)
(* the gelato routes is the input `pure` of its page; a month left out of  *)
(* the request is no filter.                                               *)

Orders  == {"income_detail"}
Cups    == {"income_detail", "product_sales"}
Till    == {"cash_register"}

GelatoOverview           == Query({"store", "month", "pure"}, Orders)
GelatoChannel            == Query({"store", "month", "pure"}, Orders)
GelatoProduct            == Query({"store", "month", "pure"}, Cups)
GelatoTrend              == Query({"store", "pure"}, Orders)
GelatoChannelDaily       == Query({"store", "month", "pure", "channel"}, Orders)
GelatoProductAnalysis    == Query({"store", "month", "pure", "group"}, Cups)
GelatoHourly             == Query({"store", "month", "pure"}, Cups)
GelatoDaily              == Query({"store", "drill", "pure"}, Orders)
GelatoCategoryCup        == Query({"store", "month"}, {"product_sales"})
GelatoDiscount           == Query({"store", "month", "gifts"}, Orders)

TamkokoOverview          == Query({"store", "month"}, Till)
TamkokoTrend             == Query({"store"}, Till)
TamkokoChannel           == Query({"store", "month"}, Till)
TamkokoDineTakeaway      == Query({"store", "month"}, Till)
TamkokoMealPeriod        == Query({"store", "month"}, Till)
TamkokoCombined          == Query({"store", "month", "dims"}, Till)
TamkokoMultiStore        == Query({"month"}, Till)
TamkokoDaily             == Query({"store", "drill"}, Till)

BonjurOverview           == Query({"store", "month"}, Orders)
BonjurChannel            == Query({"store", "month"}, Orders)
BonjurDineTakeaway       == Query({"store", "month"}, Orders)
BonjurProduct            == Query({"store", "month"}, Orders)
BonjurTrend              == Query({"store"}, Orders)
BonjurDaily              == Query({"store", "drill"}, Orders)

(* The coefficients and the baseline of the newest run of a store.         *)
ModelCoefficients        == Query({"store"}, {"snapshots", "model_run"})
ModelBaseline            == Query({"store"}, {"snapshots", "model_run"})

(* The imports wait for the script they start.                             *)
TamkokoUpload            == Command({"ingest_file", "bank_txn"})
TamkokoCashRegisterUpload == Command({"ingest_file", "cash_register"})
XintiandiUpload          == Command({"delivery"})
XintiandiDashboard       == Query({}, {"delivery"})
XintiandiBatches         == Query({}, {"delivery"})

------------------------------------------------------------------------------
(* Inventory: monthly totals in the books, daily checks of the supplier.   *)

InventoryStores          == Query({"brand"}, {"stores"})
InventoryRows            == Query({"brand"}, {"inventory", "stores"})
InventorySave            == Command({"inventory"})
DailyCheck               == Query({}, {"supplier"})

------------------------------------------------------------------------------
(* Matching, rules and the pipeline. The list of unclassified transactions *)
(* is read from the snapshot, the hits of a keyword from the live view.    *)

Classified               == {"rules", "overrides", "bank_txn"}

MatchRoute               == Query({"brand", "month", "page"}, Books)
MatchCandidates          == Query({"brand", "txn"}, {"bank_txn"})
MatchPreview             == Query({"brand", "keyword"}, Classified)
MatchOverride            == Command({"overrides"})
MatchOverrideBatch       == Command({"overrides"})
MatchOverrideDelete      == Command({"overrides"})
RulesSettle              == Command({"rules", "overrides", "resolution_log"})
RulesSettleBatch         == Command({"rules", "overrides", "resolution_log"})

RulesRoute               == Query({"brand"}, {"rules", "dict"})
RuleCreate               == Command({"rules"})
RuleUpdate               == Command({"rules"})
RuleDelete               == Command({"rules"})
RulesReorder             == Command({"rules"})
ImportFromBrand          == Command({"rules", "rule_groups"})
CategoriesRoute          == Query({"brand"}, {"dict"})
RuleGroupsRoute          == Query({"brand"}, {"rule_groups"})

PipelineRuns             == Query({}, {"pipeline_run"})
PipelineKpi              == Query({"brand"}, Books)
RerunMatch               == Command({"snapshot", "ingest_file", "pipeline_run"})
CoverageRoute            == Query({"brand"}, {"snapshot"})
CoverageByFile           == Query({"brand"}, {"snapshot", "ingest_file"})
UnclassifiedByFile       == Query({"brand", "file"}, {"snapshot"})
Introspect               == Query({"schema", "object"}, {"catalog"})

(* The upload waits for the import of the file it stored.                  *)
UploadRoute              == Command({"ingest_file", "bank_txn", "income_detail", "snapshot"})

------------------------------------------------------------------------------
(* Configuration. Brands, stores and groups are saved in the order of the  *)
(* list the page posts.                                                    *)

AdminBrands              == Query({}, {"brands"})
BrandCreate              == Command({"brands", "schemas", "dict_lvl1", "dict_lvl2"})
BrandsReorder            == Command({"brands"})
InitBankTemplate         == Command({"schemas", "rules"})
AdminStores              == Query({"brand"}, {"stores"})
StoreCreate              == Command({"stores"})
StoreDelete              == Command({"stores"})
StoresReorder            == Command({"stores"})
AdminRuleGroups          == Query({"brand"}, {"rule_groups"})
RuleGroupCreate          == Command({"rule_groups"})
RuleGroupsReorder        == Command({"rule_groups"})
RulesCopy                == Command({"rules"})
AdminUsers               == Query({}, {"users"})
UserCreate               == Command({"users"})
UserUpdate               == Command({"users"})
UserDelete               == Command({"users"})

(* The dictionary of a brand, and its copies.                              *)
DictLvl1                 == Query({"brand"}, {"dict_lvl1"})
DictLvl1Save             == Command({"dict_lvl1"})
DictLvl2                 == Query({"brand", "filter"}, {"dict_lvl2"})
DictLvl2Save             == Command({"dict_lvl2"})
DictCopyFromYufeng       == Command({"dict_lvl1", "dict_lvl2"})
DictPreview              == Query({"brands"}, {"dict_lvl1", "dict_lvl2"})
DictSync                 == Command({"dict_lvl1", "dict_lvl2"})

(* Schedules of the daemon and runs of the discount model, whose scripts   *)
(* write the run after the route has answered.                             *)
ScheduleRows             == Query({}, {"schedules"})
ScheduleRuns             == Query({}, {"schedule_runs"})
ScheduleSave             == Command({"schedules"})
ModelRuns                == Query({}, {"model_run"})
ModelRunOne              == Query({"id"}, {"model_run", "run_steps"})
ModelStart               == Detached({"model_run"}, {"model_run", "run_steps"})
ModelCancel              == Command({"model_run"})

------------------------------------------------------------------------------
(* Approvals, notifications and chat.                                      *)

ApprovalProposals        == Query({"brand", "batch"}, {"proposals", "bank_txn"})
ProposalPatch            == Command({"proposals"})
ProposalsBatchAction     == Command({"proposals", "rules", "overrides"})
NotificationsRoute       == Query({}, {"notifications"})
NotificationRead         == Command({"notifications"})
NotificationDismiss      == Command({"notifications"})
NotificationsReadAll     == Command({"notifications"})
ChatHistory              == Query({}, {"chat"})
ChatSend                 == Command({"chat"})

------------------------------------------------------------------------------
(* What the agent service keeps, by way of its proxies.                    *)

AgentTasks               == Query({"filters"}, {"tasks"})
AgentTask                == Query({"id"}, {"tasks", "task_steps"})
TaskEnqueue              == Command({"tasks"})
TaskAction               == Command({"tasks"})
AgentCron                == Query({}, {"cron"})
(* The agent has no route for a changed schedule.                          *)
CronSave                 == Command({})
AgentSkills              == Query({}, {"skills"})
AgentSkill               == Query({"skill"}, {"skills"})
SkillCreate              == Command({"skills"})
SkillSave                == Command({"skills"})
SkillDelete              == Command({"skills"})
AgentTools               == Query({}, {"tools"})
ToolSwitch               == Command({"tools"})
AgentConfig              == Query({}, {"agent_config"})
AgentConfigSave          == Command({"agent_config"})
AgentConfigReset         == Command({"agent_config"})
McpStatus                == Query({}, {"mcp"})
==============================================================================
