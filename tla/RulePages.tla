----------------------------- MODULE RulePages -----------------------------
(***************************************************************************)
(* The pages of matching, rules, the pipeline, lineage and uploads. They   *)
(* take their brand from the context, load in effects without a cleanup,   *)
(* and load again from their handlers by calling the load function of      *)
(* their render.                                                           *)
(*                                                                         *)
(* A dialog covers the page it was opened from: its panes carry inputs of  *)
(* the dialog only, its brand cannot change while it is open.              *)
(***************************************************************************)
EXTENDS Endpoints

------------------------------------------------------------------------------
(* match                                                                   *)

fetchUnclassified  == Loads({MatchRoute}, {"brand", "month", "page"})
fetchCandidates    == Keeping(Needing(Loads({MatchCandidates}, {"txn"}), {"txn"}))
fetchPreview       == Clearing(Needing(Loads({MatchPreview}, {"keyword"}), {"keyword"}))

(* Opening the settle dialog sets the keyword to the default of its        *)
(* transaction, which is not previewed.                                    *)
openSettleModal    == {<<"txn", "keyword">>}

Refetch(command)   == Does(command, {"list"})

handleBatchOverride      ==
    Closing(Requiring(Refetch(MatchOverrideBatch), {"selected"}), {"selected"})
handleSingleOverride     == Refetch(MatchOverride)
handleUndo               == Refetch(MatchOverrideDelete)
handleBatchSettle        ==
    Closing(Requiring(Refetch(RulesSettleBatch), {"queue"}), {"queue"})
handleBatchDualMatchSettle ==
    Closing(Requiring(Refetch(RulesSettleBatch), {"queue", "conflicts"}), {"queue", "conflicts"})
handleSettleRule         ==
    Closing(Requiring(Refetch(RulesSettle), {"txn", "keyword"}), {"txn", "keyword"})
handleDualMatchSettle    ==
    Closing(Requiring(Refetch(RulesSettle), {"txn", "keyword"}), {"txn", "keyword"})

MatchQueue         == Section({}, {"settleBatch"})
MatchToolbar       == Section({"list"}, {})
MatchTable         == Section({"list"}, {"undo"})
QuickMatchButton   == Section({}, {"overrideOne"})
MatchPaging        == Section({"list"}, {})
BatchModal         == Section({}, {"overrideBatch"})
SettleModal        == Section({"candidates", "preview"}, {"settle"})
ConflictModal      == Section({}, {"settleDual"})
BatchConflictModal == Section({}, {"settleBatchDual"})

(* Selection and queue hold transactions of the brand they were taken in.  *)
MatchOptions       == {<<"selected", "brand">>, <<"queue", "brand">>, <<"page", "brand">>}

MatchPage ==
    [Screen([list |-> fetchUnclassified, candidates |-> fetchCandidates,
             preview |-> fetchPreview],
            [overrideBatch |-> handleBatchOverride, overrideOne |-> handleSingleOverride,
             undo |-> handleUndo, settleBatch |-> handleBatchSettle,
             settleBatchDual |-> handleBatchDualMatchSettle, settle |-> handleSettleRule,
             settleDual |-> handleDualMatchSettle],
            {MatchQueue, MatchToolbar, MatchTable, QuickMatchButton, MatchPaging, BatchModal,
             SettleModal, ConflictModal, BatchConflictModal})
     EXCEPT !.resets = openSettleModal, !.options = MatchOptions]

------------------------------------------------------------------------------
(* rules: one effect of the brand loads all of them.                       *)

fetchRules         == Loads({RulesRoute}, {"brand"})
fetchCategories    == Keeping(Loads({CategoriesRoute}, {"brand"}))
fetchRuleGroups    == Keeping(Loads({RuleGroupsRoute}, {"brand"}))
fetchImportBrands  == Keeping(Asks({BrandsRoute}, {}, {"brand"}))

(* The preview of the rule dialog, asked for when a value is typed.        *)
fetchRulePreview   == Clearing(Needing(Loads({MatchPreview}, {"keyword"}), {"keyword"}))

handleSubmit        == Closing(Does(RuleUpdate, {"rules"}), {"keyword"})
handleToggleEnabled == Does(RuleUpdate, {"rules"})
handleDeleteConfirm == Does(RuleDelete, {"rules"})
(* The order is that of the rules shown when the mode was entered.         *)
saveReorder         == Closing(Requiring(Does(RulesReorder, {"rules"}), {"order"}), {"order"})
(* The result of a rerun is an alert.                                      *)
handleRerunMatch    == Does(RerunMatch, {})
importRules         == Requiring(Does(ImportFromBrand, {"groups", "rules"}), {"importFrom"})

(* Whatever the dialog of a new rule posts goes to the other route.        *)
handleCreate        == Closing(Does(RuleCreate, {"rules"}), {"keyword"})

RulesHeader        == Section({"rules"}, {"reorder"})
RerunBar           == Section({}, {"rerun"})
RulesFilters       == Section({"categories", "groups"}, {})
SortableRuleRow    == Section({"rules", "categories"}, {"toggle"})
DeleteDialog       == Section({}, {"delete"})
ImportDialog       == Section({"importBrands"}, {"import"})
RuleDialog         == Section({"categories", "groups", "preview"}, {"submit", "create"})

RulesPage ==
    [Screen([rules |-> fetchRules, categories |-> fetchCategories, groups |-> fetchRuleGroups,
             importBrands |-> fetchImportBrands, preview |-> fetchRulePreview],
            [submit |-> handleSubmit, create |-> handleCreate, toggle |-> handleToggleEnabled,
             delete |-> handleDeleteConfirm, reorder |-> saveReorder,
             rerun |-> handleRerunMatch, import |-> importRules],
            {RulesHeader, RerunBar, RulesFilters, SortableRuleRow, DeleteDialog, ImportDialog,
             RuleDialog})
     EXCEPT !.options = {<<"order", "brand">>}, !.follows = {<<"brand", "importFrom">>}]

------------------------------------------------------------------------------
(* pipeline: one Promise.all of three routes, whose error is never taken   *)
(* back; the unclassified of a file are kept once they were read.          *)

PipelineData       == Lasting(Loads({PipelineRuns, CoverageByFile, PipelineKpi}, {"brand"}))
toggleFileCoverage ==
    Once(Keeping(Needing(Asks({UnclassifiedByFile}, {"brand", "file"}, {"file"}), {"file"})))

PipelineKpis       == Section({"data"}, {})
PipelineCoverage   == Section({"data", "unclassified"}, {})
PipelineRunList    == Section({"data"}, {})

PipelinePage ==
    [Screen([data |-> PipelineData, unclassified |-> toggleFileCoverage], NoOps,
            {PipelineKpis, PipelineCoverage, PipelineRunList})
     EXCEPT !.options = {<<"file", "brand">>}]

------------------------------------------------------------------------------
(* lineage: the schemas of the brand, its objects, the columns of one; a   *)
(* failure of any of them is caught and dropped.                           *)

loadSchemas  == Keeping(Asks({Introspect}, {}, {"brand"}))
loadRuns     == Keeping(Asks({PipelineRuns}, {}, {"brand"}))
loadMetrics  == Keeping(Loads({CoverageRoute, CoverageByFile, PipelineKpi}, {"brand"}))
loadObjects  == Clearing(Loads({Introspect}, {"schema"}))
loadDetail   == Clearing(Needing(Loads({Introspect}, {"schema", "object"}), {"object"}))

(* The answers of the brand choose its schema; another schema, chosen by   *)
(* either, clears the object after the columns were asked for with both.   *)
lineageEffects == {<<"brand", "schema">>, <<"schema", "object">>, <<"brand", "object">>}

LineageGraph   == Section({"metrics", "runs"}, {})
LineageBrowser == Section({"schemas", "objects", "detail"}, {})

LineagePage ==
    [Screen([schemas |-> loadSchemas, runs |-> loadRuns, metrics |-> loadMetrics,
             objects |-> loadObjects, detail |-> loadDetail], NoOps,
            {LineageGraph, LineageBrowser})
     EXCEPT !.follows = lineageEffects,
            !.options = {<<"schema", "brand">>, <<"object", "schema">>}]

------------------------------------------------------------------------------
(* upload: the coverage of the file is asked for a second after the answer *)
(* and only then.                                                          *)

uploadBrands    == Keeping(Loads({BrandsRoute}, {}))
uploadStores    == Keeping(Loads({StoresRoute}, {"brand"}))
fetchCoverage   == Keeping(Needing(Asks({CoverageByFile}, {"brand"}, {}), {"file"}))
handleUpload    == Requiring(Does(UploadRoute, {"coverage"}), {"file"})
uploadInventory == Does(TamkokoUpload, {})

UploadForm      == Section({"brands", "stores"}, {"upload"})
UploadResult    == Section({"coverage"}, {})
InventoryUpload == Section({}, {"inventory"})

UploadPage ==
    Screen([brands |-> uploadBrands, stores |-> uploadStores, coverage |-> fetchCoverage],
           [upload |-> handleUpload, inventory |-> uploadInventory],
           {UploadForm, UploadResult, InventoryUpload})

------------------------------------------------------------------------------
RuleScreens ==
    [match |-> MatchPage, rules |-> RulesPage, pipeline |-> PipelinePage,
     lineage |-> LineagePage, upload |-> UploadPage]
==============================================================================
