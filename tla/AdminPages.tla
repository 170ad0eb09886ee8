----------------------------- MODULE AdminPages -----------------------------
(***************************************************************************)
(* The pages of the configuration: brands, stores, groups, users, the      *)
(* dictionary, schedules and the discount model.                           *)
(***************************************************************************)
EXTENDS Endpoints

(* A drag reorders the list, posts the new order and loads the list again  *)
(* without looking at the answer.                                          *)
SavesOrder(command) == Anyway(Early(Patching(Does(command, {"list"}), {"list"})))

------------------------------------------------------------------------------
(* admin/brands, admin/stores, admin/rule-groups, admin/rules-copy         *)

loadBrands      == Loads({AdminBrands}, {})
createBrand     == Does(BrandCreate, {"list"})
saveBrandOrder  == SavesOrder(BrandsReorder)
initBank        == Does(InitBankTemplate, {})
BrandForm       == Section({"list"}, {"create"})
BrandList       == Section({"list"}, {"order", "init"})

BrandsPage ==
    Screen([list |-> loadBrands],
           [create |-> createBrand, order |-> saveBrandOrder, init |-> initBank],
           {BrandForm, BrandList})

loadStores      == Loads({AdminStores}, {"brand"})
createStore     == Does(StoreCreate, {"list"})
deleteStore     == Does(StoreDelete, {"list"})
saveStoreOrder  == SavesOrder(StoresReorder)
StoreList       == Section({"list"}, {"create", "delete", "order"})

StoresPage ==
    Screen([list |-> loadStores],
           [create |-> createStore, delete |-> deleteStore, order |-> saveStoreOrder],
           {StoreList})

loadGroups      == Loads({AdminRuleGroups}, {"brand"})
groupBrands     == Keeping(Loads({BrandsRoute}, {}))
createGroup     == Does(RuleGroupCreate, {"list"})
saveGroupOrder  == SavesOrder(RuleGroupsReorder)
GroupList       == Section({"list", "brands"}, {"create", "order"})

RuleGroupsPage ==
    Screen([list |-> loadGroups, brands |-> groupBrands],
           [create |-> createGroup, order |-> saveGroupOrder], {GroupList})

copyBrands      == Keeping(Loads({BrandsRoute}, {}))
runCopy         == Requiring(Does(RulesCopy, {}), {"from", "to"})
CopyForm        == Section({"brands"}, {"copy"})
RulesCopyPage   == Screen([brands |-> copyBrands], [copy |-> runCopy], {CopyForm})

------------------------------------------------------------------------------
(* admin/users                                                             *)

fetchUsers      == Loads({AdminUsers}, {})
submitUser      == Does(UserCreate, {"users"})
toggleUser      == Does(UserUpdate, {"users"})
deleteUser      == Does(UserDelete, {"users"})
UserTable       == Section({"users"}, {"submit", "toggle", "delete"})

UsersPage ==
    Screen([users |-> fetchUsers],
           [submit |-> submitUser, toggle |-> toggleUser, delete |-> deleteUser], {UserTable})

------------------------------------------------------------------------------
(* admin/config/category-dictionary: the effect of both lists watches the  *)
(* brand; the filter has a button.                                         *)

loadLvl1        == Keeping(Loads({DictLvl1}, {"brand"}))
loadLvl2        == Keeping(Asks({DictLvl2}, {"brand", "filter"}, {"brand"}))
reloadLvl2      == Refreshes({"lvl2"})
saveLvl1        == Does(DictLvl1Save, {"lvl1"})
saveLvl2        == Does(DictLvl2Save, {"lvl2"})
copyFromYufeng  == Does(DictCopyFromYufeng, {"lvl1", "lvl2"})
(* A report of the comparison, taken when the button is pressed.           *)
doPreview       == Needing(Asks({DictPreview}, {"brands"}, {}), {"brands"})
previewDict     == Requiring(Refreshes({"preview"}), {"brands"})
(* The sync writes the dictionaries of several brands and shows counts.    *)
doSync          == Does(DictSync, {})

(* The filter is cleared when the new list of the first level lacks it.    *)
lvl1Effect      == {<<"brand", "filter">>}

Lvl1Tab         == Section({"lvl1"}, {"saveLvl1", "copy"})
Lvl2Tab         == Section({"lvl2"}, {"saveLvl2", "reload"})
SyncTab         == Section({"preview"}, {"preview", "sync"})

DictionaryPage ==
    [Screen([lvl1 |-> loadLvl1, lvl2 |-> loadLvl2, preview |-> doPreview],
            [saveLvl1 |-> saveLvl1, saveLvl2 |-> saveLvl2, reload |-> reloadLvl2,
             copy |-> copyFromYufeng, preview |-> previewDict, sync |-> doSync],
            {Lvl1Tab, Lvl2Tab, SyncTab})
     EXCEPT !.follows = lvl1Effect]

------------------------------------------------------------------------------
(* admin/config/notifications: one handler saves a row, asks the daemon to *)
(* reload and loads all rows again.                                        *)

loadSchedules   == Keeping(Loads({ScheduleRows}, {}))
loadScheduleRuns == Keeping(Loads({ScheduleRuns}, {}))
saveSchedule    == Does(ScheduleSave, {"rows", "runs"})
ScheduleTable   == Section({"rows"}, {"save"})
ScheduleHistory == Section({"runs"}, {})

SchedulesPage ==
    Screen([rows |-> loadSchedules, runs |-> loadScheduleRuns], [save |-> saveSchedule],
           {ScheduleTable, ScheduleHistory})

------------------------------------------------------------------------------
(* admin/config/discount-model and its runs/[id]: polled every five and    *)
(* every two seconds. Starting a run leaves the page.                      *)

refreshRuns     == Polled(Keeping(Loads({ModelRuns}, {})))
startRun        == Renewing(ModelStart, {"runs"})
cancelRun       == Anyway(ByEffect(Does(ModelCancel, {"runs"})))
ModelRunTable   == Section({"runs"}, {"start", "cancel"})

DiscountModelPage ==
    Screen([runs |-> refreshRuns], [start |-> startRun, cancel |-> cancelRun], {ModelRunTable})

refreshRun      == Polled(Keeping(Loads({ModelRunOne}, {"id"})))
cancelOneRun    == Anyway(Does(ModelCancel, {"run"}))
ModelRunView    == Section({"run"}, {"cancel"})

ModelRunPage    == Screen([run |-> refreshRun], [cancel |-> cancelOneRun], {ModelRunView})

------------------------------------------------------------------------------
AdminScreens ==
    [brands |-> BrandsPage, stores |-> StoresPage, ruleGroups |-> RuleGroupsPage,
     rulesCopy |-> RulesCopyPage, users |-> UsersPage, dictionary |-> DictionaryPage,
     schedules |-> SchedulesPage, discountModel |-> DiscountModelPage,
     modelRun |-> ModelRunPage]
==============================================================================
