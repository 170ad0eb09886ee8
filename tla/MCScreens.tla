------------------------------ MODULE MCScreens ------------------------------
EXTENDS Screens, FinancePages, SalesPages, RulePages, AdminPages, AgentPages, TLC

AllPages == FinanceScreens @@ SalesScreens @@ RuleScreens @@ AdminScreens
              @@ AgentScreens

(* Exceptions: what the code does not keep. The metrics of u/income are    *)
(* copied when the page is mounted; the days of the gelato page do not     *)
(* watch the switch, the kept rows of a file and the card of an upload     *)
(* not the brand; the comparison of the dictionaries stays when other      *)
(* brands are picked.                                                      *)
KnownUnwatched ==
    ({"income"} \X {"metrics"} \X Filter)
      \cup ({"gelatoSales"} \X {"daily"} \X {"pure"})
      \cup ({"pipeline"} \X {"unclassified"} \X {"brand"})
      \cup ({"upload"} \X {"coverage"} \X {"brand"})
      \cup ({"dictionary"} \X {"lvl2"} \X {"filter"})
      \cup ({"dictionary"} \X {"preview"} \X {"brands"})

(* An upload of deliveries shows its own result only; a preview is not     *)
(* asked for again when the rules or overrides under it change, nor the    *)
(* comparison when the dictionary does; the window of the chat that is     *)
(* closed and opened while a message is under way reads the history before *)
(* it.                                                                     *)
KnownLeftBehind ==
    ({"xintiandi"} \X {"upload"} \X {"dashboard", "batches"})
      \cup ({"match"} \X {"overrideBatch", "overrideOne", "undo", "settleBatch",
                          "settleBatchDual"} \X {"preview"})
      \cup ({"rules"} \X {"toggle", "delete", "reorder", "import"} \X {"preview"})
      \cup ({"upload"} \X {"inventory"} \X {"coverage"})
      \cup ({"dictionary"} \X {"sync"} \X {"lvl1", "lvl2"})
      \cup ({"dictionary"} \X {"saveLvl1", "saveLvl2", "copy", "sync"} \X {"preview"})
      \cup ({"chat"} \X {"send"} \X {"messages"})
      \cup ({"approvals"} \X {"classify"} \X {"list"})
      \cup ({"skills"} \X {"delete", "toggle"} \X {"body"})

KnownHidden == {<<"taskDetail", "task">>}

KnownPremature ==
    ({"brands", "stores", "ruleGroups"} \X {"order"} \X {"list"})
      \cup ({"approvals"} \X {"classify"} \X {"list"})
      \cup ({"chat"} \X {"send"} \X {"messages"})
      \cup ({"notifications"} \X {"read", "dismiss"} \X {"list"})
      \cup ({"bell"} \X {"read", "dismiss", "readAll"} \X {"list"})
      \cup ({"cron"} \X {"schedule", "metadata"} \X {"entries"})

(* Selections that stay when what they were taken from changes.            *)
KnownOutlived ==
    {<<"income", "period", "span">>, <<"income", "counterparty", "brand">>,
     <<"oldStatements", "store", "brand">>, <<"oldStatements", "counterparty", "brand">>,
     <<"oldPayment", "store", "brand">>, <<"oldPayment", "counterparty", "brand">>,
     <<"oldIncome", "store", "brand">>, <<"oldIncome", "counterparty", "brand">>,
     <<"match", "selected", "brand">>, <<"match", "queue", "brand">>,
     <<"match", "page", "brand">>, <<"rules", "order", "brand">>,
     <<"pipeline", "file", "brand">>,
     <<"approvals", "selected", "brand">>}
==============================================================================
